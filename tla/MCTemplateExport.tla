--------------------------- MODULE MCTemplateExport -------------------------
(***************************************************************************)
(* An instance of TemplateExport for TLC: a pod with one container, one    *)
(* export, and three requests that stop, start, upgrade and sync it.       *)
(***************************************************************************)
EXTENDS TemplateExport, TLC

CONSTANTS p1, a, b

Post(action, batch, images, checks) ==
  [action |-> action, pods |-> batch, images |-> images, checks |-> checks]

MCTemplates == {<<PrivateImage(a)>>, <<PrivateImage(b)>>}

MCPosts ==
  {Post("start", <<p1>>, <<>>, <<>>),
   Post("stop", <<p1>>, <<>>, <<>>),
   Post("sync", <<p1>>, <<>>, <<>>),
   Post("upgrade", <<p1>>, <<b>>, <<>>)}

ASSUME NoneByHand == OnlyExports

AnyRequest == Permutations(Requests)
=============================================================================
