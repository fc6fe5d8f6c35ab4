---------------------------- MODULE MCPodActions ----------------------------
(***************************************************************************)
(* An instance of PodActions for TLC: a pod with one or two containers,    *)
(* posts that fit them, leave a container out, or are too long for one,    *)
(* and a template to which a stopped container has been exported.          *)
(***************************************************************************)
EXTENDS PodActions

CONSTANTS p1, a, b

Post(action, batch, images, checks) ==
  [action |-> action, pods |-> batch, images |-> images, checks |-> checks]

MCTemplates == {<<PauseImage>>, <<PrivateImage(a), PrivateImage(b)>>}

MCPosts ==
  {Post("stop", <<p1>>, <<>>, <<>>),
   Post("restart", <<p1, p1>>, <<>>, <<FALSE, TRUE>>),
   Post("start", <<p1>>, <<>>, <<TRUE, TRUE>>),
   Post("upgrade", <<p1>>, <<b>>, <<>>),
   Post("downgrade", <<p1>>, <<NoImage, a>>, <<>>),
   Post("sync", <<p1>>, <<>>, <<>>),
   Post("delete", <<p1>>, <<>>, <<>>)}
=============================================================================
