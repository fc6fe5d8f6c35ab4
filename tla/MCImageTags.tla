---------------------------- MODULE MCImageTags -----------------------------
(***************************************************************************)
(* An instance of ImageTags for TLC: forms over a few tags of every kind,  *)
(* and, before there is a form, pairs of all the tags that can be made of  *)
(* five tokens.                                                            *)
(***************************************************************************)
EXTENDS ImageTags

CONSTANT image

MCCores == <<"1", "2">>

MCLetters == <<"a", "v">>

\* latest, 2.0.0, v2.0.0, 1.0.0-a, a-2.0.0
FewTexts == {<<"a">>, <<"2">>, <<"v", "2">>, <<"1", "-", "a">>, <<"a", "-", "2">>}

Image(tag) == [name |-> image, tag |-> tag]

MCPosts ==
  {[action |-> action, images |-> <<Image(t)>>] :
     action \in {"upgrade", "downgrade"}, t \in FewTexts}
  \union {[action |-> "restart", images |-> <<Image(<<"2">>)>>],
          [action |-> "upgrade", images |-> <<>>],
          [action |-> "downgrade", images |-> <<Image(<<"2">>), Image(<<"a">>), Image(<<"2">>)>>]}

\* Every text of up to three tokens, alone, after a v and after a prefix.
ManyTexts ==
  LET short == UNION {[1..n -> ToSet(Bytes)] : n \in 1..3}
  IN  short \union {<<"v">> \o s : s \in short} \union {<<"a", "-">> \o s : s \in short}

MCPushed == {{}} \union {{t, u} : t, u \in ManyTexts}

FewOrPairs ==
  \/ registry[image] \subseteq FewTexts
  \/ Cardinality(registry[image]) <= 2 /\ \A f \in Forms : form[f] = NewForm
=============================================================================
