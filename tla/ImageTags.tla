------------------------------ MODULE ImageTags -----------------------------
(***************************************************************************)
(* The upgrade and downgrade forms: for each of the first two containers   *)
(* of the first selected pod the console asks the registry for the tags of *)
(* its image (main.go, showPodsForm and getImageTags), parses and sorts    *)
(* them (pkg/page/algorithm.go), and offers those after, or before, the    *)
(* tag that is running. Tags are pushed and deleted in the meantime.       *)
(*                                                                         *)
(* The text of a tag is a sequence of tokens: "-", a letter, or a version  *)
(* number n.0.0, of which the model keeps the n.                           *)
(***************************************************************************)
EXTENDS Naturals, SequencesExt

CONSTANTS
  Cores,    \* the version numbers, in their order
  Letters,  \* the letters, in their order; "v" is one of them
  Texts,    \* the tags that may be pushed
  Pushed,   \* the sets of tags that an image may have at first
  Names,    \* the names of the images
  Posts,    \* what the pod list posts: an action and the images of the first pod
  Forms,    \* the forms that are asked for, one goroutine each
  Limit,    \* the most tags that a form offers (50)
  MaxTags   \* bound on the tags of an image

VARIABLES
  registry,  \* the tags of each image
  form       \* the forms

vars == <<registry, form>>

\* The order of the bytes that tokens begin with.
Bytes == <<"-">> \o Cores \o Letters

Token == ToSet(Bytes)

ASSUME ConstantsAssumption ==
  /\ Limit \in Nat /\ MaxTags \in Nat
  /\ Cores \in Seq(ToSet(Cores)) /\ IsInjective(Cores)
  /\ Letters \in Seq(ToSet(Letters)) /\ IsInjective(Letters)
  /\ ToSet(Cores) \intersect ToSet(Letters) = {}
  /\ "-" \notin ToSet(Cores) \union ToSet(Letters)
  /\ Texts \subseteq Seq(Token)
  /\ \A tags \in Pushed : tags \subseteq Seq(Token) /\ IsFiniteSet(tags)
  /\ Posts \subseteq [action : {"upgrade", "downgrade", "restart"},
                     images : Seq([name : Names, tag : Seq(STRING)])]

Before(order, x, y) == \E i, j \in DOMAIN order : i < j /\ order[i] = x /\ order[j] = y

\* < of strings.
StringLess(s, t) ==
  \/ IsStrictPrefix(s, t)
  \/ \E k \in DOMAIN s \intersect DOMAIN t :
       SubSeq(s, 1, k - 1) = SubSeq(t, 1, k - 1) /\ Before(Bytes, s[k], t[k])
-----------------------------------------------------------------------------
(***************************************************************************)
(* The versions of the semver library, with at most one token after the    *)
(* hyphen. Parse results are sets, empty for a text that does not parse.   *)
(***************************************************************************)
Parse(s) ==
  IF /\ Len(s) \in {1, 3}
     /\ s[1] \in ToSet(Cores)
     /\ Len(s) = 3 => s[2] = "-"
  THEN {[core |-> s[1], pre |-> SubSeq(s, 3, Len(s))]}
  ELSE {}

\* A version with a prerelease comes before the one without; numbers come before
\* what is not a number.
Compare(v, w) ==
  \/ Before(Cores, v.core, w.core)
  \/ /\ v.core = w.core
     /\ \/ v.pre # <<>> /\ w.pre = <<>>
        \/ v.pre # <<>> /\ w.pre # <<>> /\ Before(Cores \o <<"-">> \o Letters, v.pre[1], w.pre[1])

\* The text cut after its first n tokens into a prefix and a version.
Cut(s, n) ==
  {[prefix |-> SubSeq(s, 1, n), version |-> v] : v \in Parse(SubSeq(s, n + 1, Len(s)))}

Hyphens(s) == {i \in DOMAIN s : s[i] = "-"}

\* Mutant: the prefix ends before the hyphen.
ParseImageTag_DropHyphen(s) ==
  LET n == IF Hyphens(s) = {} THEN 0 ELSE CHOOSE i \in Hyphens(s) : \A j \in Hyphens(s) : i <= j
  IN  IF Parse(s) # {} THEN Cut(s, 0)
      ELSE {[prefix |-> SubSeq(s, 1, n - 1), version |-> v] : v \in Parse(SubSeq(s, n + 1, Len(s)))}

\* As it is, then without a v, then from the first hyphen on.
ParseImageTag(s) ==
  LET vCut == IF s # <<>> /\ s[1] = "v" THEN Cut(s, 1) ELSE {}
      hyphenCut == UNION {Cut(s, i) : i \in {i \in Hyphens(s) : \A j \in Hyphens(s) : i <= j}}
  IN  CASE Cut(s, 0) # {} -> Cut(s, 0)
        [] Cut(s, 0) = {} /\ vCut # {} -> vCut
        [] OTHER -> hyphenCut

String(v) ==
  v.prefix \o <<v.version.core>> \o IF v.version.pre = <<>> THEN <<>> ELSE <<"-">> \o v.version.pre

\* Mutant: prefixes are not compared.
Less_NoPrefix(v, w) == Compare(v.version, w.version)

Less(v, w) ==
  IF v.version = w.version THEN StringLess(v.prefix, w.prefix) ELSE Compare(v.version, w.version)

\* The results that sorting the tags in S can have (sort.Sort is not stable).
SortCombinedVersions(S) ==
  {q \in {[i \in DOMAIN p |-> CHOOSE v \in ParseImageTag(p[i]) : TRUE] :
            p \in SetToSeqs({t \in S : ParseImageTag(t) # {}})} :
     \A i, j \in DOMAIN q : i < j => ~Less(q[j], q[i])}

CombinedVersionsToStrings(q) == [i \in DOMAIN q |-> String(q[i])]

\* The first place of tag in q, or zero.
SearchCombinedVersions(q, tag) == SelectInSeq(q, LAMBDA t : t = tag)

LimitCombinedVersions(q) == SubSeq(q, 1, IF Len(q) > Limit THEN Limit ELSE Len(q))

\* Mutant: the downgrades are cut off before they are turned around.
Offer_LimitFirst(action, q, tag) ==
  LET index == SearchCombinedVersions(q, tag)
  IN  CASE action = "upgrade" -> LimitCombinedVersions(SubSeq(q, index + 1, Len(q)))
        [] action = "downgrade" ->
             Reverse(LimitCombinedVersions(SubSeq(q, 1, IF index = 0 THEN Len(q) ELSE index - 1)))

\* Mutant: a tag that is not in the list has no tag before it.
Offer_NotFound(action, q, tag) ==
  LET index == SearchCombinedVersions(q, tag)
  IN  LimitCombinedVersions(
        CASE action = "upgrade" -> SubSeq(q, index + 1, Len(q))
          [] action = "downgrade" -> Reverse(SubSeq(q, 1, index - 1)))

\* A tag that is not in the list has every tag both after and before it.
Offer(action, q, tag) ==
  LET index == SearchCombinedVersions(q, tag)
  IN  LimitCombinedVersions(
        CASE action = "upgrade" -> SubSeq(q, index + 1, Len(q))
          [] action = "downgrade" ->
               Reverse(SubSeq(q, 1, IF index = 0 THEN Len(q) ELSE index - 1)))
-----------------------------------------------------------------------------
(***************************************************************************)
(* A form: the post, and for each image that has been looked up the tags   *)
(* the registry returned and the tags that are offered.                    *)
(***************************************************************************)
NewForm == [pc |-> "new", action |-> "restart", images |-> <<>>, offers |-> <<>>, resp |-> "none"]

Init ==
  /\ registry \in [Names -> Pushed]
  /\ form = [f \in Forms |-> NewForm]

\* The post is decoded. Only upgrade and downgrade ask the registry.
showPodsForm(f) ==
  /\ form[f].pc = "new"
  /\ \E post \in Posts :
       LET images == SubSeq(post.images, 1, IF Len(post.images) > 2 THEN 2 ELSE Len(post.images))
           ask == images # <<>> /\ post.action \in {"upgrade", "downgrade"}
       IN  form' = [form EXCEPT ![f].pc = IF ask THEN "tags" ELSE "done",
                                ![f].action = post.action, ![f].images = images,
                                ![f].resp = IF ask THEN "none" ELSE "page"]
  /\ UNCHANGED registry

\* A post that is not JSON, or a list without pods, the first of which is taken.
BadPost(f) ==
  /\ form[f].pc = "new"
  /\ \E resp \in {"error", "panic"} : form' = [form EXCEPT ![f].pc = "done", ![f].resp = resp]
  /\ UNCHANGED registry

\* One call to the registry; if it fails, or the reply is not JSON, there are no tags.
getImageTags(f) ==
  LET i == Len(form[f].offers) + 1
      last == i = Len(form[f].images)
  IN  /\ form[f].pc = "tags"
      /\ \E seen \in {registry[form[f].images[i].name], {}} :
           \E q \in SortCombinedVersions(seen) :
             form' = [form EXCEPT
                        ![f].offers = Append(@, [seen |-> seen,
                          tags |-> Offer(form[f].action, CombinedVersionsToStrings(q),
                                         form[f].images[i].tag)]),
                        ![f].pc = IF last THEN "done" ELSE @,
                        ![f].resp = IF last THEN "page" ELSE @]
      /\ UNCHANGED registry

\* External: somebody pushes a tag.
Push(n) ==
  /\ \E t \in Texts \ registry[n] : registry' = [registry EXCEPT ![n] = @ \union {t}]
  /\ Cardinality(registry[n]) < MaxTags
  /\ UNCHANGED form

\* External: somebody deletes a tag.
Delete(n) ==
  /\ \E t \in registry[n] : registry' = [registry EXCEPT ![n] = @ \ {t}]
  /\ UNCHANGED form

Next ==
  \/ \E f \in Forms : showPodsForm(f) \/ BadPost(f) \/ getImageTags(f)
  \/ \E n \in Names : Push(n) \/ Delete(n)

Spec == Init /\ [][Next]_vars
-----------------------------------------------------------------------------
\* Tag u is a later version than t; both parse.
Later(u, t) == \E v \in ParseImageTag(u), w \in ParseImageTag(t) : Less(w, v)

\* Going from t to u is what the action is for.
Onward(action, u, t) == IF action = "upgrade" THEN Later(u, t) ELSE Later(t, u)

(***************************************************************************)
(* A form for a tag that the registry lists offers exactly the Limit       *)
(* versions that come next in its direction, the nearest first, whatever   *)
(* else the registry lists and in whatever order (showPodsForm: sort,      *)
(* search, slice, reverse, limit).                                         *)
(***************************************************************************)
OffersNearest ==
  \A f \in Forms : \A i \in DOMAIN form[f].offers :
    LET t == form[f].images[i].tag
        offer == form[f].offers[i]
        onward == {u \in offer.seen : Onward(form[f].action, u, t)}
    IN  t \in offer.seen /\ ParseImageTag(t) # {} =>
          /\ ToSet(offer.tags) = {u \in onward :
               Cardinality({w \in onward : Onward(form[f].action, u, w)}) < Limit}
          /\ \A j, k \in DOMAIN offer.tags :
               j < k => Onward(form[f].action, offer.tags[k], offer.tags[j])

(***************************************************************************)
(* No version is hidden by a running tag that the registry does not list,  *)
(* because it was deleted or does not parse: when the versions of the      *)
(* registry fit into the form, a version is left out only if it is the     *)
(* running one, or if the running one is listed and it lies the other way  *)
(* (showPodsForm takes the whole list when the search fails).              *)
(***************************************************************************)
NothingHidden ==
  \A f \in Forms : \A i \in DOMAIN form[f].offers :
    LET t == form[f].images[i].tag
        versions == {u \in form[f].offers[i].seen : ParseImageTag(u) # {}}
    IN  Cardinality(versions) <= Limit =>
          \A u \in versions \ ToSet(form[f].offers[i].tags) :
            t \in versions /\ ~Onward(form[f].action, u, t)

\* A tag that parses is written again as it was read, so that the search for the
\* running tag finds it and a chosen tag names an image (ParseImageTag, String).
ReadsBack ==
  \A n \in Names : \A t \in registry[n] : \A v \in ParseImageTag(t) : String(v) = t

\* Two tags of an image that parse are ordered one way and not the other, though
\* their versions may be equal, so that sorting them has one result (Less).
OneOrder ==
  \A n \in Names : \A t, u \in registry[n] :
    t # u /\ ParseImageTag(t) # {} /\ ParseImageTag(u) # {} => Later(t, u) # Later(u, t)
=============================================================================
