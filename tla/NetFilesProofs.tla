--------------------------- MODULE NetFilesProofs ---------------------------
(***************************************************************************)
(* FilesKept, ViewIsCurrent, NothingMissingIsUsed and ActsOnWhatIsShown,   *)
(* for any users, disk, names and number of clicks.                        *)
(*                                                                         *)
(* None is inductive.  Six layers carry them, each resting on the ones     *)
(* before.                                                                 *)
(*   Types      the disk is a tree, and a client names only what is in its *)
(*              user's tree or nowhere.                                    *)
(*   Kept       a file that was not deleted is in its owner's tree.        *)
(*   Views      a directory is entered once at a time, the last list asked *)
(*              for is the panel's, and what is shown will be what is      *)
(*              there unless a refresh is on its way (Refreshing).         *)
(*   Patience   of a user who waits for his answers: he asks for one thing *)
(*              at a time, means what he saw, and the buttons for files    *)
(*              are off while the list may change.                         *)
(*   Locations  the directory he is in is there, unless Return in his root *)
(*              has cut the path.                                          *)
(*   PicksHold  what he picked to move, share or offer is still what it    *)
(*              was when he picked it, wherever the offer has got to.      *)
(*                                                                         *)
(* Lemmas named ...Is say what an action does; then every layer is shown   *)
(* to be kept, action by action.                                           *)
(***************************************************************************)
EXTENDS NetFiles, SequenceTheorems, FiniteSetTheorems, WellFoundedInduction, TLAPS

-----------------------------------------------------------------------------
(***************************************************************************)
(* Types.                                                                  *)

Components == Users \cup Names

\* What c may name: something in its user's tree, or, when Return was pressed in
\* the root and the user's name is gone, names alone.
MayName(c, p) == \A i \in 1..Len(p) : p[i] \in Names \/ (i = 1 /\ p[1] = c)
Paths(c) == {p \in Seq(Components) : MayName(c, p)}

\* Those that end in a name.
Inner(c) == {p \in Seq(Components) : MayName(c, p) /\ p # <<>> /\ p[Len(p)] \in Names}

Values == {InitialFs[p] : p \in DOMAIN InitialFs} \cup {Dir}
Lists == UNION {[S -> Values] : S \in SUBSET Names}

\* An offer, and what becomes of it: a path of the one who made it.
Offers(kinds) ==
  {n \in [kind : kinds, from : Users, path : Seq(Components), meant : Values] : n.path \in Inner(n.from)}
Notes == Offers({"note"})

Requests(c) ==
  [kind : {"list", "enter"}, path : Paths(c)]
  \cup [kind : {"create"}, path : Paths(c), name : Names]
  \cup [kind : {"delete"}, path : Inner(c), meant : Values]
  \cup [kind : {"rename"}, path : Inner(c), to : Inner(c), meant : Values]
  \cup [kind : {"move"}, path : Inner(c), to : Paths(c), name : Names, meant : Values]
  \cup [kind : {"share"}, from : {c}, to : Users, path : Inner(c), meant : Values]
  \cup Offers({"agree", "refuse"})

Responses ==
  [kind : {"list"}, list : Lists]
  \cup [kind : {"entered"}, ok : {TRUE}, list : Lists]
  \cup [kind : {"entered"}, ok : {FALSE}]
  \cup [kind : {"changed"}, ok : BOOLEAN]
  \cup [kind : {"told"}] \cup Notes

Panels(c) ==
  [cur : Paths(c), enter : Names \cup {NoName}, shown : Lists, item : Names \cup {NoName},
   delOn : BOOLEAN, fileOn : BOOLEAN, retOn : BOOLEAN,
   moving : {NoPath} \cup [path : Inner(c), name : Names, meant : Values],
   sharing : {NoName} \cup [name : Names, meant : Values]]

\* A rename stays in its directory.
SameDir(r) == Len(r.to) = Len(r.path) /\ \A i \in 1..(Len(r.path) - 1) : r.to[i] = r.path[i]

EnteringIn(R, A) ==
  (\E i \in DOMAIN R : R[i].kind = "enter") \/ (\E i \in DOMAIN A : A[i].kind = "entered")

Boxes == [kind : {"told"}] \cup Notes

\* Requests R, answers A, open boxes B and the panel p of c.
Client(c, R, A, B, p) ==
  /\ R \in Seq(Requests(c)) /\ A \in Seq(Responses) /\ B \in Seq(Boxes) /\ p \in Panels(c)
  /\ p.item = NoName \/ p.item \in DOMAIN p.shown
  /\ EnteringIn(R, A) => p.enter \in Names
  /\ \A i \in DOMAIN R : R[i].kind = "rename" => SameDir(R[i])

\* A disk with nothing on it that was not there at first.
Disk(f) == IsTree(f) /\ \A p \in DOMAIN f : f[p] \in Values

Types ==
  /\ Disk(fs)
  /\ ui = [c \in Users |-> ui[c]] /\ req = [c \in Users |-> req[c]]
  /\ ans = [c \in Users |-> ans[c]] /\ box = [c \in Users |-> box[c]]
  /\ \A c \in Users : Client(c, req[c], ans[c], box[c], ui[c])
  /\ undef \in {"no", "missing", "unset"}
  /\ hasty \subseteq Users /\ mixed \subseteq Users /\ cut \subseteq Users
  /\ stale \subseteq Users /\ wrong \subseteq Users

-----------------------------------------------------------------------------
(* No file is lost.                                                        *)

Kept ==
  \A u \in Users : \A p \in DOMAIN InitialFs :
    p[1] = u /\ InitialFs[p] # Dir =>
      InitialFs[p] \in deleted \/ \E q \in DOMAIN fs : q[1] = u /\ fs[q] = InitialFs[p]

-----------------------------------------------------------------------------
(* The view.                                                               *)

\* What a directory of the disk f holds.
Kids(f, p) == {q \in DOMAIN f : Len(q) = Len(p) + 1 /\ IsPrefix(p, q)}
ListOf(f, p) == [n \in {Last(q) : q \in Kids(f, p)} |-> f[Append(p, n)]]

\* Something will make the client ask for the list again, or it has asked.
Refreshing(R, A, B) ==
  \/ \E i \in DOMAIN R : R[i].kind = "list"
  \/ \E i \in DOMAIN A : A[i].kind = "told" \/ (A[i].kind = "changed" /\ A[i].ok)
  \/ \E i \in DOMAIN B : B[i].kind = "told"

\* A directory is entered once at a time, and no list is asked for meanwhile.
EntersOnce(R, A, p) ==
  /\ \A i \in DOMAIN R : R[i].kind = "enter" =>
       /\ R[i].path = Append(p.cur, p.enter)
       /\ \A j \in DOMAIN R : j > i => R[j].kind \notin {"list", "enter"}
       /\ \A j \in DOMAIN A : A[j].kind # "entered"
  /\ \A i \in DOMAIN A : A[i].kind = "entered" =>
       /\ \A j \in DOMAIN R : R[j].kind # "list"
       /\ \A j \in DOMAIN A : j > i => A[j].kind \notin {"list", "entered"}

\* The last list asked for is that of the directory where the panel is.
AsksHere(R, p) ==
  \A i \in DOMAIN R :
    R[i].kind = "list" /\ (\A j \in DOMAIN R : j > i => R[j].kind # "list") => R[i].path = p.cur

\* What will be shown when the answers have been taken is what is there.
EntersNow(A) == \E i \in DOMAIN A : A[i].kind = "entered" /\ A[i].ok
EnteredIsThere(A, p, f) ==
  \A i \in DOMAIN A : A[i].kind = "entered" /\ A[i].ok => A[i].list = ListOf(f, Append(p.cur, p.enter))
ListIsThere(A, p, f) ==
  \A i \in DOMAIN A :
    A[i].kind = "list" /\ (\A j \in DOMAIN A : j > i => A[j].kind # "list")
      => A[i].list = ListOf(f, p.cur)
ShownIsThere(A, p, f) == (\A i \in DOMAIN A : A[i].kind # "list") => p.shown = ListOf(f, p.cur)

View(R, A, B, p, f) ==
  /\ EntersOnce(R, A, p) /\ AsksHere(R, p)
  /\ ~Refreshing(R, A, B) =>
       /\ EnteredIsThere(A, p, f)
       /\ ~EntersNow(A) => ListIsThere(A, p, f) /\ ShownIsThere(A, p, f)

Views == Defined => \A c \in Users \ mixed : View(req[c], ans[c], box[c], ui[c], fs)

-----------------------------------------------------------------------------
(* The patient user, who waits for his answers.                            *)

Clicked == {"enter", "create", "delete", "rename", "move", "share"}

\* What he asked for is served before anything else of his.
AsksOnce(R, A, p) ==
  /\ \A i \in DOMAIN R : R[i].kind \in Clicked => i = 1
  /\ \A i \in DOMAIN A : A[i].kind = "entered" => \A j \in DOMAIN R : R[j].kind \notin Clicked
  /\ \A i \in DOMAIN R : R[i].kind = "list" => R[i].path = p.cur

\* What he asked to delete, rename or enter is what he saw.
MeansIt(R, p, f) ==
  \A i \in DOMAIN R :
    /\ R[i].kind \in {"delete", "rename"} =>
         /\ Len(R[i].path) = Len(p.cur) + 1
         /\ R[i].path \in DOMAIN f /\ f[R[i].path] = R[i].meant
    /\ R[i].kind = "enter" => R[i].path \in DOMAIN f /\ (p.fileOn => f[R[i].path] # Dir)

\* The buttons for a file are off while the list may change.
ButtonsOff(R, A, p) ==
  /\ p.item = NoName => ~p.fileOn
  /\ (\E i \in DOMAIN R : R[i].kind = "list") => ~p.fileOn
  /\ \A i \in DOMAIN A : A[i].kind = "list" \/ (A[i].kind = "entered" /\ A[i].ok) => ~p.fileOn

Patient(R, A, p, f) == AsksOnce(R, A, p) /\ MeansIt(R, p, f) /\ ButtonsOff(R, A, p)
Patience == Defined => \A c \in Users \ (mixed \cup hasty) : Patient(req[c], ans[c], ui[c], fs)

\* He is in a directory that is there.
DirIn(f, p) == p \in DOMAIN f /\ f[p] = Dir
Located(A, p, f) ==
  /\ DirIn(f, p.cur)
  /\ \A i \in DOMAIN A : A[i].kind = "entered" /\ A[i].ok => DirIn(f, Append(p.cur, p.enter))
Locations == Defined => \A c \in Users \ (mixed \cup hasty \cup cut) : Located(ans[c], ui[c], fs)

-----------------------------------------------------------------------------
(* What was picked.                                                        *)

Moving == {"delete", "rename", "move"}
Holds(f, p, v) == p \in DOMAIN f /\ f[p] = v

\* The offers of c among the messages in s.
OffersIn(s, c) == {i \in DOMAIN s : s[i].kind \in {"share", "agree", "note"} /\ s[i].from = c}
Offering(c, R, A, B) ==
  \E u \in Users : OffersIn(R[u], c) # {} \/ OffersIn(A[u], c) # {} \/ OffersIn(B[u], c) # {}
OfferHolds(s, c, f) == \A i \in OffersIn(s, c) : Holds(f, s[i].path, s[i].meant)

\* Among the requests R, the answers A and the boxes B of all users.
Picks(c, R, A, B, p, f) ==
  /\ p.moving # NoPath => Holds(f, p.moving.path, p.moving.meant)
  /\ p.sharing # NoName =>
       Holds(f, Append(p.cur, p.sharing.name), p.sharing.meant) /\ ~EnteringIn(R[c], A[c])
  /\ \A i \in DOMAIN R[c] :
       /\ R[c][i].kind \in Moving => p.moving = NoPath /\ p.sharing = NoName /\ ~Offering(c, R, A, B)
       /\ R[c][i].kind = "move" => Holds(f, R[c][i].path, R[c][i].meant)
  /\ \A u \in Users : OfferHolds(R[u], c, f) /\ OfferHolds(A[u], c, f) /\ OfferHolds(B[u], c, f)

PicksHold == Defined => \A c \in Users \ (mixed \cup hasty \cup stale) : Picks(c, req, ans, box, ui[c], fs)
-----------------------------------------------------------------------------
(* Paths and trees.                                                        *)

LEMMA PrefixPoints ==
  ASSUME NEW S, NEW s \in Seq(S), NEW t \in Seq(S)
  PROVE  IsPrefix(s, t) <=> Len(s) <= Len(t) /\ \A i \in 1..Len(s) : s[i] = t[i]
<1>1. CASE Len(s) <= Len(t)
  <2>1. /\ SubSeq(s, 1, Len(s)) \in Seq(S) /\ Len(SubSeq(s, 1, Len(s))) = Len(s)
        /\ \A i \in 1..Len(s) : SubSeq(s, 1, Len(s))[i] = s[i]
    BY SubSeqProperties
  <2>2. \A i \in 1..Len(s) : t[i] \in S
    BY <1>1
  <2>3. /\ SubSeq(t, 1, Len(s)) \in Seq(S) /\ Len(SubSeq(t, 1, Len(s))) = Len(s)
        /\ \A i \in 1..Len(s) : SubSeq(t, 1, Len(s))[i] = t[i]
    BY <2>2, SubSeqProperties
  <2>4. SubSeq(s, 1, Len(s)) = SubSeq(t, 1, Len(s))
          <=> \A i \in 1..Len(s) : SubSeq(s, 1, Len(s))[i] = SubSeq(t, 1, Len(s))[i]
    BY <2>1, <2>3, SeqEqual
  <2> QED
    BY <1>1, <2>1, <2>3, <2>4 DEF IsPrefix
<1>2. CASE ~(Len(s) <= Len(t))
  BY <1>2 DEF IsPrefix
<1> QED
  BY <1>1, <1>2

\* A beginning of a sequence.
LEMMA Beginning ==
  ASSUME NEW S, NEW s \in Seq(S), NEW k \in 0..Len(s)
  PROVE  /\ SubSeq(s, 1, k) \in Seq(S) /\ Len(SubSeq(s, 1, k)) = k
         /\ \A i \in 1..k : SubSeq(s, 1, k)[i] = s[i]
<1>1. \A i \in 1..k : s[i] \in S
  BY SMT
<1> QED
  BY <1>1, SubSeqProperties

LEMMA TreePath ==
  ASSUME NEW f, IsTree(f), NEW p \in DOMAIN f
  PROVE  /\ p \in Seq(Components) /\ Len(p) \in Nat \ {0} /\ p[1] \in Users
         /\ \A i \in 2..Len(p) : p[i] \in Names
         /\ p \in Paths(p[1])
         /\ Len(p) > 1 => p \in Inner(p[1])
<1>1. /\ p \in Seq(Components) /\ p # <<>>
      /\ \A i \in 1..Len(p) : p[i] \in IF i = 1 THEN Users ELSE Names
  BY DEF IsTree, Components
<1>2. Len(p) \in Nat \ {0}
  BY <1>1, EmptySeq
<1>3. p[1] \in Users /\ \A i \in 2..Len(p) : p[i] \in Names
  BY <1>1, <1>2
<1> QED
  BY <1>1, <1>2, <1>3 DEF Paths, Inner, MayName

LEMMA TreePrefix ==
  ASSUME NEW f, IsTree(f), NEW p \in DOMAIN f, NEW q \in Seq(Components), q # <<>>,
         IsPrefix(q, p), q # p
  PROVE  q \in DOMAIN f /\ f[q] = Dir /\ Len(q) < Len(p)
<1>1. p \in Seq(Components) /\ Len(q) \in Nat \ {0} /\ Len(p) \in Nat
  BY TreePath, EmptySeq
<1>2. Len(q) <= Len(p) /\ \A i \in 1..Len(q) : q[i] = p[i]
  BY <1>1, PrefixPoints
<1>3. Len(q) # Len(p)
  BY <1>1, <1>2, SeqEqual
<1>4. Len(q) \in 1..(Len(p) - 1)
  BY <1>1, <1>2, <1>3
<1>5. q = SubSeq(p, 1, Len(q))
  <2>1. /\ SubSeq(p, 1, Len(q)) \in Seq(Components) /\ Len(SubSeq(p, 1, Len(q))) = Len(q)
        /\ \A i \in 1..Len(q) : SubSeq(p, 1, Len(q))[i] = p[i]
    BY <1>1, <1>4, Beginning
  <2> QED
    BY <1>1, <1>2, <2>1, SeqEqual
<1>6. SubSeq(p, 1, Len(q)) \in DOMAIN f /\ f[SubSeq(p, 1, Len(q))] = Dir
  BY <1>4 DEF IsTree
<1>7. q \in DOMAIN f /\ f[q] = Dir
  BY <1>5, <1>6
<1> QED
  BY <1>1, <1>4, <1>7

LEMMA TreeHasPrefixes ==
  ASSUME NEW f, NEW p \in DOMAIN f, p \in Seq(Components),
         \A q \in Seq(Components) : q # <<>> /\ IsPrefix(q, p) /\ q # p => q \in DOMAIN f /\ f[q] = Dir,
         NEW k \in 1..(Len(p) - 1)
  PROVE  LET q == SubSeq(p, 1, k) IN q \in DOMAIN f /\ f[q] = Dir
<1> DEFINE q == SubSeq(p, 1, k)
<1>1. /\ q \in Seq(Components) /\ Len(q) = k /\ Len(p) \in Nat
      /\ \A i \in 1..k : q[i] = p[i]
  BY Beginning
<1> HIDE DEF q
<1>2. IsPrefix(q, p)
  BY <1>1, PrefixPoints
<1>3. q # p /\ q # <<>>
  BY <1>1
<1>4. q \in DOMAIN f /\ f[q] = Dir
  BY <1>1, <1>2, <1>3
<1> QED
  BY <1>4 DEF q

\* What differs between two trees is below the root of c.
OnlyIn(c, f, g) ==
  \A q \in DOMAIN f \cup DOMAIN g :
    Len(q) = 1 \/ q[1] # c => q \in DOMAIN f /\ q \in DOMAIN g /\ g[q] = f[q]

\* What is in f is in g, perhaps elsewhere, but in the same user's tree.
Carried(f, g) ==
  \A p \in DOMAIN f : \E q \in DOMAIN g : q[1] = p[1] /\ g[q] = f[p]

IsFun(g) == g = [q \in DOMAIN g |-> g[q]]

\* One thing more.
LEMMA GrowTree ==
  ASSUME NEW f, NEW g, NEW new, NEW c \in Users, IsTree(f),
         new \notin DOMAIN f, new \in Inner(c), Len(new) > 1,
         SubSeq(new, 1, Len(new) - 1) \in DOMAIN f, f[SubSeq(new, 1, Len(new) - 1)] = Dir,
         IsFun(g), DOMAIN g = DOMAIN f \cup {new}, \A p \in DOMAIN f : g[p] = f[p]
  PROVE  /\ IsTree(g) /\ OnlyIn(c, f, g)
         /\ \A p \in DOMAIN f : p \in DOMAIN g /\ g[p] = f[p]
<1> DEFINE up == SubSeq(new, 1, Len(new) - 1)
<1>1. /\ new \in Seq(Components) /\ Len(new) \in Nat
      /\ \A i \in 1..Len(new) : new[i] \in Names \/ (i = 1 /\ new[1] = c)
      /\ new[Len(new)] \in Names
  BY DEF Inner, MayName
<1>2. up \in Seq(Components) /\ Len(up) = Len(new) - 1 /\ \A i \in 1..Len(up) : up[i] = new[i]
  BY <1>1, Beginning
<1>3. new[1] = c
  <2>1. up[1] \in Users
    BY TreePath
  <2> QED
    BY <1>1, <1>2, <2>1, NamesAssumption
<1>4. \A p \in DOMAIN f : p \in DOMAIN g /\ g[p] = f[p]
  OBVIOUS
<1>5. g = [q \in DOMAIN g |-> g[q]] /\ DOMAIN g = DOMAIN f \cup {new}
  BY DEF IsFun
<1>6. IsFiniteSet(DOMAIN g)
  BY <1>5, FS_AddElement DEF IsTree
<1>7. \A u \in Users : <<u>> \in DOMAIN g /\ g[<<u>>] = Dir
  BY <1>4 DEF IsTree
<1>8. ASSUME NEW p \in DOMAIN g
      PROVE  /\ p \in Seq(Users \cup Names) /\ p # <<>>
             /\ \A i \in 1..Len(p) : p[i] \in IF i = 1 THEN Users ELSE Names
             /\ \A k \in 1..(Len(p) - 1) : LET q == SubSeq(p, 1, k) IN q \in DOMAIN g /\ g[q] = Dir
  <2>1. CASE p \in DOMAIN f
    BY <1>4, <2>1 DEF IsTree
  <2>2. CASE p = new
    <3>1. p \in Seq(Users \cup Names) /\ p # <<>>
      BY <1>1, <2>2, EmptySeq DEF Components
    <3>2. \A i \in 1..Len(p) : p[i] \in IF i = 1 THEN Users ELSE Names
      BY <1>1, <1>3, <2>2
    <3>3. ASSUME NEW q \in Seq(Components), q # <<>>, IsPrefix(q, p), q # p
          PROVE  q \in DOMAIN g /\ g[q] = Dir
      <4>1. Len(q) <= Len(new) /\ \A i \in 1..Len(q) : q[i] = new[i]
        BY <1>1, <2>2, <3>3, PrefixPoints
      <4>2. Len(q) \in Nat /\ Len(q) # Len(new)
        <5>1. Len(q) = Len(new) => q = new
          BY <1>1, <3>3, <4>1, SeqEqual
        <5>2. Len(q) \in Nat
          BY <3>3
        <5> QED
          BY <2>2, <3>3, <5>1, <5>2
      <4>3. IsPrefix(q, up)
        <5>1. Len(q) <= Len(up) /\ \A i \in 1..Len(q) : q[i] = up[i]
          BY <1>1, <1>2, <4>1, <4>2
        <5> QED
          BY <1>2, <3>3, <5>1, PrefixPoints
      <4>4. q \in DOMAIN f /\ f[q] = Dir
        BY <3>3, <4>3, TreePrefix
      <4> QED
        BY <1>4, <4>4
    <3>4. \A k \in 1..(Len(p) - 1) : LET q == SubSeq(p, 1, k) IN q \in DOMAIN g /\ g[q] = Dir
      <4>1. p \in Seq(Components)
        BY <1>1, <2>2
      <4> QED
        BY <3>3, <4>1, TreeHasPrefixes
    <3> QED
      BY <3>1, <3>2, <3>4
  <2> QED
    BY <1>5, <2>1, <2>2
<1>9. ASSUME NEW q \in DOMAIN f \cup DOMAIN g, Len(q) = 1 \/ q[1] # c
      PROVE  q \in DOMAIN f
  BY <1>1, <1>3, <1>5, <1>9
<1>10. OnlyIn(c, f, g)
  BY <1>4, <1>9 DEF OnlyIn
<1> QED
  BY <1>4, <1>5, <1>6, <1>7, <1>8, <1>10 DEF IsTree

\* Something and all that is below it removed.
LEMMA CutTree ==
  ASSUME NEW f, NEW g, NEW p, NEW c \in Users, IsTree(f), p \in Inner(c),
         IsFun(g), DOMAIN g = DOMAIN f \ {r \in DOMAIN f : IsPrefix(p, r)},
         \A q \in DOMAIN g : g[q] = f[q]
  PROVE  /\ IsTree(g) /\ OnlyIn(c, f, g)
         /\ \A q \in DOMAIN f : q \in DOMAIN g \/ IsPrefix(p, q)
         /\ \A q \in DOMAIN g : q \in DOMAIN f /\ g[q] = f[q] /\ ~IsPrefix(p, q)
         /\ p \notin DOMAIN f => g = f
<1>1. /\ p \in Seq(Components) /\ Len(p) \in Nat \ {0} /\ p[Len(p)] \in Names /\ p # <<>>
      /\ p[1] \in Names \/ p[1] = c
  BY EmptySeq DEF Inner, MayName
<1>2. \A q \in DOMAIN g : q \in DOMAIN f /\ g[q] = f[q] /\ ~IsPrefix(p, q)
  OBVIOUS
<1>3. \A q \in DOMAIN f : q \in DOMAIN g \/ IsPrefix(p, q)
  OBVIOUS
<1>4. ASSUME NEW q \in DOMAIN f, IsPrefix(p, q)
      PROVE  q[1] = c /\ Len(q) # 1
  <2>1. q \in Seq(Components) /\ q[1] \in Users /\ Len(q) \in Nat
    BY TreePath
  <2>2. Len(p) <= Len(q) /\ \A i \in 1..Len(p) : p[i] = q[i]
    BY <1>1, <1>4, <2>1, PrefixPoints
  <2>3. p[1] = q[1]
    BY <1>1, <2>2
  <2>4. q[1] \notin Names
    BY <2>1, NamesAssumption
  <2> QED
    BY <1>1, <2>1, <2>2, <2>3, <2>4
<1>5. OnlyIn(c, f, g)
  <2>1. ASSUME NEW q \in DOMAIN f \cup DOMAIN g, Len(q) = 1 \/ q[1] # c
        PROVE  q \in DOMAIN f /\ q \in DOMAIN g
    <3>1. q \in DOMAIN f
      BY <1>2
    <3>2. ~IsPrefix(p, q)
      BY <1>4, <2>1, <3>1
    <3> QED
      BY <1>3, <3>1, <3>2
  <2> QED
    BY <1>2, <2>1 DEF OnlyIn
<1>6. ASSUME p \notin DOMAIN f PROVE g = f
  <2>1. \A q \in DOMAIN f : ~IsPrefix(p, q)
    BY <1>1, <1>6, TreePrefix
  <2>2. DOMAIN g = DOMAIN f
    BY <2>1
  <2> QED
    BY <1>2, <2>2 DEF IsTree, IsFun
<1>7. IsTree(g)
  <2>1. g = [q \in DOMAIN g |-> g[q]] /\ DOMAIN g \subseteq DOMAIN f
    BY DEF IsFun
  <2>2. IsFiniteSet(DOMAIN g)
    BY <2>1, FS_Subset DEF IsTree
  <2>3. ASSUME NEW u \in Users PROVE <<u>> \in DOMAIN g /\ g[<<u>>] = Dir
    <3>1. <<u>> \in DOMAIN f /\ f[<<u>>] = Dir /\ Len(<<u>>) = 1
      BY DEF IsTree
    <3>2. ~IsPrefix(p, <<u>>)
      BY <1>4, <3>1
    <3> QED
      BY <1>2, <1>3, <3>1, <3>2
  <2>4. ASSUME NEW q \in DOMAIN g
        PROVE  /\ q \in Seq(Users \cup Names) /\ q # <<>>
               /\ \A i \in 1..Len(q) : q[i] \in IF i = 1 THEN Users ELSE Names
               /\ \A k \in 1..(Len(q) - 1) : LET r == SubSeq(q, 1, k) IN r \in DOMAIN g /\ g[r] = Dir
    <3>1. q \in DOMAIN f /\ q \in Seq(Components) /\ Len(q) \in Nat
      BY <1>2, TreePath
    <3>2. ASSUME NEW r \in Seq(Components), r # <<>>, IsPrefix(r, q), r # q
          PROVE  r \in DOMAIN g /\ g[r] = Dir
      <4>1. r \in DOMAIN f /\ f[r] = Dir /\ Len(r) \in Nat
        BY <3>1, <3>2, TreePrefix
      <4>2. ~IsPrefix(p, r)
        <5>1. ~IsPrefix(p, q)
          BY <1>2
        <5> QED
          BY <1>1, <3>1, <3>2, <4>1, <5>1, PrefixPoints
      <4> QED
        BY <1>2, <1>3, <4>1, <4>2
    <3>3. \A k \in 1..(Len(q) - 1) : LET r == SubSeq(q, 1, k) IN r \in DOMAIN g /\ g[r] = Dir
      BY <3>1, <3>2, TreeHasPrefixes
    <3> QED
      BY <3>1, <3>3 DEF IsTree
  <2> QED
    BY <2>1, <2>2, <2>3, <2>4 DEF IsTree
<1> QED
  BY <1>2, <1>3, <1>5, <1>6, <1>7

-----------------------------------------------------------------------------
(* Moving.                                                                 *)

\* r with its beginning p replaced by q.
Instead(p, q, r) == q \o SubSeq(r, Len(p) + 1, Len(r))

Replaced(S, p, q, r, s) ==
  /\ s \in Seq(S)
  /\ Len(s) = Len(q) + Len(r) - Len(p)
  /\ \A i \in 1..Len(q) : s[i] = q[i]
  /\ \A i \in (Len(q) + 1)..(Len(q) + Len(r) - Len(p)) : s[i] = r[i - Len(q) + Len(p)]

LEMMA InsteadPoints ==
  \A S : \A p, q, r \in Seq(S) :
    Len(p) <= Len(r) => Replaced(S, p, q, r, Instead(p, q, r))
<1> SUFFICES ASSUME NEW S, NEW p \in Seq(S), NEW q \in Seq(S), NEW r \in Seq(S), Len(p) <= Len(r),
                    NEW s, s = Instead(p, q, r)
             PROVE  Replaced(S, p, q, r, s)
  OBVIOUS
<1> DEFINE m == Len(p) + 1
           t == SubSeq(r, m, Len(r))
<1>0. Len(p) \in Nat /\ Len(q) \in Nat /\ Len(r) \in Nat /\ m \in Int /\ m <= Len(r) + 1
  OBVIOUS
<1>1. \A i \in m..Len(r) : r[i] \in S
  BY <1>0, ElementOfSeq
<1>2. /\ t \in Seq(S) /\ Len(t) = IF m <= Len(r) THEN Len(r) - m + 1 ELSE 0
      /\ \A i \in 1..(Len(r) - m + 1) : t[i] = r[m + i - 1]
  BY <1>0, <1>1, SubSeqProperties
<1> HIDE DEF t
<1>3. Len(t) = Len(r) - Len(p) /\ \A i \in 1..(Len(r) - Len(p)) : t[i] = r[i + Len(p)]
  BY <1>0, <1>2
<1>4. /\ q \o t \in Seq(S) /\ Len(q \o t) = Len(q) + Len(t)
      /\ \A i \in 1..(Len(q) + Len(t)) : (q \o t)[i] = IF i <= Len(q) THEN q[i] ELSE t[i - Len(q)]
  BY <1>2, ConcatProperties
<1>5. s = q \o t
  BY DEF Instead, t
<1>6. ASSUME NEW i \in (Len(q) + 1)..(Len(q) + Len(r) - Len(p))
      PROVE  (q \o t)[i] = r[i - Len(q) + Len(p)]
  <2>1. (q \o t)[i] = t[i - Len(q)]
    BY <1>0, <1>3, <1>4, <1>6
  <2>2. i - Len(q) \in 1..(Len(r) - Len(p))
    BY <1>0, <1>6
  <2> QED
    BY <1>3, <2>1, <2>2
<1>7. \A i \in 1..Len(q) : (q \o t)[i] = q[i]
  BY <1>0, <1>3, <1>4
<1> QED
  BY <1>0, <1>3, <1>4, <1>5, <1>6, <1>7 DEF Replaced

LEMMA InsteadPrefix ==
  ASSUME NEW S, NEW p \in Seq(S), NEW q \in Seq(S), NEW r \in Seq(S), IsPrefix(p, r)
  PROVE  IsPrefix(q, Instead(p, q, r)) /\ Instead(q, p, Instead(p, q, r)) = r
<1>a. PICK s : s = Instead(p, q, r)
  OBVIOUS
<1>b. PICK t : t = Instead(q, p, s)
  OBVIOUS
<1>0. Len(p) \in Nat /\ Len(q) \in Nat /\ Len(r) \in Nat
  OBVIOUS
<1>1. Len(p) <= Len(r) /\ \A i \in 1..Len(p) : p[i] = r[i]
  BY PrefixPoints
<1>2. /\ s \in Seq(S) /\ Len(s) = Len(q) + Len(r) - Len(p)
      /\ \A i \in 1..Len(q) : s[i] = q[i]
      /\ \A i \in (Len(q) + 1)..(Len(q) + Len(r) - Len(p)) : s[i] = r[i - Len(q) + Len(p)]
  <2>1. Replaced(S, p, q, r, s)
    BY <1>a, <1>1, InsteadPoints
  <2> QED
    BY <2>1 DEF Replaced
<1>3. Len(q) <= Len(s)
  BY <1>0, <1>1, <1>2
<1>4. IsPrefix(q, s)
  BY <1>2, <1>3, PrefixPoints
<1>5. /\ t \in Seq(S) /\ Len(t) = Len(p) + Len(s) - Len(q)
      /\ \A i \in 1..Len(p) : t[i] = p[i]
      /\ \A i \in (Len(p) + 1)..(Len(p) + Len(s) - Len(q)) : t[i] = s[i - Len(p) + Len(q)]
  <2>1. Replaced(S, q, p, s, t)
    BY <1>2, <1>3, <1>b, InsteadPoints
  <2> QED
    BY <2>1 DEF Replaced
<1>6. Len(t) = Len(r)
  BY <1>0, <1>2, <1>5
<1>7. ASSUME NEW i \in 1..Len(t) PROVE t[i] = r[i]
  <2>1. CASE i <= Len(p)
    BY <1>0, <1>1, <1>5, <1>6, <2>1
  <2>2. CASE i > Len(p)
    <3>1. t[i] = s[i - Len(p) + Len(q)]
      BY <1>0, <1>2, <1>5, <1>6, <1>7, <2>2
    <3>2. i - Len(p) + Len(q) \in (Len(q) + 1)..(Len(q) + Len(r) - Len(p))
      BY <1>0, <1>6, <1>7, <2>2
    <3>3. s[i - Len(p) + Len(q)] = r[(i - Len(p) + Len(q)) - Len(q) + Len(p)]
      BY <1>2, <3>2
    <3>4. (i - Len(p) + Len(q)) - Len(q) + Len(p) = i
      BY <1>0, <1>7
    <3> QED
      BY <3>1, <3>3, <3>4
  <2> QED
    BY <1>0, <1>7, <2>1, <2>2
<1>8. t = r
  BY <1>5, <1>6, <1>7, SeqEqual
<1> QED
  BY <1>4, <1>8, <1>a, <1>b

\* Something and all that is below it moved.
LEMMA MoveTree ==
  ASSUME NEW p, NEW q, NEW c \in Users, IsTree(fs),
         p \in DOMAIN fs, p \in Inner(c), q \in Inner(c), Len(q) > 1, q \notin DOMAIN fs, ~IsPrefix(p, q),
         SubSeq(q, 1, Len(q) - 1) \in DOMAIN fs, fs[SubSeq(q, 1, Len(q) - 1)] = Dir
  PROVE  LET g == Moved(p, q) IN
         /\ IsTree(g) /\ OnlyIn(c, fs, g) /\ Carried(fs, g)
         /\ \A r \in DOMAIN fs : ~IsPrefix(p, r) => r \in DOMAIN g /\ g[r] = fs[r]
         /\ \A s \in DOMAIN g : \E r \in DOMAIN fs : g[s] = fs[r]
<1> DEFINE up == SubSeq(q, 1, Len(q) - 1)
           old == Below(p)
           new == {Instead(p, q, r) : r \in old}
           g == [r \in (DOMAIN fs \ old) \cup new |-> IF r \in new THEN fs[Instead(q, p, r)] ELSE fs[r]]
           S == Components
<1>g. Moved(p, q) = g
  BY DEF Moved, Instead
<1>1. /\ p \in Seq(S) /\ q \in Seq(S) /\ up \in Seq(S)
      /\ p # <<>> /\ q # <<>>
      /\ Len(p) \in Nat \ {0} /\ Len(q) \in Nat \ {0} /\ Len(up) = Len(q) - 1
      /\ \A i \in 1..Len(up) : up[i] = q[i]
      /\ \A i \in 1..Len(q) : q[i] \in Names \/ (i = 1 /\ q[1] = c)
      /\ p[Len(p)] \in Names
      /\ p[1] \in Names \/ p[1] = c
  <2>1. p \in Seq(S) /\ q \in Seq(S) /\ p # <<>> /\ q # <<>>
    BY DEF Inner
  <2>2. Len(p) \in Nat \ {0} /\ Len(q) \in Nat \ {0}
    BY <2>1, EmptySeq
  <2>3. /\ \A i \in 1..Len(q) : q[i] \in Names \/ (i = 1 /\ q[1] = c)
        /\ p[Len(p)] \in Names
        /\ p[1] \in Names \/ p[1] = c
    BY <2>2 DEF Inner, MayName
  <2>4. up \in Seq(S) /\ Len(up) = Len(q) - 1 /\ \A i \in 1..Len(up) : up[i] = q[i]
    BY <2>1, <2>2, Beginning
  <2> QED
    BY <2>1, <2>2, <2>3, <2>4
<1>2. q[1] = c /\ up # <<>>
  <2>1. up[1] \in Users /\ Len(up) \in Nat \ {0}
    BY TreePath
  <2> HIDE DEF up
  <2>2. up # <<>> /\ up[1] = q[1]
    BY <1>1, <2>1
  <2>3. q[1] \notin Names
    BY <2>1, <2>2, NamesAssumption
  <2> QED
    BY <1>1, <2>2, <2>3
<1>3. p[1] = c /\ Len(p) > 1
  <2>1. p[1] \in Users
    BY TreePath
  <2> QED
    BY <1>1, <2>1, NamesAssumption
<1>t. ASSUME NEW r \in DOMAIN fs PROVE r \in Seq(S) /\ Len(r) \in Nat /\ r # <<>>
  <2>1. r \in Seq(S) /\ Len(r) \in Nat \ {0}
    BY TreePath
  <2> QED
    BY <2>1, EmptySeq
<1>up. ~IsPrefix(p, up)
  <2>1. SUFFICES ASSUME IsPrefix(p, up) PROVE IsPrefix(p, q)
    OBVIOUS
  <2>2. Len(p) <= Len(up) /\ \A i \in 1..Len(p) : p[i] = up[i]
    BY <1>1, <2>1, PrefixPoints
  <2>3. Len(p) <= Len(q) /\ \A i \in 1..Len(p) : p[i] = q[i]
    BY <1>1, <2>2
  <2> QED
    BY <1>1, <2>3, PrefixPoints
\* What is moved, and from where.
<1>4. ASSUME NEW r \in old
      PROVE  /\ r \in DOMAIN fs /\ IsPrefix(p, r) /\ Replaced(S, p, q, r, Instead(p, q, r))
             /\ IsPrefix(q, Instead(p, q, r)) /\ Instead(q, p, Instead(p, q, r)) = r
             /\ Len(p) <= Len(r) /\ r[1] = c
  <2>1. r \in DOMAIN fs /\ IsPrefix(p, r)
    BY DEF Below
  <2>2. r \in Seq(S) /\ Len(r) \in Nat
    BY <1>t, <2>1
  <2>3. Len(p) <= Len(r) /\ \A i \in 1..Len(p) : p[i] = r[i]
    BY <1>1, <2>1, <2>2, PrefixPoints
  <2>4. Replaced(S, p, q, r, Instead(p, q, r))
    BY <1>1, <2>2, <2>3, InsteadPoints
  <2>5. IsPrefix(q, Instead(p, q, r)) /\ Instead(q, p, Instead(p, q, r)) = r
    BY <1>1, <2>1, <2>2, InsteadPrefix
  <2>6. r[1] = c
    <3>1. 1 \in 1..Len(p)
      BY <1>1
    <3> QED
      BY <1>3, <2>3, <3>1
  <2> QED
    BY <2>1, <2>3, <2>4, <2>5, <2>6
<1>5. ASSUME NEW r \in DOMAIN fs PROVE r \notin new
  <2>1. SUFFICES ASSUME r \in new PROVE FALSE
    OBVIOUS
  <2>2. IsPrefix(q, r)
    BY <1>4, <2>1
  <2>3. q \in DOMAIN fs \/ q = r
    BY <1>1, <2>2, TreePrefix
  <2> QED
    BY <2>3
<1>6. DOMAIN g = (DOMAIN fs \ old) \cup new /\ g = [r \in DOMAIN g |-> g[r]]
  OBVIOUS
<1>7. ASSUME NEW r \in DOMAIN fs, ~IsPrefix(p, r) PROVE r \in DOMAIN g /\ g[r] = fs[r]
  <2>1. r \notin old
    BY <1>7 DEF Below
  <2> QED
    BY <1>5, <2>1
<1>8. ASSUME NEW r \in old PROVE Instead(p, q, r) \in DOMAIN g /\ g[Instead(p, q, r)] = fs[r]
  <2>1. Instead(p, q, r) \in new
    OBVIOUS
  <2>2. g[Instead(p, q, r)] = fs[Instead(q, p, Instead(p, q, r))]
    BY <1>6, <2>1
  <2> QED
    BY <1>4, <1>6, <2>1, <2>2
<1>9. ASSUME NEW s \in DOMAIN g
      PROVE  \/ s \in DOMAIN fs /\ ~IsPrefix(p, s) /\ g[s] = fs[s]
             \/ \E r \in old : s = Instead(p, q, r) /\ g[s] = fs[r]
  <2>1. CASE s \in new
    BY <1>8, <2>1
  <2>2. CASE s \notin new
    <3>1. s \in DOMAIN fs /\ ~IsPrefix(p, s)
      BY <1>6, <2>2 DEF Below
    <3> QED
      BY <1>7, <3>1
  <2> QED
    BY <2>1, <2>2
<1> HIDE DEF g, new, old
<1>10. OnlyIn(c, fs, g)
  <2>1. ASSUME NEW r \in old
        PROVE  /\ Len(r) # 1 /\ r[1] = c
               /\ Len(Instead(p, q, r)) # 1 /\ Instead(p, q, r)[1] = c
    <3>1. Len(r) # 1 /\ r[1] = c
      BY <1>1, <1>3, <1>4, <1>t
    <3>2. r \in Seq(S) /\ Len(r) \in Nat /\ Len(p) <= Len(r)
      BY <1>4, <1>t
    <3>3. Len(Instead(p, q, r)) = Len(q) + Len(r) - Len(p) /\ Instead(p, q, r)[1] = q[1]
      BY <1>1, <1>4 DEF Replaced
    <3> QED
      BY <1>1, <1>2, <3>1, <3>2, <3>3
  <2>2. ASSUME NEW s \in DOMAIN fs \cup DOMAIN g, Len(s) = 1 \/ s[1] # c
        PROVE  s \in DOMAIN fs /\ s \in DOMAIN g /\ g[s] = fs[s]
    <3>1. CASE s \in DOMAIN fs
      <4>1. s \notin old
        BY <2>1, <2>2
      <4>2. ~IsPrefix(p, s)
        BY <3>1, <4>1 DEF old, Below
      <4> QED
        BY <1>7, <3>1, <4>2
    <3>2. CASE s \in DOMAIN g
      <4>1. \A r \in old : s # Instead(p, q, r)
        BY <2>1, <2>2
      <4> QED
        BY <1>9, <3>2, <4>1
    <3> QED
      BY <2>2, <3>1, <3>2
  <2> QED
    BY <2>2 DEF OnlyIn
<1>11. Carried(fs, g)
  <2>1. ASSUME NEW r \in DOMAIN fs PROVE \E s \in DOMAIN g : s[1] = r[1] /\ g[s] = fs[r]
    <3>1. CASE IsPrefix(p, r)
      <4>1. r \in old
        BY <3>1 DEF old, Below
      <4>2. Instead(p, q, r)[1] = c /\ r[1] = c
        <5>1. Instead(p, q, r)[1] = q[1]
          BY <1>1, <1>4, <4>1 DEF Replaced
        <5> QED
          BY <1>2, <1>4, <4>1, <5>1
      <4> QED
        BY <1>8, <4>1, <4>2
    <3>2. CASE ~IsPrefix(p, r)
      BY <1>7, <3>2
    <3> QED
      BY <3>1, <3>2
  <2> QED
    BY <2>1 DEF Carried
<1>12. IsTree(g)
  <2>1. g = [r \in DOMAIN g |-> g[r]]
    BY <1>6
  <2>2. IsFiniteSet(DOMAIN g)
    <3>1. IsFiniteSet(DOMAIN fs)
      BY DEF IsTree
    <3>0. old \subseteq DOMAIN fs
      BY DEF old, Below
    <3>2. IsFiniteSet(old) /\ IsFiniteSet(DOMAIN fs \ old)
      <4>1. IsFiniteSet(old)
        BY <3>0, <3>1, FS_Subset
      <4>2. DOMAIN fs \ old \subseteq DOMAIN fs
        OBVIOUS
      <4>3. IsFiniteSet(DOMAIN fs \ old)
        BY <3>1, <4>2, FS_Subset
      <4> QED
        BY <4>1, <4>3
    <3>3. IsFiniteSet(new)
      <4>1. PICK m : m = [r \in old |-> Instead(p, q, r)]
        OBVIOUS
      <4>2. new = {m[r] : r \in old}
        BY <4>1 DEF new
      <4>3. m \in [old -> new]
        BY <4>1 DEF new
      <4>4. m \in Surjection(old, new)
        BY <4>2, <4>3 DEF Surjection
      <4>5. IsFiniteSet(old)
        BY <3>2
      <4> QED
        BY <4>4, <4>5, FS_Surjection
    <3> QED
      BY <1>6, <3>2, <3>3, FS_Union
  <2>3. ASSUME NEW u \in Users PROVE <<u>> \in DOMAIN g /\ g[<<u>>] = Dir
    <3>1. <<u>> \in DOMAIN fs /\ fs[<<u>>] = Dir /\ Len(<<u>>) = 1
      BY DEF IsTree
    <3> QED
      BY <1>10, <3>1 DEF OnlyIn
  <2>4. ASSUME NEW s \in DOMAIN g
        PROVE  /\ s \in Seq(S) /\ s # <<>>
               /\ \A i \in 1..Len(s) : s[i] \in IF i = 1 THEN Users ELSE Names
    <3>1. CASE s \in DOMAIN fs
      BY <3>1, <1>t DEF IsTree
    <3>2. ASSUME NEW r \in old, s = Instead(p, q, r)
          PROVE  /\ s \in Seq(S) /\ s # <<>>
                 /\ \A i \in 1..Len(s) : s[i] \in IF i = 1 THEN Users ELSE Names
      <4>1. r \in DOMAIN fs /\ r \in Seq(S) /\ Len(r) \in Nat /\ Len(p) <= Len(r)
        BY <1>4, <1>t
      <4>2. /\ s \in Seq(S)
            /\ Len(s) = Len(q) + Len(r) - Len(p)
            /\ \A i \in 1..Len(q) : s[i] = q[i]
            /\ \A i \in (Len(q) + 1)..(Len(q) + Len(r) - Len(p)) : s[i] = r[i - Len(q) + Len(p)]
        BY <1>4, <3>2 DEF Replaced
      <4>3. ASSUME NEW i \in 1..Len(s) PROVE s[i] \in IF i = 1 THEN Users ELSE Names
        <5>1. CASE i = 1
          BY <1>1, <1>2, <4>2, <5>1
        <5>2. CASE i # 1 /\ i <= Len(q)
          BY <1>1, <4>2, <4>3, <5>2
        <5>3. CASE i > Len(q)
          <6>1. s[i] = r[i - Len(q) + Len(p)]
            BY <1>1, <4>1, <4>2, <4>3, <5>3
          <6>2. i - Len(q) + Len(p) \in 2..Len(r) /\ i # 1
            BY <1>1, <4>1, <4>2, <4>3, <5>3
          <6>3. \A j \in 2..Len(r) : r[j] \in Names
            BY <4>1, TreePath
          <6> QED
            BY <6>1, <6>2, <6>3
        <5> QED
          BY <1>1, <4>1, <4>2, <4>3, <5>1, <5>2, <5>3
      <4>4. s # <<>>
        BY <1>1, <4>1, <4>2
      <4> QED
        BY <4>2, <4>3, <4>4
    <3> QED
      BY <1>9, <3>1, <3>2
  <2>5. ASSUME NEW s \in DOMAIN g, NEW t \in Seq(S), t # <<>>, IsPrefix(t, s), t # s
        PROVE  t \in DOMAIN g /\ g[t] = Dir
    <3>1. CASE s \in DOMAIN fs /\ ~IsPrefix(p, s)
      <4>1. t \in DOMAIN fs /\ fs[t] = Dir
        BY <2>5, <3>1, TreePrefix
      <4>2. ~IsPrefix(p, t)
        <5>1. s \in Seq(S) /\ Len(s) \in Nat /\ Len(t) \in Nat
          BY <1>t, <2>5, <3>1
        <5>2. SUFFICES ASSUME IsPrefix(p, t) PROVE IsPrefix(p, s)
          BY <3>1
        <5>3. Len(t) <= Len(s) /\ \A i \in 1..Len(t) : t[i] = s[i]
          BY <2>5, <5>1, PrefixPoints
        <5>4. Len(p) <= Len(t) /\ \A i \in 1..Len(p) : p[i] = t[i]
          BY <1>1, <2>5, <5>2, PrefixPoints
        <5>5. Len(p) <= Len(s) /\ \A i \in 1..Len(p) : p[i] = s[i]
          BY <1>1, <5>1, <5>3, <5>4
        <5> QED
          BY <1>1, <5>1, <5>5, PrefixPoints
      <4> QED
        BY <1>7, <4>1, <4>2
    <3>2. ASSUME NEW r \in old, s = Instead(p, q, r) PROVE t \in DOMAIN g /\ g[t] = Dir
      <4>1. r \in DOMAIN fs /\ r \in Seq(S) /\ Len(r) \in Nat /\ Len(p) <= Len(r) /\ IsPrefix(p, r)
        BY <1>4, <1>t
      <4>2. /\ s \in Seq(S)
            /\ Len(s) = Len(q) + Len(r) - Len(p)
            /\ \A i \in 1..Len(q) : s[i] = q[i]
            /\ \A i \in (Len(q) + 1)..(Len(q) + Len(r) - Len(p)) : s[i] = r[i - Len(q) + Len(p)]
        BY <1>4, <3>2 DEF Replaced
      <4>3. Len(t) \in Nat /\ Len(t) <= Len(s) /\ \A i \in 1..Len(t) : t[i] = s[i]
        BY <2>5, <4>2, PrefixPoints
      <4>4. Len(t) < Len(s)
        <5>1. Len(t) = Len(s) => t = s
          BY <2>5, <4>2, <4>3, SeqEqual
        <5>2. Len(s) \in Nat
          BY <4>2
        <5> QED
          BY <2>5, <4>3, <5>1, <5>2
      <4>5. CASE Len(t) < Len(q)
        <5>1. Len(t) <= Len(up) /\ \A i \in 1..Len(t) : t[i] = up[i]
          BY <1>1, <4>2, <4>3, <4>5
        <5>2. IsPrefix(t, up)
          BY <1>1, <2>5, <5>1, PrefixPoints
        <5>3. t \in DOMAIN fs /\ fs[t] = Dir
          BY <2>5, <5>2, TreePrefix
        <5>4. ~IsPrefix(p, t)
          BY <1>1, <1>up, <2>5, <5>1, <4>3, PrefixPoints
        <5> QED
          BY <1>7, <5>3, <5>4
      <4>6. CASE Len(t) >= Len(q)
        <5>1. IsPrefix(q, t)
          <6>1. \A i \in 1..Len(q) : q[i] = t[i]
            BY <1>1, <4>2, <4>3, <4>6
          <6> QED
            BY <1>1, <2>5, <4>6, <6>1, PrefixPoints
        <5>2. PICK x : x = Instead(q, p, t)
          OBVIOUS
        <5>3. IsPrefix(p, x) /\ Instead(p, q, x) = t
          BY <1>1, <2>5, <5>1, <5>2, InsteadPrefix
        <5>4. /\ x \in Seq(S)
              /\ Len(x) = Len(p) + Len(t) - Len(q)
              /\ \A i \in 1..Len(p) : x[i] = p[i]
              /\ \A i \in (Len(p) + 1)..(Len(p) + Len(t) - Len(q)) : x[i] = t[i - Len(p) + Len(q)]
          <6>1. Len(q) <= Len(t)
            BY <1>1, <4>3, <4>6
          <6>2. Replaced(S, q, p, t, x)
            BY <1>1, <2>5, <5>2, <6>1, InsteadPoints
          <6> QED
            BY <6>2 DEF Replaced
        <5>5. Len(x) \in Nat /\ Len(x) < Len(r) /\ Len(p) <= Len(x)
          BY <1>1, <4>1, <4>2, <4>3, <4>4, <4>6, <5>4
        <5>6. ASSUME NEW i \in 1..Len(x) PROVE x[i] = r[i]
          <6>1. CASE i <= Len(p)
            <7>1. \A j \in 1..Len(p) : p[j] = r[j]
              BY <1>1, <4>1, PrefixPoints
            <7>2. i \in 1..Len(p)
              BY <1>1, <5>5, <5>6, <6>1
            <7>3. x[i] = p[i] /\ p[i] = r[i]
              BY <5>4, <7>1, <7>2
            <7> QED
              BY <7>3
          <6>2. CASE i > Len(p)
            <7>1. x[i] = t[i - Len(p) + Len(q)]
              BY <1>1, <4>3, <5>4, <5>6, <6>2
            <7>2. i - Len(p) + Len(q) \in 1..Len(t) /\ i - Len(p) + Len(q) \in (Len(q) + 1)..(Len(q) + Len(r) - Len(p))
              BY <1>1, <4>1, <4>2, <4>3, <4>4, <5>4, <5>6, <6>2
            <7>3. t[i - Len(p) + Len(q)] = s[i - Len(p) + Len(q)]
              BY <4>3, <7>2
            <7>4. s[i - Len(p) + Len(q)] = r[(i - Len(p) + Len(q)) - Len(q) + Len(p)]
              BY <4>2, <7>2
            <7>5. (i - Len(p) + Len(q)) - Len(q) + Len(p) = i
              BY <1>1, <5>5, <5>6
            <7> QED
              BY <7>1, <7>3, <7>4, <7>5
          <6>3. i <= Len(p) \/ i > Len(p)
            BY <1>1, <5>5, <5>6
          <6> QED
            BY <6>1, <6>2, <6>3
        <5>7. IsPrefix(x, r)
          <6>1. Len(x) <= Len(r) /\ \A i \in 1..Len(x) : x[i] = r[i]
            BY <4>1, <5>5, <5>6
          <6> QED
            BY <4>1, <5>4, <6>1, PrefixPoints
        <5>8. x # <<>> /\ x # r
          BY <1>1, <5>4, <5>5
        <5>9. x \in DOMAIN fs /\ fs[x] = Dir
          BY <4>1, <5>4, <5>7, <5>8, TreePrefix
        <5>10. x \in old
          BY <5>3, <5>9 DEF old, Below
        <5> QED
          BY <1>8, <5>3, <5>9, <5>10
      <4> QED
        BY <1>1, <4>3, <4>5, <4>6
    <3> QED
      BY <1>9, <3>1, <3>2
  <2>6. ASSUME NEW s \in DOMAIN g
        PROVE  \A k \in 1..(Len(s) - 1) : LET r == SubSeq(s, 1, k) IN r \in DOMAIN g /\ g[r] = Dir
    <3>1. s \in Seq(Components)
      BY <2>4
    <3> QED
      BY <2>5, <3>1, TreeHasPrefixes
  <2>7. \A s \in DOMAIN g : s \in Seq(Users \cup Names)
    BY <2>4 DEF Components
  <2> QED
    BY <2>1, <2>2, <2>3, <2>4, <2>6, <2>7 DEF IsTree
<1>13. ASSUME NEW s \in DOMAIN g PROVE \E r \in DOMAIN fs : g[s] = fs[r]
  BY <1>4, <1>9
<1> QED
  BY <1>g, <1>7, <1>10, <1>11, <1>12, <1>13

LEMMA LeastNumber ==
  ASSUME NEW K \in SUBSET Nat, K # {}
  PROVE  \E k \in K : \A j \in K : k <= j
<1>1. IsWellFoundedOn(OpToRel(<, Nat), Nat)
  BY NatLessThanWellFounded
<1>2. PICK k \in K : \A j \in K : ~(<<j, k>> \in OpToRel(<, Nat))
  BY <1>1, WFMin
<1>3. \A j \in K : ~(j < k)
  BY <1>2 DEF OpToRel
<1>4. \A j \in K : k <= j
  BY <1>3
<1> QED
  BY <1>4

\* There is always a number that makes a name unique.
LEMMA UniqueName ==
  ASSUME IsTree(fs), NEW dir \in Seq(Components), NEW name \in Names
  PROVE  Unique(dir, name) \in Names /\ Append(dir, Unique(dir, name)) \notin DOMAIN fs
<1> DEFINE N == Cardinality(DOMAIN fs)
           K == {k \in 1..N : Append(dir, Append(name, k)) \notin DOMAIN fs}
<1>1. CASE Append(dir, name) \notin DOMAIN fs
  BY <1>1 DEF Unique
<1>2. CASE Append(dir, name) \in DOMAIN fs
  <2>1. IsFiniteSet(DOMAIN fs) /\ N \in Nat
    BY FS_CardinalityType DEF IsTree
  <2>2. \A k \in Nat : Append(name, k) \in Names /\ Append(name, k)[Len(Append(name, k))] = k
                       /\ Len(Append(name, k)) = Len(name) + 1
    BY DEF Names
  <2>3. \A k, j \in Nat : Append(name, k) = Append(name, j) => k = j
    BY <2>2
  <2>4. \A k \in Nat : Append(name, k) # name
    <3>1. Len(name) \in Nat
      BY DEF Names
    <3> QED
      BY <2>2, <3>1
  <2>5. \A a, b : Append(dir, a) = Append(dir, b) => a = b
    <3>1. \A a : /\ Len(Append(dir, a)) = Len(dir) + 1 /\ Append(dir, a)[Len(dir) + 1] = a
      OBVIOUS
    <3> QED
      BY <3>1
  <2>6. K # {}
    <3>1. SUFFICES ASSUME K = {} PROVE FALSE
      OBVIOUS
    <3>2. PICK m : m = [k \in 0..N |-> Append(dir, IF k = 0 THEN name ELSE Append(name, k))]
      OBVIOUS
    <3>3. \A k \in 0..N : m[k] \in DOMAIN fs
      BY <1>2, <2>1, <3>1, <3>2
    <3>4. \A k, j \in 0..N : m[k] = m[j] => k = j
      <4> HIDE DEF N
      <4>1. ASSUME NEW k \in 0..N, NEW j \in 0..N, m[k] = m[j] PROVE k = j
        <5>1. (IF k = 0 THEN name ELSE Append(name, k)) = (IF j = 0 THEN name ELSE Append(name, j))
          BY <2>5, <3>2, <4>1
        <5>2. k \in Nat /\ j \in Nat
          BY <2>1
        <5> QED
          BY <2>3, <2>4, <5>1, <5>2
      <4> QED
        BY <4>1
    <3>5. m \in Injection(0..N, DOMAIN fs)
      BY <3>2, <3>3, <3>4 DEF Injection, IsInjective
    <3>6. Cardinality(0..N) <= Cardinality(DOMAIN fs)
      BY <2>1, <3>5, FS_Injection
    <3>7. Cardinality(0..N) = N + 1
      BY <2>1, FS_Interval
    <3> QED
      BY <2>1, <3>6, <3>7
  <2>7. PICK k \in K : \A j \in K : k <= j
    <3>1. K \in SUBSET Nat
      OBVIOUS
    <3> QED
      BY <2>6, <3>1, LeastNumber
  <2> DEFINE Free(n) == /\ Append(dir, n) \notin DOMAIN fs
                        /\ \A i \in 1..(Last(n) - 1) : Append(dir, Append(name, i)) \in DOMAIN fs
             Numbered == {Append(name, i) : i \in 1..N}
  <2>8. Append(name, k) \in Numbered /\ Free(Append(name, k))
    <3>1. k \in Nat /\ k \in 1..N
      OBVIOUS
    <3>2. Last(Append(name, k)) = k
      BY <2>2, <3>1 DEF Last
    <3>3. ASSUME NEW i \in 1..(k - 1) PROVE Append(dir, Append(name, i)) \in DOMAIN fs
      <4>1. i \in 1..N /\ ~(k <= i)
        BY <2>1, <3>1
      <4> QED
        BY <2>7, <4>1
    <3> QED
      BY <3>1, <3>2, <3>3
  <2>9. Unique(dir, name) = CHOOSE n \in Numbered : Free(n)
    BY <1>2 DEF Unique
  <2>10. Unique(dir, name) \in Numbered /\ Free(Unique(dir, name))
    BY <2>8, <2>9
  <2>11. ASSUME NEW n \in Numbered PROVE n \in Names
    <3>1. PICK i \in 1..N : n = Append(name, i)
      OBVIOUS
    <3>2. i \in Nat
      BY <2>1
    <3> QED
      BY <2>2, <3>1, <3>2
  <2>12. Append(dir, Unique(dir, name)) \notin DOMAIN fs
    BY <2>10
  <2> QED
    BY <2>10, <2>11, <2>12
<1> QED
  BY <1>1, <1>2

-----------------------------------------------------------------------------
(* Messages, paths and lists.                                              *)

LEMMA RequestFields ==
  ASSUME NEW c \in Users, NEW r \in Requests(c)
  PROVE  /\ r.kind \in {"list", "enter", "create", "delete", "rename", "move", "share", "agree", "refuse"}
         /\ r.kind \in {"list", "enter", "create"} => r.path \in Paths(c)
         /\ r.kind \in {"delete", "rename", "move", "share"} => r.path \in Inner(c) /\ r.meant \in Values
         /\ r.kind \in {"create", "move"} => r.name \in Names
         /\ r.kind = "rename" => r.to \in Inner(c)
         /\ r.kind = "move" => r.to \in Paths(c)
         /\ r.kind = "share" => r.from = c /\ r.to \in Users
         /\ r.kind \in {"agree", "refuse"} =>
              r.from \in Users /\ r.path \in Inner(r.from) /\ r.meant \in Values
<1>1. CASE r \in [kind : {"list", "enter"}, path : Paths(c)]
  BY <1>1
<1>2. CASE r \in [kind : {"create"}, path : Paths(c), name : Names]
  BY <1>2
<1>3. CASE r \in [kind : {"delete"}, path : Inner(c), meant : Values]
  BY <1>3
<1>4. CASE r \in [kind : {"rename"}, path : Inner(c), to : Inner(c), meant : Values]
  BY <1>4
<1>5. CASE r \in [kind : {"move"}, path : Inner(c), to : Paths(c), name : Names, meant : Values]
  BY <1>5
<1>6. CASE r \in [kind : {"share"}, from : {c}, to : Users, path : Inner(c), meant : Values]
  BY <1>6
<1>7. CASE r \in Offers({"agree", "refuse"})
  BY <1>7 DEF Offers
<1> QED
  BY <1>1, <1>2, <1>3, <1>4, <1>5, <1>6, <1>7 DEF Requests

LEMMA NoteFields ==
  ASSUME NEW n \in Notes
  PROVE  /\ n.kind = "note" /\ n.from \in Users /\ n.path \in Inner(n.from) /\ n.meant \in Values
         /\ \A k \in {"agree", "refuse"} :
              LET m == [n EXCEPT !.kind = k]
              IN /\ m \in Offers({"agree", "refuse"}) /\ m.kind = k
                 /\ m.from = n.from /\ m.path = n.path /\ m.meant = n.meant
  BY DEF Notes, Offers

LEMMA AnswerFields ==
  ASSUME NEW a \in Responses
  PROVE  /\ a.kind \in {"list", "entered", "changed", "told", "note"}
         /\ a.kind = "list" \/ (a.kind = "entered" /\ a.ok) => a.list \in Lists
         /\ a.kind \in {"entered", "changed"} => a.ok \in BOOLEAN
         /\ a.kind = "note" => a \in Notes
         /\ a.kind \in {"told", "note"} => a \in Boxes
<1>1. CASE a \in [kind : {"list"}, list : Lists]
  BY <1>1
<1>2. CASE a \in [kind : {"entered"}, ok : {TRUE}, list : Lists]
  BY <1>2
<1>3. CASE a \in [kind : {"entered"}, ok : {FALSE}]
  BY <1>3
<1>4. CASE a \in [kind : {"changed"}, ok : BOOLEAN]
  BY <1>4
<1>5. CASE a \in [kind : {"told"}]
  BY <1>5 DEF Boxes
<1>6. CASE a \in Notes
  BY <1>6, NoteFields DEF Boxes
<1> QED
  BY <1>1, <1>2, <1>3, <1>4, <1>5, <1>6 DEF Responses

LEMMA BoxFields ==
  ASSUME NEW b \in Boxes
  PROVE  b.kind \in {"told", "note"} /\ (b.kind = "note" => b \in Notes)
  BY NoteFields DEF Boxes

\* What is in a sequence that something was appended to, taken or pushed.
LEMMA Grown ==
  ASSUME NEW S, NEW s \in Seq(S), NEW x \in S, NEW t, t = Append(s, x)
  PROVE  /\ t \in Seq(S) /\ Len(s) \in Nat /\ Len(t) = Len(s) + 1
         /\ \A i \in DOMAIN t : (i \in DOMAIN s /\ t[i] = s[i]) \/ (i = Len(s) + 1 /\ t[i] = x)
         /\ \A i \in DOMAIN s : i \in DOMAIN t /\ t[i] = s[i] /\ i < Len(s) + 1
         /\ Len(s) + 1 \in DOMAIN t /\ t[Len(s) + 1] = x
  OBVIOUS

LEMMA Shrunk ==
  ASSUME NEW S, NEW s \in Seq(S), s # <<>>, NEW t, t = Tail(s)
  PROVE  /\ t \in Seq(S) /\ 1 \in DOMAIN s /\ Head(s) = s[1] /\ Head(s) \in S
         /\ \A i \in DOMAIN t : i \in Nat /\ i + 1 \in DOMAIN s /\ t[i] = s[i + 1]
         /\ \A i \in DOMAIN s : i \in Nat \ {0} /\ (i = 1 \/ (i - 1 \in DOMAIN t /\ t[i - 1] = s[i]))
  OBVIOUS

LEMMA Pushed ==
  ASSUME NEW S, NEW s \in Seq(S), NEW x \in S, NEW t, t = <<x>> \o s
  PROVE  /\ t \in Seq(S) /\ 1 \in DOMAIN t /\ t[1] = x
         /\ \A i \in DOMAIN t : i = 1 \/ (i - 1 \in DOMAIN s /\ t[i] = s[i - 1])
         /\ \A i \in DOMAIN s : i + 1 \in DOMAIN t /\ t[i + 1] = s[i]
  OBVIOUS

LEMMA NoElements ==
  ASSUME NEW S, NEW s \in Seq(S)
  PROVE  s = <<>> <=> DOMAIN s = {}
  OBVIOUS

LEMMA LongerPath ==
  ASSUME NEW c \in Users, NEW p \in Paths(c), NEW n \in Names
  PROVE  /\ Append(p, n) \in Inner(c) /\ Append(p, n) \in Paths(c)
         /\ Append(p, n) \in Seq(Components) /\ Len(p) \in Nat /\ Len(Append(p, n)) = Len(p) + 1
         /\ \A i \in 1..Len(p) : Append(p, n)[i] = p[i]
         /\ Append(p, n)[Len(p) + 1] = n
         /\ p # <<>> => SubSeq(Append(p, n), 1, Len(Append(p, n)) - 1) = p
         /\ \A m : Append(p, n) = Append(p, m) => m = n
<1>1. p \in Seq(Components) /\ MayName(c, p) /\ Len(p) \in Nat /\ n \in Components
  BY DEF Paths, Components
<1>2. PICK q : q = Append(p, n)
  OBVIOUS
<1>3. /\ q \in Seq(Components) /\ Len(q) = Len(p) + 1
      /\ \A i \in 1..Len(p) : q[i] = p[i]
      /\ q[Len(p) + 1] = n
  BY <1>1, <1>2
<1>4. ASSUME NEW i \in 1..Len(q) PROVE q[i] \in Names \/ (i = 1 /\ q[1] = c)
  <2>1. CASE i = Len(p) + 1
    BY <1>3, <2>1
  <2>2. CASE i # Len(p) + 1
    <3>1. i \in 1..Len(p) /\ (i = 1 => 1 \in 1..Len(p))
      BY <1>1, <1>3, <2>2
    <3> QED
      BY <1>1, <1>3, <3>1 DEF MayName
  <2> QED
    BY <2>1, <2>2
<1>5. q # <<>> /\ q[Len(q)] \in Names
  BY <1>1, <1>3
<1>6. SubSeq(q, 1, Len(p)) = p
  <2>1. /\ SubSeq(q, 1, Len(p)) \in Seq(Components) /\ Len(SubSeq(q, 1, Len(p))) = Len(p)
        /\ \A i \in 1..Len(p) : SubSeq(q, 1, Len(p))[i] = q[i]
    <3>1. Len(p) \in 0..Len(q)
      BY <1>1, <1>3
    <3> QED
      BY <1>3, <3>1, Beginning
  <2> QED
    BY <1>1, <1>3, <2>1, SeqEqual
<1>7. Len(q) - 1 = Len(p)
  BY <1>1, <1>3
<1>8. \A m : q = Append(p, m) => m = n
  BY <1>1, <1>3
<1> QED
  BY <1>1, <1>2, <1>3, <1>4, <1>5, <1>6, <1>7, <1>8 DEF Paths, Inner, MayName

LEMMA InnerPath ==
  ASSUME NEW c \in Users, NEW p \in Inner(c)
  PROVE  p \in Paths(c) /\ p \in Seq(Components) /\ Len(p) \in Nat \ {0} /\ p # <<>> /\ p[Len(p)] \in Names
  BY EmptySeq DEF Inner, Paths

LEMMA ListingIs == \A p : Listing(p) = ListOf(fs, p)
  BY DEF Listing, ListOf, Children, Kids

\* What is listed is there.
LEMMA Listed ==
  ASSUME NEW f, Disk(f), NEW p \in DOMAIN f
  PROVE  /\ ListOf(f, p) \in Lists
         /\ \A n \in DOMAIN ListOf(f, p) :
              n \in Names /\ Append(p, n) \in DOMAIN f /\ f[Append(p, n)] = ListOf(f, p)[n]
<1>1. p \in Seq(Components) /\ Len(p) \in Nat \ {0}
  BY TreePath DEF Disk
<1>2. ASSUME NEW q \in Kids(f, p)
      PROVE  Last(q) \in Names /\ Append(p, Last(q)) = q
  <2>1. q \in DOMAIN f /\ Len(q) = Len(p) + 1 /\ IsPrefix(p, q)
    BY DEF Kids
  <2>2. q \in Seq(Components) /\ Len(q) \in Nat \ {0} /\ \A i \in 2..Len(q) : q[i] \in Names
    BY <2>1, TreePath DEF Disk
  <2>3. \A i \in 1..Len(p) : p[i] = q[i]
    BY <1>1, <2>1, <2>2, PrefixPoints
  <2>4. PICK n : n = q[Len(q)]
    OBVIOUS
  <2>5. n \in Names /\ n \in Components
    BY <1>1, <2>1, <2>2, <2>4 DEF Components
  <2>6. /\ Append(p, n) \in Seq(Components) /\ Len(Append(p, n)) = Len(p) + 1
        /\ \A i \in 1..(Len(p) + 1) : Append(p, n)[i] = IF i <= Len(p) THEN p[i] ELSE n
    BY <1>1, <2>5
  <2>7. \A i \in 1..Len(q) : Append(p, n)[i] = q[i]
    BY <1>1, <2>1, <2>3, <2>4, <2>6
  <2>8. Append(p, n) = q
    BY <2>1, <2>2, <2>6, <2>7, SeqEqual
  <2>9. Last(q) = n
    BY <2>4 DEF Last
  <2> QED
    BY <2>5, <2>8, <2>9
<1>3. DOMAIN ListOf(f, p) = {Last(q) : q \in Kids(f, p)}
  BY DEF ListOf
<1>4. ASSUME NEW n \in DOMAIN ListOf(f, p)
      PROVE  n \in Names /\ Append(p, n) \in DOMAIN f /\ f[Append(p, n)] = ListOf(f, p)[n]
  <2>1. PICK q \in Kids(f, p) : n = Last(q)
    BY <1>3
  <2>2. n \in Names /\ Append(p, n) = q
    BY <1>2, <2>1
  <2>3. q \in DOMAIN f
    BY DEF Kids
  <2> QED
    BY <1>3, <2>2, <2>3 DEF ListOf
<1>5. ListOf(f, p) \in [DOMAIN ListOf(f, p) -> Values]
  <2>1. ListOf(f, p) = [n \in DOMAIN ListOf(f, p) |-> ListOf(f, p)[n]]
    BY DEF ListOf
  <2>2. \A n \in DOMAIN ListOf(f, p) : ListOf(f, p)[n] \in Values
    BY <1>4 DEF Disk
  <2> QED
    BY <2>1, <2>2
<1>6. DOMAIN ListOf(f, p) \in SUBSET Names
  BY <1>4
<1> QED
  BY <1>4, <1>5, <1>6 DEF Lists

\* What others do in their trees does not concern c.
LEMMA ElsewhereSame ==
  ASSUME NEW c \in Users, NEW d \in Users, c # d, NEW f, NEW g, IsTree(f), IsTree(g), OnlyIn(d, f, g),
         NEW p \in Paths(c)
  PROVE  /\ ListOf(g, p) = ListOf(f, p)
         /\ p \in DOMAIN g <=> p \in DOMAIN f
         /\ p \in DOMAIN f => g[p] = f[p]
<1>1. p \in Seq(Components) /\ MayName(c, p) /\ Len(p) \in Nat
  BY DEF Paths
<1>2. ASSUME NEW q \in DOMAIN f \cup DOMAIN g
      PROVE  q \in Seq(Components) /\ Len(q) \in Nat \ {0} /\ q[1] \in Users /\ q[1] \notin Names
  <2>1. q \in Seq(Components) /\ Len(q) \in Nat \ {0} /\ q[1] \in Users
    BY TreePath
  <2> QED
    BY <2>1, NamesAssumption
<1>3. ASSUME NEW q \in DOMAIN f \cup DOMAIN g, IsPrefix(p, q), p # <<>> \/ Len(q) = 1
      PROVE  q \in DOMAIN f /\ q \in DOMAIN g /\ g[q] = f[q]
  <2>1. CASE Len(q) = 1
    BY <2>1 DEF OnlyIn
  <2>2. CASE p # <<>>
    <3>1. q \in Seq(Components) /\ Len(q) \in Nat \ {0} /\ q[1] \in Users /\ q[1] \notin Names
      BY <1>2
    <3>2. \A i \in 1..Len(p) : p[i] = q[i]
      BY <1>1, <1>3, <3>1, PrefixPoints
    <3>3. 1 \in 1..Len(p)
      BY <1>1, <2>2
    <3>4. p[1] = q[1] /\ (p[1] \in Names \/ p[1] = c)
      BY <1>1, <3>2, <3>3 DEF MayName
    <3>5. q[1] # d
      BY <3>1, <3>4
    <3> QED
      BY <3>5 DEF OnlyIn
  <2> QED
    BY <1>3, <2>1, <2>2
<1>4. ASSUME p \in DOMAIN f \/ p \in DOMAIN g PROVE p \in DOMAIN f /\ p \in DOMAIN g /\ g[p] = f[p]
  <2>1. IsPrefix(p, p)
    BY <1>1, PrefixPoints
  <2>2. p # <<>>
    BY <1>2, <1>4, EmptySeq
  <2> QED
    BY <1>3, <1>4, <2>1, <2>2
<1>5. ASSUME NEW q \in Kids(f, p) \cup Kids(g, p)
      PROVE  /\ q \in Kids(f, p) /\ q \in Kids(g, p) /\ g[q] = f[q]
             /\ Append(p, Last(q)) = q
  <2>1. q \in DOMAIN f \cup DOMAIN g /\ Len(q) = Len(p) + 1 /\ IsPrefix(p, q)
    BY DEF Kids
  <2>2. p # <<>> \/ Len(q) = 1
    BY <2>1, EmptySeq
  <2>3. q \in DOMAIN f /\ q \in DOMAIN g /\ g[q] = f[q]
    BY <1>3, <2>1, <2>2
  <2>4. q \in Seq(Components) /\ Len(q) \in Nat
    BY <1>2, <2>1
  <2>5. \A i \in 1..Len(p) : p[i] = q[i]
    BY <1>1, <2>1, <2>4, PrefixPoints
  <2>6. PICK n : n = q[Len(q)]
    OBVIOUS
  <2>7. n \in Components
    BY <1>1, <2>1, <2>4, <2>6
  <2>8. /\ Append(p, n) \in Seq(Components) /\ Len(Append(p, n)) = Len(p) + 1
        /\ \A i \in 1..(Len(p) + 1) : Append(p, n)[i] = IF i <= Len(p) THEN p[i] ELSE n
    BY <1>1, <2>7
  <2>9. \A i \in 1..Len(q) : Append(p, n)[i] = q[i]
    BY <1>1, <2>1, <2>5, <2>6, <2>8
  <2>10. Append(p, n) = q
    BY <2>1, <2>4, <2>8, <2>9, SeqEqual
  <2> QED
    BY <2>1, <2>3, <2>6, <2>10 DEF Kids, Last
<1>6. Kids(g, p) = Kids(f, p)
  BY <1>5
<1>7. PICK N : N = {Last(q) : q \in Kids(f, p)}
  OBVIOUS
<1>8. \A n \in N : g[Append(p, n)] = f[Append(p, n)]
  BY <1>5, <1>7
<1>9. ListOf(g, p) = ListOf(f, p)
  <2>1. ListOf(f, p) = [n \in N |-> f[Append(p, n)]] /\ ListOf(g, p) = [n \in N |-> g[Append(p, n)]]
    BY <1>6, <1>7 DEF ListOf
  <2> QED
    BY <1>8, <2>1
<1> QED
  BY <1>4, <1>9

-----------------------------------------------------------------------------
(* The steps of a client.                                                  *)

\* The history sets do not lose anyone, and gain at most c.
Marks(c) ==
  /\ hasty \subseteq hasty' /\ hasty' \subseteq hasty \cup {c}
  /\ mixed \subseteq mixed' /\ mixed' \subseteq mixed \cup {c}
  /\ cut \subseteq cut' /\ cut' \subseteq cut \cup {c}
  /\ stale \subseteq stale' /\ stale' \subseteq stale \cup {c}

Shapes ==
  /\ ui = [c \in Users |-> ui[c]] /\ req = [c \in Users |-> req[c]]
  /\ ans = [c \in Users |-> ans[c]] /\ box = [c \in Users |-> box[c]]

\* A step of the client c only.
Local(c) ==
  /\ Defined /\ fs' = fs /\ deleted' = deleted /\ wrong' = wrong
  /\ Shapes' /\ Marks(c)
  /\ \A u \in Users \ {c} :
       req'[u] = req[u] /\ ans'[u] = ans[u] /\ box'[u] = box[u] /\ ui'[u] = ui[u]

LEMMA LocalTypes ==
  ASSUME Types, NEW c \in Users, Local(c), Client(c, req'[c], ans'[c], box'[c], ui'[c]),
         undef' \in {"no", "missing", "unset"}
  PROVE  Types'
<1>1. \A u \in Users : Client(u, req'[u], ans'[u], box'[u], ui'[u])
  BY DEF Local, Types
<1>2. Disk(fs')
  BY DEF Local, Types
<1>3. /\ hasty' \subseteq Users /\ mixed' \subseteq Users /\ cut' \subseteq Users
      /\ stale' \subseteq Users /\ wrong' \subseteq Users
  BY DEF Local, Marks, Types
<1>4. Disk(fs)'
  BY <1>2 DEF Disk, IsTree
<1>5. \A u \in Users : Client(u, req[u], ans[u], box[u], ui[u])'
  BY <1>1
<1> QED
  BY <1>3, <1>4, <1>5 DEF Local, Shapes, Types

LEMMA ClientParts ==
  ASSUME Types, NEW c \in Users
  PROVE  /\ req[c] \in Seq(Requests(c)) /\ ans[c] \in Seq(Responses) /\ box[c] \in Seq(Boxes)
         /\ ui[c] \in Panels(c)
         /\ ui[c].item = NoName \/ ui[c].item \in DOMAIN ui[c].shown
         /\ EnteringIn(req[c], ans[c]) => ui[c].enter \in Names
         /\ \A i \in DOMAIN req[c] : req[c][i].kind = "rename" => SameDir(req[c][i])
         /\ Shapes
  BY DEF Types, Client, Shapes

LEMMA PanelFields ==
  ASSUME NEW c \in Users, NEW p \in Panels(c)
  PROVE  /\ p.cur \in Paths(c) /\ p.enter \in Names \cup {NoName} /\ p.shown \in Lists
         /\ p.item \in Names \cup {NoName}
         /\ p.delOn \in BOOLEAN /\ p.fileOn \in BOOLEAN /\ p.retOn \in BOOLEAN
         /\ p.moving # NoPath =>
              p.moving.path \in Inner(c) /\ p.moving.name \in Names /\ p.moving.meant \in Values
         /\ p.sharing # NoName => p.sharing.name \in Names /\ p.sharing.meant \in Values
  BY DEF Panels

LEMMA ListFields ==
  ASSUME NEW l \in Lists, NEW n \in DOMAIN l
  PROVE  n \in Names /\ l[n] \in Values /\ n # NoName
<1>1. n \in Names /\ l[n] \in Values
  BY DEF Lists
<1> QED
  BY <1>1, NamesAssumption

\* The user pressed something: he sees no box, and has waited or is hasty.
Waits(c) == box[c] = <<>> /\ (c \in hasty' \/ Quiet(c))

LEMMA UsesIs ==
  ASSUME Types, NEW c \in Users, Uses(c)
  PROVE  /\ Waits(c) /\ hasty \subseteq hasty' /\ hasty' \subseteq hasty \cup {c}
         /\ Defined /\ fs' = fs /\ deleted' = deleted /\ wrong' = wrong /\ ans' = ans /\ box' = box
  BY DEF Uses, Waits

\* A request for a list, or to enter, while a directory is being entered mixes.
Mixes(c, r) == Entering(c) /\ r.kind \in {"list", "enter"} => c \in mixed'

LEMMA SendsIs ==
  ASSUME Types, NEW c \in Users, NEW r \in Requests(c), Sends(c, r)
  PROVE  /\ req' = [u \in Users |-> req'[u]]
         /\ req'[c] = Append(req[c], r) /\ \A u \in Users \ {c} : req'[u] = req[u]
         /\ mixed \subseteq mixed' /\ mixed' \subseteq mixed \cup {c} /\ Mixes(c, r)
<1>1. Shapes
  BY DEF Types, Shapes
<1> QED
  BY <1>1 DEF Sends, Mixes, Shapes

LEMMA SentTypes ==
  ASSUME Types, NEW c \in Users, NEW r \in Requests(c), req'[c] = Append(req[c], r),
         r.kind = "rename" => SameDir(r)
  PROVE  /\ req'[c] \in Seq(Requests(c))
         /\ \A i \in DOMAIN req'[c] : req'[c][i].kind = "rename" => SameDir(req'[c][i])
<1>1. req[c] \in Seq(Requests(c)) /\ \A i \in DOMAIN req[c] : req[c][i].kind = "rename" => SameDir(req[c][i])
  BY ClientParts
<1>2. /\ req'[c] \in Seq(Requests(c))
      /\ \A i \in DOMAIN req'[c] : (i \in DOMAIN req[c] /\ req'[c][i] = req[c][i])
                                   \/ (i = Len(req[c]) + 1 /\ req'[c][i] = r)
  BY <1>1, Grown
<1>3. ASSUME NEW i \in DOMAIN req'[c] PROVE req'[c][i].kind = "rename" => SameDir(req'[c][i])
  <2>1. CASE i \in DOMAIN req[c] /\ req'[c][i] = req[c][i]
    BY <1>1, <2>1
  <2>2. CASE req'[c][i] = r
    BY <2>2
  <2> QED
    BY <1>2, <2>1, <2>2
<1> QED
  BY <1>2, <1>3

\* To enter is the only request that makes a client enter.
LEMMA EnteringAfter ==
  ASSUME NEW c \in Users, NEW R \in Seq(Requests(c)), NEW A, NEW r \in Requests(c)
  PROVE  EnteringIn(Append(R, r), A) <=> EnteringIn(R, A) \/ r.kind = "enter"
<1>1. PICK S : S = Append(R, r)
  OBVIOUS
<1>2. /\ \A i \in DOMAIN S : (i \in DOMAIN R /\ S[i] = R[i]) \/ (i = Len(R) + 1 /\ S[i] = r)
      /\ \A i \in DOMAIN R : i \in DOMAIN S /\ S[i] = R[i]
      /\ Len(R) + 1 \in DOMAIN S /\ S[Len(R) + 1] = r
  BY <1>1, Grown
<1>3. (\E i \in DOMAIN S : S[i].kind = "enter") <=> (\E i \in DOMAIN R : R[i].kind = "enter") \/ r.kind = "enter"
  BY <1>2
<1> QED
  BY <1>1, <1>3 DEF EnteringIn

\* A click of c that sends r.
Asked(c, r) ==
  /\ r \in Requests(c) /\ Local(c) /\ Waits(c) /\ Mixes(c, r)
  /\ req'[c] = Append(req[c], r) /\ ans' = ans /\ box' = box /\ undef' = undef

LEMMA AskedStep ==
  ASSUME Types, NEW c \in Users, NEW r \in Requests(c), Uses(c), Sends(c, r),
         ui' = [u \in Users |-> ui'[u]], \A u \in Users \ {c} : ui'[u] = ui[u],
         ui'[c] \in Panels(c), ui'[c].item = NoName \/ ui'[c].item \in DOMAIN ui'[c].shown,
         Entering(c) \/ r.kind = "enter" => ui'[c].enter \in Names,
         r.kind = "rename" => SameDir(r),
         cut \subseteq cut', cut' \subseteq cut \cup {c},
         stale \subseteq stale', stale' \subseteq stale \cup {c}, undef' = undef
  PROVE  Types' /\ Asked(c, r)
<1>1. /\ Waits(c) /\ hasty \subseteq hasty' /\ hasty' \subseteq hasty \cup {c}
      /\ Defined /\ fs' = fs /\ deleted' = deleted /\ wrong' = wrong /\ ans' = ans /\ box' = box
  BY UsesIs
<1>2. /\ req' = [u \in Users |-> req'[u]]
      /\ req'[c] = Append(req[c], r) /\ \A u \in Users \ {c} : req'[u] = req[u]
      /\ mixed \subseteq mixed' /\ mixed' \subseteq mixed \cup {c} /\ Mixes(c, r)
  BY SendsIs
<1>3. Shapes
  BY DEF Types, Shapes
<1>4. Shapes'
  BY <1>1, <1>2, <1>3 DEF Shapes
<1>5. Marks(c)
  BY <1>1, <1>2 DEF Marks
<1>6. Local(c)
  BY <1>1, <1>2, <1>4, <1>5 DEF Local
<1>7. Asked(c, r)
  BY <1>1, <1>2, <1>6 DEF Asked
<1>8. Client(c, req'[c], ans'[c], box'[c], ui'[c])
  <2>1. /\ req'[c] \in Seq(Requests(c))
        /\ \A i \in DOMAIN req'[c] : req'[c][i].kind = "rename" => SameDir(req'[c][i])
    BY <1>2, SentTypes
  <2>2. ans'[c] \in Seq(Responses) /\ box'[c] \in Seq(Boxes)
    BY <1>1, ClientParts
  <2>3. EnteringIn(req'[c], ans'[c]) => ui'[c].enter \in Names
    <3>1. req[c] \in Seq(Requests(c))
      BY ClientParts
    <3>2. EnteringIn(req'[c], ans'[c]) <=> EnteringIn(req[c], ans[c]) \/ r.kind = "enter"
      BY <1>1, <1>2, <3>1, EnteringAfter
    <3> QED
      BY <3>2 DEF Entering, EnteringIn
  <2> QED
    BY <2>1, <2>2, <2>3 DEF Client
<1>9. undef' \in {"no", "missing", "unset"}
  BY DEF Types
<1> QED
  BY <1>6, <1>7, <1>8, <1>9, LocalTypes

\* flushFile() asks for the list of where the panel is, with the buttons off.
Off(p) == [p EXCEPT !.delOn = FALSE, !.fileOn = FALSE]
ListRequest(p) == [kind |-> "list", path |-> p]

LEMMA FlushIs ==
  ASSUME Types, NEW c \in Users, NEW p \in Panels(c), FlushFile(c, p)
  PROVE  /\ ui' = [u \in Users |-> ui'[u]] /\ \A u \in Users \ {c} : ui'[u] = ui[u]
         /\ ui'[c] = Off(p) /\ Off(p) \in Panels(c)
         /\ Off(p).cur = p.cur /\ Off(p).enter = p.enter /\ Off(p).shown = p.shown /\ Off(p).item = p.item
         /\ Off(p).moving = p.moving /\ Off(p).sharing = p.sharing /\ ~Off(p).fileOn
         /\ ListRequest(p.cur) \in Requests(c) /\ Sends(c, ListRequest(p.cur))
<1>1. Shapes
  BY DEF Types, Shapes
<1>2. ui' = [ui EXCEPT ![c] = Off(p)] /\ Sends(c, ListRequest(p.cur))
  BY DEF FlushFile, Off, ListRequest
<1>3. ui' = [u \in Users |-> ui'[u]] /\ ui'[c] = Off(p) /\ \A u \in Users \ {c} : ui'[u] = ui[u]
  BY <1>1, <1>2 DEF Shapes
<1>4. /\ Off(p) \in Panels(c)
      /\ Off(p).cur = p.cur /\ Off(p).enter = p.enter /\ Off(p).shown = p.shown /\ Off(p).item = p.item
      /\ Off(p).moving = p.moving /\ Off(p).sharing = p.sharing /\ ~Off(p).fileOn
  BY DEF Off, Panels
<1>5. ListRequest(p.cur) \in Requests(c)
  BY PanelFields DEF ListRequest, Requests
<1> QED
  BY <1>2, <1>3, <1>4, <1>5

LEMMA ClickFlushIs ==
  ASSUME Types, NEW c \in Users, ClickFlush(c)
  PROVE  Types' /\ Asked(c, ListRequest(ui[c].cur)) /\ ui'[c] = Off(ui[c])
<1>1. Uses(c) /\ FlushFile(c, ui[c]) /\ cut' = cut /\ stale' = stale /\ undef' = undef
  BY DEF ClickFlush, Clicks
<1>2. ui[c] \in Panels(c) /\ (ui[c].item = NoName \/ ui[c].item \in DOMAIN ui[c].shown)
  BY ClientParts
<1>3. ui[c] \in Panels(c)
  BY ClientParts
<1>4. ListRequest(ui[c].cur).kind = "list"
  BY DEF ListRequest
<1>5. Entering(c) => ui[c].enter \in Names
  BY ClientParts DEF Entering, EnteringIn
<1> QED
  BY <1>1, <1>2, <1>3, <1>4, <1>5, FlushIs, AskedStep

\* A request made with the panel left as it is.
LEMMA AskedStays ==
  ASSUME Types, NEW c \in Users, NEW r \in Requests(c), Uses(c), Sends(c, r), UNCHANGED <<ui, undef, cut>>,
         r.kind # "enter", r.kind = "rename" => SameDir(r),
         stale \subseteq stale', stale' \subseteq stale \cup {c}
  PROVE  Types' /\ Asked(c, r) /\ ui'[c] = ui[c]
<1>1. /\ ui[c] \in Panels(c)
      /\ ui[c].item = NoName \/ ui[c].item \in DOMAIN ui[c].shown
      /\ Entering(c) => ui[c].enter \in Names
      /\ ui = [u \in Users |-> ui[u]]
  BY ClientParts DEF Entering, EnteringIn, Shapes
<1> QED
  BY <1>1, AskedStep

CreateRequest(p, n) == [kind |-> "create", path |-> p.cur, name |-> <<n>>]

LEMMA ClickCreateIs ==
  ASSUME Types, NEW c \in Users, ClickCreate(c)
  PROVE  \E r \in Requests(c) : Types' /\ Asked(c, r) /\ ui'[c] = ui[c] /\ r.kind = "create"
<1>1. PICK n \in DirNames : Uses(c) /\ Sends(c, CreateRequest(ui[c], n)) /\ UNCHANGED <<ui, undef, cut, stale>>
  BY DEF ClickCreate, Clicks, CreateRequest
<1>2. CreateRequest(ui[c], n) \in Requests(c) /\ CreateRequest(ui[c], n).kind = "create"
  <2>1. <<n>> \in Names
    BY NamesAssumption DEF Names
  <2>2. ui[c].cur \in Paths(c)
    BY ClientParts, PanelFields
  <2> QED
    BY <2>1, <2>2 DEF CreateRequest, Requests
<1> QED
  BY <1>1, <1>2, AskedStays

DeleteRequest(p) == [kind |-> "delete", path |-> Append(p.cur, p.item), meant |-> p.shown[p.item]]

\* What is picked in the list.
LEMMA ItemIs ==
  ASSUME Types, NEW c \in Users, ui[c].item # NoName
  PROVE  /\ ui[c].item \in DOMAIN ui[c].shown /\ ui[c].item \in Names
         /\ ui[c].cur \in Paths(c) /\ ui[c].shown[ui[c].item] \in Values
         /\ Append(ui[c].cur, ui[c].item) \in Inner(c)
<1>1. ui[c] \in Panels(c) /\ ui[c].item \in DOMAIN ui[c].shown
  BY ClientParts
<1>2. ui[c].cur \in Paths(c) /\ ui[c].shown \in Lists
  BY <1>1, PanelFields
<1>3. ui[c].item \in Names /\ ui[c].shown[ui[c].item] \in Values
  BY <1>1, <1>2, ListFields
<1> QED
  BY <1>1, <1>2, <1>3, LongerPath

LEMMA SpoilsIs ==
  ASSUME NEW c, NEW always \in BOOLEAN, Spoils(c, always)
  PROVE  /\ stale \subseteq stale' /\ stale' \subseteq stale \cup {c}
         /\ Offered(c) => c \in stale'
         /\ always /\ ui[c].moving # NoPath => c \in stale'
  BY DEF Spoils

LEMMA ClickDeleteIs ==
  ASSUME Types, NEW c \in Users, ClickDelete(c)
  PROVE  /\ Types' /\ Asked(c, DeleteRequest(ui[c])) /\ ui'[c] = ui[c]
         /\ ui[c].item # NoName
         /\ Offered(c) \/ ui[c].moving # NoPath => c \in stale'
<1>1. /\ Uses(c) /\ Sends(c, DeleteRequest(ui[c])) /\ UNCHANGED <<ui, undef, cut>>
      /\ ui[c].item # NoName /\ Spoils(c, TRUE)
  BY DEF ClickDelete, Clicks, DeleteRequest
<1>2. DeleteRequest(ui[c]) \in Requests(c) /\ DeleteRequest(ui[c]).kind = "delete"
  BY <1>1, ItemIs DEF DeleteRequest, Requests
<1> QED
  BY <1>1, <1>2, AskedStays, SpoilsIs

RenameRequest(p, n) ==
  [kind |-> "rename", path |-> Append(p.cur, p.item), to |-> Append(p.cur, <<n>>), meant |-> p.shown[p.item]]

LEMMA ClickRenameIs ==
  ASSUME Types, NEW c \in Users, ClickRename(c)
  PROVE  \E n : /\ Types' /\ Asked(c, RenameRequest(ui[c], n)) /\ ui'[c] = ui[c]
                /\ ui[c].item # NoName
                /\ Offered(c) \/ ui[c].moving # NoPath => c \in stale'
<1>1. PICK n \in DirNames \cup FileNames :
        /\ Uses(c) /\ Sends(c, RenameRequest(ui[c], n)) /\ UNCHANGED <<ui, undef, cut>>
        /\ ui[c].item # NoName /\ Spoils(c, TRUE)
  BY DEF ClickRename, Clicks, RenameRequest
<1>2. /\ ui[c].item \in Names /\ ui[c].cur \in Paths(c) /\ ui[c].shown[ui[c].item] \in Values
      /\ Append(ui[c].cur, ui[c].item) \in Inner(c)
  BY <1>1, ItemIs
<1>3. <<n>> \in Names
  BY NamesAssumption DEF Names
<1>4. Append(ui[c].cur, <<n>>) \in Inner(c)
  BY <1>2, <1>3, LongerPath
<1>5. PICK r : r = RenameRequest(ui[c], n)
  OBVIOUS
<1>6. r \in Requests(c) /\ r.kind = "rename"
  BY <1>2, <1>4, <1>5 DEF RenameRequest, Requests
<1>7. SameDir(r)
  <2>1. r.path = Append(ui[c].cur, ui[c].item) /\ r.to = Append(ui[c].cur, <<n>>)
    BY <1>5 DEF RenameRequest
  <2>2. /\ Len(Append(ui[c].cur, ui[c].item)) = Len(ui[c].cur) + 1 /\ Len(ui[c].cur) \in Nat
        /\ \A i \in 1..Len(ui[c].cur) : Append(ui[c].cur, ui[c].item)[i] = ui[c].cur[i]
    BY <1>2, LongerPath
  <2>3. /\ Len(Append(ui[c].cur, <<n>>)) = Len(ui[c].cur) + 1
        /\ \A i \in 1..Len(ui[c].cur) : Append(ui[c].cur, <<n>>)[i] = ui[c].cur[i]
    BY <1>2, <1>3, LongerPath
  <2> QED
    BY <2>1, <2>2, <2>3 DEF SameDir
<1> QED
  BY <1>1, <1>5, <1>6, <1>7, AskedStays, SpoilsIs

EnterRequest(p, n) == [kind |-> "enter", path |-> Append(p.cur, n)]

LEMMA DoubleClickIs ==
  ASSUME Types, NEW c \in Users, DoubleClick(c)
  PROVE  \E n \in DOMAIN ui[c].shown :
           /\ Types' /\ Asked(c, EnterRequest(ui[c], n))
           /\ ui'[c].cur = ui[c].cur /\ ui'[c].enter = n /\ ui'[c].shown = ui[c].shown /\ ui'[c].item = n
           /\ ui'[c].moving = ui[c].moving /\ ui'[c].sharing = ui[c].sharing
           /\ ui'[c].fileOn = (ui[c].shown[n] # Dir)
           /\ n \in Names /\ (Offered(c) => c \in stale')
<1>1. PICK n \in DOMAIN ui[c].shown :
        /\ Uses(c) /\ Sends(c, EnterRequest(ui[c], n)) /\ UNCHANGED <<undef, cut>>
        /\ ui' = [ui EXCEPT ![c].item = n, ![c].enter = n, ![c].retOn = TRUE, ![c].delOn = FALSE,
                            ![c].fileOn = (ui[c].shown[n] # Dir)]
        /\ Spoils(c, FALSE)
  BY DEF DoubleClick, Clicks, EnterRequest
<1>2. ui[c] \in Panels(c) /\ ui = [u \in Users |-> ui[u]]
  BY ClientParts DEF Shapes
<1>3. n \in Names /\ n # NoName /\ ui[c].cur \in Paths(c)
  BY <1>2, PanelFields, ListFields
<1>4. /\ ui' = [u \in Users |-> ui'[u]] /\ \A u \in Users \ {c} : ui'[u] = ui[u]
      /\ ui'[c] = [ui[c] EXCEPT !.item = n, !.enter = n, !.retOn = TRUE, !.delOn = FALSE,
                                !.fileOn = (ui[c].shown[n] # Dir)]
  BY <1>1, <1>2
<1>5. /\ ui'[c].cur = ui[c].cur /\ ui'[c].enter = n /\ ui'[c].shown = ui[c].shown /\ ui'[c].item = n
      /\ ui'[c].moving = ui[c].moving /\ ui'[c].sharing = ui[c].sharing
      /\ ui'[c].fileOn = (ui[c].shown[n] # Dir)
      /\ ui'[c] \in Panels(c)
  BY <1>2, <1>3, <1>4 DEF Panels
<1>6. EnterRequest(ui[c], n) \in Requests(c) /\ EnterRequest(ui[c], n).kind = "enter"
  <2>1. Append(ui[c].cur, n) \in Paths(c)
    BY <1>3, LongerPath
  <2> QED
    BY <2>1 DEF EnterRequest, Requests
<1>7. /\ stale \subseteq stale' /\ stale' \subseteq stale \cup {c}
      /\ Offered(c) => c \in stale'
  BY <1>1, SpoilsIs
<1>a. /\ Uses(c) /\ Sends(c, EnterRequest(ui[c], n)) /\ undef' = undef /\ cut' = cut
      /\ ui'[c].item \in DOMAIN ui'[c].shown
  BY <1>1, <1>5
<1>b. ui' = [u \in Users |-> ui'[u]] /\ \A u \in Users \ {c} : ui'[u] = ui[u]
  BY <1>4
<1>8. Types' /\ Asked(c, EnterRequest(ui[c], n))
  BY <1>a, <1>b, <1>3, <1>5, <1>6, <1>7, AskedStep
<1> QED
  BY <1>3, <1>5, <1>7, <1>8

LEMMA ParentPath ==
  ASSUME NEW c \in Users, NEW p \in Paths(c)
  PROVE  Parent(p) \in Paths(c) /\ (Len(p) > 1 => Parent(p) = SubSeq(p, 1, Len(p) - 1))
<1>1. p \in Seq(Components) /\ Len(p) \in Nat /\ MayName(c, p)
  BY DEF Paths
<1>2. CASE Len(p) > 1
  <2>1. PICK q : q = SubSeq(p, 1, Len(p) - 1)
    OBVIOUS
  <2>2. q \in Seq(Components) /\ Len(q) = Len(p) - 1 /\ \A i \in 1..(Len(p) - 1) : q[i] = p[i]
    <3>1. Len(p) - 1 \in 0..Len(p)
      BY <1>1, <1>2
    <3> QED
      BY <1>1, <2>1, <3>1, Beginning
  <2>3. MayName(c, q)
    BY <1>1, <1>2, <2>2 DEF MayName
  <2>4. Parent(p) = q
    BY <1>2, <2>1 DEF Parent, Front
  <2> QED
    BY <2>1, <2>2, <2>3, <2>4 DEF Paths
<1>3. CASE ~(Len(p) > 1)
  <2>1. Parent(p) = <<>>
    BY <1>3 DEF Parent
  <2>2. <<>> \in Paths(c)
    BY DEF Paths, MayName
  <2> QED
    BY <1>3, <2>1, <2>2
<1> QED
  BY <1>2, <1>3

LEMMA ClickReturnIs ==
  ASSUME Types, NEW c \in Users, ClickReturn(c)
  PROVE  /\ Types' /\ Asked(c, ListRequest(Parent(ui[c].cur)))
         /\ ui'[c].cur = Parent(ui[c].cur) /\ ui'[c].enter = ui[c].enter /\ ui'[c].item = ui[c].item
         /\ ui'[c].moving = ui[c].moving /\ ui'[c].sharing = ui[c].sharing /\ ~ui'[c].fileOn
         /\ ~(Len(ui[c].cur) > 1) => c \in cut'
         /\ Offered(c) => c \in stale'
<1> DEFINE up == Parent(ui[c].cur)
           p == [ui[c] EXCEPT !.cur = up, !.retOn = (up # <<c>>)]
<1>1. /\ Uses(c) /\ FlushFile(c, p) /\ Spoils(c, FALSE) /\ undef' = undef
      /\ cut' = IF Len(ui[c].cur) <= 1 THEN cut \cup {c} ELSE cut
  BY DEF ClickReturn, Clicks
<1>2. ui[c] \in Panels(c) /\ (ui[c].item = NoName \/ ui[c].item \in DOMAIN ui[c].shown)
  BY ClientParts
<1>3. up \in Paths(c) /\ Len(ui[c].cur) \in Nat
  BY <1>2, PanelFields, ParentPath DEF Paths
<1> HIDE DEF up
<1>4. /\ p \in Panels(c) /\ p.cur = up /\ p.enter = ui[c].enter /\ p.item = ui[c].item
      /\ p.shown = ui[c].shown /\ p.moving = ui[c].moving /\ p.sharing = ui[c].sharing
  BY <1>2, <1>3 DEF Panels
<1> HIDE DEF p
<1>5. /\ ui' = [u \in Users |-> ui'[u]] /\ \A u \in Users \ {c} : ui'[u] = ui[u]
      /\ ui'[c] \in Panels(c) /\ ui'[c].cur = up /\ ui'[c].enter = ui[c].enter /\ ui'[c].item = ui[c].item
      /\ ui'[c].shown = ui[c].shown
      /\ ui'[c].moving = ui[c].moving /\ ui'[c].sharing = ui[c].sharing /\ ~ui'[c].fileOn
      /\ ListRequest(up) \in Requests(c) /\ Sends(c, ListRequest(up))
  BY <1>1, <1>4, FlushIs
<1>6. /\ stale \subseteq stale' /\ stale' \subseteq stale \cup {c}
      /\ Offered(c) => c \in stale'
  BY <1>1, SpoilsIs
<1>7. ListRequest(up).kind = "list"
  BY DEF ListRequest
<1>8. Entering(c) => ui[c].enter \in Names
  BY ClientParts DEF Entering, EnteringIn
<1>9. Types' /\ Asked(c, ListRequest(up))
  BY <1>1, <1>2, <1>5, <1>6, <1>7, <1>8, AskedStep
<1> QED
  BY <1>1, <1>3, <1>5, <1>6, <1>9 DEF up

\* A click of c that sends nothing.
Picked(c) == Local(c) /\ Waits(c) /\ req' = req /\ ans' = ans /\ box' = box

SamePlace(p, q) == q.cur = p.cur /\ q.enter = p.enter /\ q.shown = p.shown

LEMMA PickedStep ==
  ASSUME Types, NEW c \in Users, Uses(c), UNCHANGED <<req, mixed, cut, stale>>,
         ui' = [u \in Users |-> ui'[u]], \A u \in Users \ {c} : ui'[u] = ui[u],
         ui'[c] \in Panels(c), ui'[c].item = NoName \/ ui'[c].item \in DOMAIN ui'[c].shown,
         SamePlace(ui[c], ui'[c]), undef' \in {"no", "missing", "unset"}
  PROVE  Types' /\ Picked(c)
<1>1. /\ Waits(c) /\ hasty \subseteq hasty' /\ hasty' \subseteq hasty \cup {c}
      /\ Defined /\ fs' = fs /\ deleted' = deleted /\ wrong' = wrong /\ ans' = ans /\ box' = box
  BY UsesIs
<1>2. /\ req[c] \in Seq(Requests(c)) /\ ans[c] \in Seq(Responses) /\ box[c] \in Seq(Boxes)
      /\ EnteringIn(req[c], ans[c]) => ui[c].enter \in Names
      /\ \A i \in DOMAIN req[c] : req[c][i].kind = "rename" => SameDir(req[c][i])
      /\ Shapes
  BY ClientParts
<1>3. Shapes'
  BY <1>1, <1>2 DEF Shapes
<1>4. Marks(c)
  BY <1>1 DEF Marks
<1>5. Local(c)
  BY <1>1, <1>3, <1>4 DEF Local
<1>6. Client(c, req'[c], ans'[c], box'[c], ui'[c])
  BY <1>1, <1>2 DEF Client, SamePlace
<1> QED
  BY <1>1, <1>5, <1>6, LocalTypes DEF Picked

LEMMA ClickItemIs ==
  ASSUME Types, NEW c \in Users, ClickItem(c)
  PROVE  \E n \in DOMAIN ui[c].shown :
           /\ Types' /\ Picked(c) /\ SamePlace(ui[c], ui'[c]) /\ undef' = undef
           /\ ui'[c].moving = ui[c].moving /\ ui'[c].sharing = ui[c].sharing
           /\ ui'[c].item = n /\ n # NoName
<1>1. PICK n \in DOMAIN ui[c].shown :
        /\ Uses(c) /\ UNCHANGED <<req, mixed, cut, stale>> /\ undef' = undef
        /\ ui' = [ui EXCEPT ![c].item = n, ![c].delOn = TRUE, ![c].fileOn = (ui[c].shown[n] # Dir)]
  BY DEF ClickItem
<1>2. ui[c] \in Panels(c) /\ ui = [u \in Users |-> ui[u]] /\ undef \in {"no", "missing", "unset"}
  BY ClientParts DEF Shapes, Types
<1>3. n \in Names /\ n # NoName
  BY <1>2, PanelFields, ListFields
<1>4. /\ ui' = [u \in Users |-> ui'[u]] /\ \A u \in Users \ {c} : ui'[u] = ui[u]
      /\ ui'[c] = [ui[c] EXCEPT !.item = n, !.delOn = TRUE, !.fileOn = (ui[c].shown[n] # Dir)]
  BY <1>1, <1>2
<1>5. /\ SamePlace(ui[c], ui'[c]) /\ ui'[c].item = n /\ ui'[c] \in Panels(c)
      /\ ui'[c].moving = ui[c].moving /\ ui'[c].sharing = ui[c].sharing
  BY <1>2, <1>3, <1>4 DEF Panels, SamePlace
<1>6. ui'[c].item \in DOMAIN ui'[c].shown
  BY <1>5 DEF SamePlace
<1>7. Types' /\ Picked(c)
  BY <1>1, <1>2, <1>4, <1>5, <1>6, PickedStep
<1> QED
  BY <1>1, <1>3, <1>5, <1>7

LEMMA PickMoveIs ==
  ASSUME Types, NEW c \in Users, PickMove(c)
  PROVE  /\ Types' /\ Picked(c) /\ SamePlace(ui[c], ui'[c]) /\ undef' = undef
         /\ ui[c].item # NoName /\ ui'[c].item = ui[c].item /\ ui'[c].fileOn = ui[c].fileOn
         /\ ui'[c].sharing = ui[c].sharing
         /\ ui'[c].moving.path = Append(ui[c].cur, ui[c].item)
         /\ ui'[c].moving.meant = ui[c].shown[ui[c].item]
<1> DEFINE m == [path |-> Append(ui[c].cur, ui[c].item), name |-> ui[c].item,
                 meant |-> ui[c].shown[ui[c].item]]
<1>1. /\ Uses(c) /\ UNCHANGED <<req, mixed, cut, stale>> /\ undef' = undef
      /\ ui[c].item # NoName /\ ui' = [ui EXCEPT ![c].moving = m]
  BY DEF PickMove, Clicks
<1>2. /\ ui[c] \in Panels(c) /\ ui = [u \in Users |-> ui[u]] /\ undef \in {"no", "missing", "unset"}
      /\ ui[c].item = NoName \/ ui[c].item \in DOMAIN ui[c].shown
  BY ClientParts DEF Shapes, Types
<1>3. /\ m \in [path : Inner(c), name : Names, meant : Values]
      /\ m.path = Append(ui[c].cur, ui[c].item) /\ m.meant = ui[c].shown[ui[c].item]
  BY <1>1, ItemIs
<1> HIDE DEF m
<1>4. /\ ui' = [u \in Users |-> ui'[u]] /\ \A u \in Users \ {c} : ui'[u] = ui[u]
      /\ ui'[c] = [ui[c] EXCEPT !.moving = m]
  BY <1>1, <1>2
<1>5. /\ SamePlace(ui[c], ui'[c]) /\ ui'[c].item = ui[c].item /\ ui'[c] \in Panels(c)
      /\ ui'[c].moving = m /\ ui'[c].sharing = ui[c].sharing /\ ui'[c].fileOn = ui[c].fileOn
  BY <1>2, <1>3, <1>4 DEF Panels, SamePlace
<1>6. ui'[c].item = NoName \/ ui'[c].item \in DOMAIN ui'[c].shown
  BY <1>2, <1>5 DEF SamePlace
<1>7. Types' /\ Picked(c)
  BY <1>1, <1>2, <1>4, <1>5, <1>6, PickedStep
<1> QED
  BY <1>1, <1>3, <1>5, <1>7

LEMMA PickShareIs ==
  ASSUME Types, NEW c \in Users, PickShare(c)
  PROVE  /\ Types' /\ Picked(c) /\ SamePlace(ui[c], ui'[c])
         /\ ui'[c].item = ui[c].item /\ ui'[c].fileOn = ui[c].fileOn /\ ui'[c].moving = ui[c].moving
         /\ ui[c].fileOn
         /\ IF ui[c].item = NoName THEN undef' = "missing"
            ELSE /\ undef' = undef
                 /\ ui'[c].sharing.name = ui[c].item
                 /\ ui'[c].sharing.meant = ui[c].shown[ui[c].item]
<1> DEFINE m == [name |-> ui[c].item, meant |-> ui[c].shown[ui[c].item]]
<1>1. /\ Uses(c) /\ UNCHANGED <<req, mixed, cut, stale>> /\ ui[c].fileOn
      /\ IF ui[c].item = NoName THEN undef' = "missing" /\ ui' = ui
         ELSE ui' = [ui EXCEPT ![c].sharing = m] /\ undef' = undef
  BY DEF PickShare, Clicks
<1>2. /\ ui[c] \in Panels(c) /\ ui = [u \in Users |-> ui[u]] /\ undef \in {"no", "missing", "unset"}
      /\ ui[c].item = NoName \/ ui[c].item \in DOMAIN ui[c].shown
  BY ClientParts DEF Shapes, Types
<1>3. CASE ui[c].item = NoName
  <2>1. SamePlace(ui[c], ui'[c])
    BY <1>1, <1>3 DEF SamePlace
  <2>2. undef' = "missing" /\ ui' = ui
    BY <1>1, <1>3
  <2>3. Types' /\ Picked(c)
    BY <1>1, <1>2, <2>1, <2>2, PickedStep
  <2> QED
    BY <1>1, <1>3, <2>1, <2>2, <2>3
<1>4. CASE ui[c].item # NoName
  <2>1. /\ m \in [name : Names, meant : Values]
        /\ m.name = ui[c].item /\ m.meant = ui[c].shown[ui[c].item]
    BY <1>4, ItemIs
  <2> HIDE DEF m
  <2>2. /\ ui' = [u \in Users |-> ui'[u]] /\ \A u \in Users \ {c} : ui'[u] = ui[u]
        /\ ui'[c] = [ui[c] EXCEPT !.sharing = m] /\ undef' = undef
    BY <1>1, <1>2, <1>4
  <2>3. /\ SamePlace(ui[c], ui'[c]) /\ ui'[c].item = ui[c].item /\ ui'[c] \in Panels(c)
        /\ ui'[c].moving = ui[c].moving /\ ui'[c].sharing = m /\ ui'[c].fileOn = ui[c].fileOn
    BY <1>2, <2>1, <2>2 DEF Panels, SamePlace
  <2>4. ui'[c].item = NoName \/ ui'[c].item \in DOMAIN ui'[c].shown
    BY <1>2, <2>3 DEF SamePlace
  <2>5. Types' /\ Picked(c)
    BY <1>1, <1>2, <2>2, <2>3, <2>4, PickedStep
  <2> QED
    BY <1>1, <1>4, <2>1, <2>2, <2>3, <2>5
<1> QED
  BY <1>3, <1>4

MoveRequest(p) ==
  [kind |-> "move", path |-> p.moving.path, to |-> p.cur, name |-> p.moving.name, meant |-> p.moving.meant]

LEMMA ConfirmMoveIs ==
  ASSUME Types, NEW c \in Users, ConfirmMove(c)
  PROVE  /\ Types' /\ Asked(c, MoveRequest(ui[c])) /\ SamePlace(ui[c], ui'[c])
         /\ ui[c].moving # NoPath /\ ui'[c].moving = NoPath /\ ui'[c].sharing = ui[c].sharing
         /\ ui'[c].item = ui[c].item /\ ui'[c].fileOn = ui[c].fileOn
         /\ Offered(c) => c \in stale'
<1>1. /\ Uses(c) /\ ui[c].moving # NoPath /\ Sends(c, MoveRequest(ui[c])) /\ Spoils(c, FALSE)
      /\ ui' = [ui EXCEPT ![c].moving = NoPath] /\ undef' = undef /\ cut' = cut
  BY DEF ConfirmMove, Clicks, MoveSource, MoveRequest
<1>2. /\ ui[c] \in Panels(c) /\ ui = [u \in Users |-> ui[u]]
      /\ ui[c].item = NoName \/ ui[c].item \in DOMAIN ui[c].shown
      /\ EnteringIn(req[c], ans[c]) => ui[c].enter \in Names
  BY ClientParts DEF Shapes
<1>3. /\ ui' = [u \in Users |-> ui'[u]] /\ \A u \in Users \ {c} : ui'[u] = ui[u]
      /\ ui'[c] = [ui[c] EXCEPT !.moving = NoPath]
  BY <1>1, <1>2
<1>4. /\ SamePlace(ui[c], ui'[c]) /\ ui'[c].item = ui[c].item /\ ui'[c] \in Panels(c)
      /\ ui'[c].moving = NoPath /\ ui'[c].sharing = ui[c].sharing /\ ui'[c].fileOn = ui[c].fileOn
  BY <1>2, <1>3 DEF Panels, SamePlace
<1>5. MoveRequest(ui[c]) \in Requests(c) /\ MoveRequest(ui[c]).kind = "move"
  <2>1. /\ ui[c].cur \in Paths(c)
        /\ ui[c].moving.path \in Inner(c) /\ ui[c].moving.name \in Names /\ ui[c].moving.meant \in Values
    BY <1>1, <1>2, PanelFields
  <2> QED
    BY <2>1 DEF MoveRequest, Requests
<1>6. ui'[c].item = NoName \/ ui'[c].item \in DOMAIN ui'[c].shown
  BY <1>2, <1>4 DEF SamePlace
<1>7. Entering(c) => ui'[c].enter \in Names
  BY <1>2, <1>4 DEF Entering, EnteringIn, SamePlace
<1>8. stale \subseteq stale' /\ stale' \subseteq stale \cup {c} /\ (Offered(c) => c \in stale')
  BY <1>1, SpoilsIs
<1>9. Uses(c) /\ Sends(c, MoveRequest(ui[c])) /\ undef' = undef /\ cut' = cut
  BY <1>1
<1>10. Types' /\ Asked(c, MoveRequest(ui[c]))
  BY <1>3, <1>4, <1>5, <1>6, <1>7, <1>8, <1>9, AskedStep
<1> QED
  BY <1>1, <1>4, <1>8, <1>10

ShareRequest(c, friend, p) ==
  [kind |-> "share", from |-> c, to |-> friend, path |-> Append(p.cur, p.sharing.name), meant |-> p.sharing.meant]

LEMMA ConfirmShareIs ==
  ASSUME Types, NEW c \in Users, ConfirmShare(c)
  PROVE  /\ \E friend \in Users : Types' /\ Asked(c, ShareRequest(c, friend, ui[c]))
         /\ SamePlace(ui[c], ui'[c])
         /\ ui[c].sharing # NoName /\ ui'[c].sharing = NoName /\ ui'[c].moving = ui[c].moving
         /\ ui'[c].item = ui[c].item /\ ui'[c].fileOn = ui[c].fileOn
<1>1. PICK friend \in Users :
        /\ Uses(c) /\ ui[c].sharing # NoName /\ Sends(c, ShareRequest(c, friend, ui[c]))
        /\ ui' = [ui EXCEPT ![c].sharing = NoName] /\ undef' = undef /\ cut' = cut /\ stale' = stale
  BY DEF ConfirmShare, Clicks, ShareRequest
<1>2. /\ ui[c] \in Panels(c) /\ ui = [u \in Users |-> ui[u]]
      /\ ui[c].item = NoName \/ ui[c].item \in DOMAIN ui[c].shown
      /\ EnteringIn(req[c], ans[c]) => ui[c].enter \in Names
  BY ClientParts DEF Shapes
<1>3. /\ ui' = [u \in Users |-> ui'[u]] /\ \A u \in Users \ {c} : ui'[u] = ui[u]
      /\ ui'[c] = [ui[c] EXCEPT !.sharing = NoName]
  BY <1>1, <1>2
<1>4. /\ SamePlace(ui[c], ui'[c]) /\ ui'[c].item = ui[c].item /\ ui'[c] \in Panels(c)
      /\ ui'[c].sharing = NoName /\ ui'[c].moving = ui[c].moving /\ ui'[c].fileOn = ui[c].fileOn
  BY <1>2, <1>3 DEF Panels, SamePlace
<1>5. PICK r : r = ShareRequest(c, friend, ui[c])
  OBVIOUS
<1>6. r \in Requests(c) /\ r.kind = "share"
  <2>1. Append(ui[c].cur, ui[c].sharing.name) \in Inner(c) /\ ui[c].sharing.meant \in Values
    BY <1>1, <1>2, PanelFields, LongerPath
  <2> QED
    BY <1>5, <2>1 DEF ShareRequest, Requests
<1>7. ui'[c].item = NoName \/ ui'[c].item \in DOMAIN ui'[c].shown
  BY <1>2, <1>4 DEF SamePlace
<1>8. Entering(c) => ui'[c].enter \in Names
  BY <1>2, <1>4 DEF Entering, EnteringIn, SamePlace
<1>9. Uses(c) /\ Sends(c, r) /\ undef' = undef /\ cut' = cut /\ stale' = stale
  BY <1>1, <1>5
<1>10. Types' /\ Asked(c, r)
  BY <1>3, <1>4, <1>6, <1>7, <1>8, <1>9, AskedStep
<1> QED
  BY <1>1, <1>4, <1>5, <1>10

-----------------------------------------------------------------------------
(* The steps of a client: answers and boxes.                               *)

Took(c, a) ==
  /\ Local(c) /\ ans[c] # <<>> /\ a = Head(ans[c]) /\ a \in Responses
  /\ ans'[c] = Tail(ans[c]) /\ UNCHANGED <<undef, hasty, cut, stale>>

LEMMA LessEntering ==
  ASSUME NEW R, NEW A \in Seq(Responses), A # <<>>, EnteringIn(R, Tail(A))
  PROVE  EnteringIn(R, A)
<1>1. PICK T : T = Tail(A)
  OBVIOUS
<1>2. \A i \in DOMAIN T : i \in Nat /\ i + 1 \in DOMAIN A /\ T[i] = A[i + 1]
  BY <1>1, Shrunk
<1> QED
  BY <1>1, <1>2 DEF EnteringIn

LEMMA TookStep ==
  ASSUME Types, NEW c \in Users, NEW a, Takes(c, a),
         Shapes', mixed \subseteq mixed', mixed' \subseteq mixed \cup {c},
         \A u \in Users \ {c} : req'[u] = req[u] /\ box'[u] = box[u] /\ ui'[u] = ui[u],
         req'[c] \in Seq(Requests(c)),
         \A i \in DOMAIN req'[c] : req'[c][i].kind = "rename" => SameDir(req'[c][i]),
         box'[c] \in Seq(Boxes), ui'[c] \in Panels(c),
         ui'[c].item = NoName \/ ui'[c].item \in DOMAIN ui'[c].shown,
         EnteringIn(req'[c], ans[c]) => ui'[c].enter \in Names
  PROVE  Types' /\ Took(c, a)
<1>1. /\ Defined /\ ans[c] # <<>> /\ a = Head(ans[c])
      /\ ans' = [ans EXCEPT ![c] = Tail(@)]
      /\ UNCHANGED <<fs, clicks, undef, deleted, hasty, cut, stale, wrong>>
  BY DEF Takes
<1>2. ans[c] \in Seq(Responses) /\ ans = [u \in Users |-> ans[u]]
  BY ClientParts DEF Shapes
<1>3. ans'[c] = Tail(ans[c]) /\ \A u \in Users \ {c} : ans'[u] = ans[u]
  BY <1>1, <1>2
<1>4. a \in Responses /\ ans'[c] \in Seq(Responses)
  BY <1>1, <1>2, <1>3, Shrunk
<1>5. Marks(c)
  BY <1>1 DEF Marks
<1>6. Local(c)
  BY <1>1, <1>3, <1>5 DEF Local
<1>7. EnteringIn(req'[c], ans'[c]) => ui'[c].enter \in Names
  BY <1>1, <1>2, <1>3, LessEntering
<1>8. Client(c, req'[c], ans'[c], box'[c], ui'[c])
  BY <1>4, <1>7 DEF Client
<1>9. undef' \in {"no", "missing", "unset"}
  BY <1>1 DEF Types
<1> QED
  BY <1>1, <1>3, <1>4, <1>6, <1>8, <1>9, LocalTypes DEF Took

LEMMA TakeChangedIs ==
  ASSUME Types, NEW c \in Users, TakeChanged(c)
  PROVE  \E a : /\ Types' /\ Took(c, a) /\ a.kind = "changed" /\ box' = box
                /\ IF a.ok THEN /\ req'[c] = Append(req[c], ListRequest(ui[c].cur))
                                /\ Mixes(c, ListRequest(ui[c].cur)) /\ ui'[c] = Off(ui[c])
                   ELSE req' = req /\ ui' = ui
<1>1. PICK a : /\ a.kind = "changed" /\ Takes(c, a) /\ box' = box
               /\ IF a.ok THEN FlushFile(c, ui[c]) ELSE UNCHANGED <<ui, req, mixed>>
  BY DEF TakeChanged
<1>2. /\ req[c] \in Seq(Requests(c)) /\ ans[c] \in Seq(Responses) /\ box[c] \in Seq(Boxes)
      /\ ui[c] \in Panels(c)
      /\ ui[c].item = NoName \/ ui[c].item \in DOMAIN ui[c].shown
      /\ EnteringIn(req[c], ans[c]) => ui[c].enter \in Names
      /\ \A i \in DOMAIN req[c] : req[c][i].kind = "rename" => SameDir(req[c][i])
      /\ Shapes
  BY ClientParts
<1>3. ans' = [u \in Users |-> ans'[u]]
  BY <1>1, <1>2 DEF Takes, Shapes
<1>4. CASE a.ok
  <2>1. FlushFile(c, ui[c])
    BY <1>1, <1>4
  <2>2. PICK r : r = ListRequest(ui[c].cur)
    OBVIOUS
  <2>3. r.kind = "list"
    BY <2>2 DEF ListRequest
  <2>4. /\ ui' = [u \in Users |-> ui'[u]] /\ \A u \in Users \ {c} : ui'[u] = ui[u]
        /\ ui'[c] = Off(ui[c]) /\ Off(ui[c]) \in Panels(c)
        /\ Off(ui[c]).enter = ui[c].enter /\ Off(ui[c]).shown = ui[c].shown /\ Off(ui[c]).item = ui[c].item
        /\ r \in Requests(c) /\ Sends(c, r)
    BY <1>2, <2>1, <2>2, FlushIs
  <2>5. /\ req' = [u \in Users |-> req'[u]]
        /\ req'[c] = Append(req[c], r) /\ \A u \in Users \ {c} : req'[u] = req[u]
        /\ mixed \subseteq mixed' /\ mixed' \subseteq mixed \cup {c} /\ Mixes(c, r)
    BY <2>4, SendsIs
  <2>6. /\ req'[c] \in Seq(Requests(c))
        /\ \A i \in DOMAIN req'[c] : req'[c][i].kind = "rename" => SameDir(req'[c][i])
    BY <2>3, <2>4, <2>5, SentTypes
  <2>7. Shapes'
    BY <1>1, <1>2, <1>3, <2>4, <2>5 DEF Shapes
  <2>8. EnteringIn(req'[c], ans[c]) => ui'[c].enter \in Names
    BY <1>2, <2>3, <2>4, <2>5, EnteringAfter
  <2>9. Types' /\ Took(c, a)
    BY <1>1, <1>2, <2>4, <2>5, <2>6, <2>7, <2>8, TookStep
  <2> QED
    BY <1>1, <1>4, <2>2, <2>4, <2>5, <2>9
<1>5. CASE ~a.ok
  <2>1. UNCHANGED <<ui, req, mixed>>
    BY <1>1, <1>5
  <2>2. Shapes'
    BY <1>1, <1>2, <1>3, <2>1 DEF Shapes
  <2>3. Types' /\ Took(c, a)
    BY <1>1, <1>2, <2>1, <2>2, TookStep
  <2> QED
    BY <1>1, <1>5, <2>1, <2>3
<1> QED
  BY <1>4, <1>5

LEMMA TakeListIs ==
  ASSUME Types, NEW c \in Users, TakeList(c)
  PROVE  \E a : /\ Types' /\ Took(c, a) /\ a.kind = "list" /\ box' = box /\ req' = req
                /\ ui'[c].cur = ui[c].cur /\ ui'[c].enter = ui[c].enter /\ ui'[c].shown = a.list
                /\ ui'[c].item = NoName /\ ui'[c].fileOn = ui[c].fileOn
                /\ ui'[c].moving = ui[c].moving /\ ui'[c].sharing = ui[c].sharing
<1>1. PICK a : /\ a.kind = "list" /\ Takes(c, a) /\ UNCHANGED <<req, mixed, box>>
               /\ ui' = [ui EXCEPT ![c] = [ui[c] EXCEPT !.shown = a.list, !.item = NoName]]
  BY DEF TakeList, UpdateFileList
<1>2. /\ req[c] \in Seq(Requests(c)) /\ ans[c] \in Seq(Responses) /\ box[c] \in Seq(Boxes)
      /\ ui[c] \in Panels(c)
      /\ EnteringIn(req[c], ans[c]) => ui[c].enter \in Names
      /\ \A i \in DOMAIN req[c] : req[c][i].kind = "rename" => SameDir(req[c][i])
      /\ Shapes
  BY ClientParts
<1>3. a.list \in Lists
  <2>1. a \in Responses
    BY <1>1, <1>2, Shrunk DEF Takes
  <2> QED
    BY <1>1, <2>1, AnswerFields
<1>4. /\ ui' = [u \in Users |-> ui'[u]] /\ \A u \in Users \ {c} : ui'[u] = ui[u]
      /\ ui'[c] = [ui[c] EXCEPT !.shown = a.list, !.item = NoName]
  BY <1>1, <1>2 DEF Shapes
<1>5. /\ ui'[c] \in Panels(c)
      /\ ui'[c].cur = ui[c].cur /\ ui'[c].enter = ui[c].enter /\ ui'[c].shown = a.list
      /\ ui'[c].item = NoName /\ ui'[c].fileOn = ui[c].fileOn
      /\ ui'[c].moving = ui[c].moving /\ ui'[c].sharing = ui[c].sharing
  BY <1>2, <1>3, <1>4 DEF Panels
<1>6. Shapes'
  BY <1>1, <1>2, <1>4 DEF Takes, Shapes
<1>7. Types' /\ Took(c, a)
  BY <1>1, <1>2, <1>4, <1>5, <1>6, TookStep
<1> QED
  BY <1>1, <1>5, <1>7

LEMMA TakeEnteredIs ==
  ASSUME Types, NEW c \in Users, TakeEntered(c)
  PROVE  \E a : /\ Types' /\ Took(c, a) /\ a.kind = "entered" /\ box' = box /\ req' = req
                /\ IF a.ok
                   THEN /\ ui'[c].cur = Append(ui[c].cur, ui[c].enter) /\ ui'[c].enter = ui[c].enter
                        /\ ui'[c].shown = a.list /\ ui'[c].item = NoName /\ ui'[c].fileOn = ui[c].fileOn
                        /\ ui'[c].moving = ui[c].moving /\ ui'[c].sharing = ui[c].sharing
                   ELSE ui' = ui
<1>1. PICK a : a.kind = "entered" /\ Takes(c, a) /\ Entered(c, a) /\ UNCHANGED <<req, mixed, box>>
  BY DEF TakeEntered
<1>2. /\ req[c] \in Seq(Requests(c)) /\ ans[c] \in Seq(Responses) /\ box[c] \in Seq(Boxes)
      /\ ui[c] \in Panels(c)
      /\ ui[c].item = NoName \/ ui[c].item \in DOMAIN ui[c].shown
      /\ EnteringIn(req[c], ans[c]) => ui[c].enter \in Names
      /\ \A i \in DOMAIN req[c] : req[c][i].kind = "rename" => SameDir(req[c][i])
      /\ Shapes
  BY ClientParts
<1>3. a \in Responses /\ ans[c][1] = a /\ 1 \in DOMAIN ans[c]
  BY <1>1, <1>2, Shrunk DEF Takes
<1>4. ui[c].enter \in Names
  BY <1>1, <1>2, <1>3 DEF EnteringIn
<1>5. CASE a.ok
  <2>1. a.list \in Lists
    BY <1>1, <1>3, <1>5, AnswerFields
  <2>2. PICK p : p = [ui[c] EXCEPT !.cur = Append(@, ui[c].enter)]
    OBVIOUS
  <2>3. ui' = [ui EXCEPT ![c] = [p EXCEPT !.shown = a.list, !.item = NoName]]
    BY <1>1, <1>5, <2>2 DEF Entered, UpdateFileList
  <2>4. /\ ui' = [u \in Users |-> ui'[u]] /\ \A u \in Users \ {c} : ui'[u] = ui[u]
        /\ ui'[c] = [p EXCEPT !.shown = a.list, !.item = NoName]
    BY <1>2, <2>3 DEF Shapes
  <2>5. Append(ui[c].cur, ui[c].enter) \in Paths(c)
    BY <1>2, <1>4, PanelFields, LongerPath
  <2>6. /\ p \in Panels(c) /\ p.cur = Append(ui[c].cur, ui[c].enter) /\ p.enter = ui[c].enter
        /\ p.fileOn = ui[c].fileOn /\ p.moving = ui[c].moving /\ p.sharing = ui[c].sharing
    BY <1>2, <2>2, <2>5 DEF Panels
  <2>7. /\ ui'[c] \in Panels(c)
        /\ ui'[c].cur = Append(ui[c].cur, ui[c].enter) /\ ui'[c].enter = ui[c].enter
        /\ ui'[c].shown = a.list /\ ui'[c].item = NoName /\ ui'[c].fileOn = ui[c].fileOn
        /\ ui'[c].moving = ui[c].moving /\ ui'[c].sharing = ui[c].sharing
    BY <2>1, <2>4, <2>6 DEF Panels
  <2>8. Shapes'
    BY <1>1, <1>2, <2>4 DEF Takes, Shapes
  <2>9. Types' /\ Took(c, a)
    BY <1>1, <1>2, <1>4, <2>4, <2>7, <2>8, TookStep
  <2> QED
    BY <1>1, <1>5, <2>7, <2>9
<1>6. CASE ~a.ok
  <2>1. ui' = ui
    BY <1>1, <1>6 DEF Entered
  <2>2. Shapes'
    BY <1>1, <1>2, <2>1 DEF Takes, Shapes
  <2>3. Types' /\ Took(c, a)
    BY <1>1, <1>2, <2>1, <2>2, TookStep
  <2> QED
    BY <1>1, <1>6, <2>1, <2>3
<1> QED
  BY <1>5, <1>6

LEMMA TakeBoxIs ==
  ASSUME Types, NEW c \in Users, TakeBox(c)
  PROVE  \E a : /\ Types' /\ Took(c, a) /\ a.kind \in {"told", "note"} /\ a \in Boxes
                /\ req' = req /\ ui' = ui
                /\ box'[c] = <<a>> \o box[c]
<1>1. PICK a : a.kind \in {"told", "note"} /\ Takes(c, a) /\ UNCHANGED <<ui, req, mixed>>
               /\ box' = [box EXCEPT ![c] = <<a>> \o @]
  BY DEF TakeBox
<1>2. /\ req[c] \in Seq(Requests(c)) /\ ans[c] \in Seq(Responses) /\ box[c] \in Seq(Boxes)
      /\ ui[c] \in Panels(c)
      /\ ui[c].item = NoName \/ ui[c].item \in DOMAIN ui[c].shown
      /\ EnteringIn(req[c], ans[c]) => ui[c].enter \in Names
      /\ \A i \in DOMAIN req[c] : req[c][i].kind = "rename" => SameDir(req[c][i])
      /\ Shapes
  BY ClientParts
<1>3. a \in Responses
  BY <1>1, <1>2, Shrunk DEF Takes
<1>4. a \in Boxes
  BY <1>1, <1>3, AnswerFields
<1>5. /\ box' = [u \in Users |-> box'[u]] /\ \A u \in Users \ {c} : box'[u] = box[u]
      /\ box'[c] = <<a>> \o box[c]
  BY <1>1, <1>2 DEF Shapes
<1>6. box'[c] \in Seq(Boxes)
  BY <1>2, <1>4, <1>5, Pushed
<1>7. Shapes'
  BY <1>1, <1>2, <1>5 DEF Takes, Shapes
<1>8. Types' /\ Took(c, a)
  BY <1>1, <1>2, <1>5, <1>6, <1>7, TookStep
<1> QED
  BY <1>1, <1>4, <1>5, <1>8

\* A box of c is closed, and r is sent.
Closed(c, b, r) ==
  /\ Local(c) /\ box[c] # <<>> /\ b = Head(box[c]) /\ b \in Boxes
  /\ r \in Requests(c) /\ Mixes(c, r)
  /\ box'[c] = Tail(box[c]) /\ ans' = ans /\ req'[c] = Append(req[c], r)
  /\ UNCHANGED <<undef, hasty, cut, stale>>

LEMMA ClosedStep ==
  ASSUME Types, NEW c \in Users, NEW kind, Closes(c, kind), NEW r \in Requests(c), Sends(c, r),
         r.kind \notin {"enter", "rename"},
         ui' = [u \in Users |-> ui'[u]], \A u \in Users \ {c} : ui'[u] = ui[u],
         ui'[c] \in Panels(c), ui'[c].item = NoName \/ ui'[c].item \in DOMAIN ui'[c].shown,
         ui'[c].enter = ui[c].enter
  PROVE  Types' /\ Closed(c, Head(box[c]), r)
<1>1. /\ Defined /\ box[c] # <<>>
      /\ box' = [box EXCEPT ![c] = Tail(@)]
      /\ UNCHANGED <<fs, ans, clicks, undef, deleted, hasty, cut, stale, wrong>>
  BY DEF Closes
<1>2. /\ req[c] \in Seq(Requests(c)) /\ ans[c] \in Seq(Responses) /\ box[c] \in Seq(Boxes)
      /\ EnteringIn(req[c], ans[c]) => ui[c].enter \in Names
      /\ Shapes
  BY ClientParts
<1>3. /\ box' = [u \in Users |-> box'[u]] /\ box'[c] = Tail(box[c])
      /\ \A u \in Users \ {c} : box'[u] = box[u]
  BY <1>1, <1>2 DEF Shapes
<1>4. Head(box[c]) \in Boxes /\ box'[c] \in Seq(Boxes)
  BY <1>1, <1>2, <1>3, Shrunk
<1>5. /\ req' = [u \in Users |-> req'[u]]
      /\ req'[c] = Append(req[c], r) /\ \A u \in Users \ {c} : req'[u] = req[u]
      /\ mixed \subseteq mixed' /\ mixed' \subseteq mixed \cup {c} /\ Mixes(c, r)
  BY SendsIs
<1>6. Shapes' /\ Marks(c)
  BY <1>1, <1>2, <1>3, <1>5 DEF Shapes, Marks
<1>7. Local(c)
  BY <1>1, <1>3, <1>5, <1>6 DEF Local
<1>8. Client(c, req'[c], ans'[c], box'[c], ui'[c])
  <2>1. /\ req'[c] \in Seq(Requests(c))
        /\ \A i \in DOMAIN req'[c] : req'[c][i].kind = "rename" => SameDir(req'[c][i])
    BY <1>5, SentTypes
  <2>2. EnteringIn(req'[c], ans'[c]) => ui'[c].enter \in Names
    BY <1>1, <1>2, <1>5, EnteringAfter
  <2> QED
    BY <1>1, <1>2, <1>4, <2>1, <2>2 DEF Client
<1>9. undef' \in {"no", "missing", "unset"}
  BY <1>1 DEF Types
<1> QED
  BY <1>1, <1>3, <1>4, <1>5, <1>7, <1>8, <1>9, LocalTypes DEF Closed

LEMMA CloseToldIs ==
  ASSUME Types, NEW c \in Users, CloseTold(c)
  PROVE  /\ Types' /\ Closed(c, Head(box[c]), ListRequest(ui[c].cur))
         /\ Head(box[c]).kind = "told" /\ ui'[c] = Off(ui[c])
<1>1. Closes(c, "told") /\ FlushFile(c, ui[c]) /\ Head(box[c]).kind = "told"
  BY DEF CloseTold, Closes
<1>2. ui[c] \in Panels(c) /\ (ui[c].item = NoName \/ ui[c].item \in DOMAIN ui[c].shown)
  BY ClientParts
<1>3. PICK r : r = ListRequest(ui[c].cur)
  OBVIOUS
<1>4. /\ ui' = [u \in Users |-> ui'[u]] /\ \A u \in Users \ {c} : ui'[u] = ui[u]
      /\ ui'[c] = Off(ui[c]) /\ Off(ui[c]) \in Panels(c)
      /\ Off(ui[c]).enter = ui[c].enter /\ Off(ui[c]).shown = ui[c].shown /\ Off(ui[c]).item = ui[c].item
      /\ r \in Requests(c) /\ Sends(c, r)
  BY <1>1, <1>2, <1>3, FlushIs
<1>5. r.kind = "list"
  BY <1>3 DEF ListRequest
<1> QED
  BY <1>1, <1>2, <1>3, <1>4, <1>5, ClosedStep

LEMMA AnswerNoteIs ==
  ASSUME Types, NEW c \in Users, AnswerNote(c)
  PROVE  \E r : /\ Types' /\ Closed(c, Head(box[c]), r) /\ ui' = ui
                /\ Head(box[c]).kind = "note" /\ r.kind \in {"agree", "refuse"}
                /\ r.from = Head(box[c]).from /\ r.path = Head(box[c]).path
                /\ r.meant = Head(box[c]).meant
<1>1. PICK kind \in {"agree", "refuse"} :
        Closes(c, "note") /\ Sends(c, [Head(box[c]) EXCEPT !.kind = kind]) /\ ui' = ui
  BY DEF AnswerNote
<1>2. /\ box[c] \in Seq(Boxes) /\ ui[c] \in Panels(c) /\ Shapes
      /\ ui[c].item = NoName \/ ui[c].item \in DOMAIN ui[c].shown
  BY ClientParts
<1>3. box[c] # <<>> /\ Head(box[c]).kind = "note"
  BY <1>1 DEF Closes
<1>4. PICK b : b = Head(box[c])
  OBVIOUS
<1>5. b \in Notes
  BY <1>2, <1>3, <1>4, Shrunk, BoxFields
<1>6. PICK r : r = [b EXCEPT !.kind = kind]
  OBVIOUS
<1>7. /\ r \in Offers({"agree", "refuse"}) /\ r.kind = kind
      /\ r.from = b.from /\ r.path = b.path /\ r.meant = b.meant
  BY <1>5, <1>6, NoteFields
<1>8. r \in Requests(c)
  BY <1>7 DEF Requests
<1>9. Types' /\ Closed(c, Head(box[c]), r)
  <2>1. r.kind \notin {"enter", "rename"}
    BY <1>7
  <2>2. Sends(c, r)
    BY <1>1, <1>4, <1>6
  <2> QED
    BY <1>1, <1>2, <1>8, <2>1, <2>2, ClosedStep DEF Shapes
<1> QED
  BY <1>1, <1>3, <1>4, <1>7, <1>9

-----------------------------------------------------------------------------
(* The steps of the server.                                                *)

\* The request r of c is served, and tell says who is told what.
Served(c, r, tell) ==
  /\ Defined /\ req[c] # <<>> /\ r = Head(req[c]) /\ r = req[c][1] /\ r \in Requests(c)
  /\ req'[c] = Tail(req[c]) /\ \A u \in Users \ {c} : req'[u] = req[u]
  /\ \A u \in Users : ans'[u] = IF u \in DOMAIN tell THEN Append(ans[u], tell[u]) ELSE ans[u]
  /\ UNCHANGED <<ui, box, hasty, mixed, cut, stale>>

LEMMA ServedStep ==
  ASSUME Types, NEW c \in Users, NEW k, NEW r \in NextOf(c, k), NEW tell, Answers(c, tell),
         \A u \in Users \cap DOMAIN tell : tell[u] \in Responses,
         \A u \in Users \cap DOMAIN tell : tell[u].kind = "entered" => u = c /\ k = "enter",
         Disk(fs'), undef' \in {"no", "missing", "unset"}, wrong' \subseteq Users
  PROVE  Types' /\ Served(c, r, tell) /\ r.kind = k
<1>1. /\ Defined /\ req[c] # <<>> /\ r = Head(req[c]) /\ r.kind = k
      /\ req' = [req EXCEPT ![c] = Tail(@)]
      /\ ans' = [u \in Users |-> IF u \in DOMAIN tell THEN Append(ans[u], tell[u]) ELSE ans[u]]
      /\ UNCHANGED <<ui, box, clicks, hasty, mixed, cut, stale>>
  BY DEF NextOf, Answers, panels
<1>2. req[c] \in Seq(Requests(c)) /\ Shapes
  BY ClientParts
<1>3. r = req[c][1] /\ r \in Requests(c) /\ 1 \in DOMAIN req[c]
  BY <1>1, <1>2, Shrunk
<1>4. /\ req' = [u \in Users |-> req'[u]] /\ req'[c] = Tail(req[c])
      /\ \A u \in Users \ {c} : req'[u] = req[u]
  BY <1>1, <1>2 DEF Shapes
<1>5. Served(c, r, tell)
  BY <1>1, <1>3, <1>4 DEF Served
<1>6. ASSUME NEW u \in Users PROVE Client(u, req'[u], ans'[u], box'[u], ui'[u])
  <2>1. /\ req[u] \in Seq(Requests(u)) /\ ans[u] \in Seq(Responses) /\ box[u] \in Seq(Boxes)
        /\ ui[u] \in Panels(u)
        /\ ui[u].item = NoName \/ ui[u].item \in DOMAIN ui[u].shown
        /\ EnteringIn(req[u], ans[u]) => ui[u].enter \in Names
        /\ \A i \in DOMAIN req[u] : req[u][i].kind = "rename" => SameDir(req[u][i])
    BY ClientParts
  <2>2. /\ req'[u] \in Seq(Requests(u))
        /\ \A i \in DOMAIN req'[u] : \E j \in DOMAIN req[u] : req'[u][i] = req[u][j]
    <3>1. CASE u = c
      <4>1. req'[u] = Tail(req[u]) /\ req[u] # <<>>
        BY <1>1, <1>4, <3>1
      <4> QED
        BY <2>1, <4>1, Shrunk
    <3>2. CASE u # c
      BY <1>4, <2>1, <3>2
    <3> QED
      BY <3>1, <3>2
  <2>3. CASE u \in DOMAIN tell
    <3>1. ans'[u] = Append(ans[u], tell[u]) /\ tell[u] \in Responses
      BY <1>1, <2>3
    <3>2. /\ ans'[u] \in Seq(Responses)
          /\ \A i \in DOMAIN ans'[u] : (i \in DOMAIN ans[u] /\ ans'[u][i] = ans[u][i])
                                       \/ (i = Len(ans[u]) + 1 /\ ans'[u][i] = tell[u])
      BY <2>1, <3>1, Grown
    <3>3. tell[u].kind = "entered" => \E i \in DOMAIN req[u] : req[u][i].kind = "enter"
      BY <1>1, <1>3, <2>3
    <3>4. EnteringIn(req'[u], ans'[u]) => EnteringIn(req[u], ans[u])
      BY <2>2, <3>2, <3>3 DEF EnteringIn
    <3> QED
      BY <1>1, <2>1, <2>2, <3>2, <3>4 DEF Client
  <2>4. CASE u \notin DOMAIN tell
    <3>1. ans'[u] = ans[u]
      BY <1>1, <2>4
    <3>2. EnteringIn(req'[u], ans'[u]) => EnteringIn(req[u], ans[u])
      BY <2>2, <3>1 DEF EnteringIn
    <3> QED
      BY <1>1, <2>1, <2>2, <3>1, <3>2 DEF Client
  <2> QED
    BY <2>3, <2>4
<1>7. Types'
  <2>1. Disk(fs)'
    BY DEF Disk, IsTree
  <2>2. \A u \in Users : Client(u, req[u], ans[u], box[u], ui[u])'
    BY <1>6
  <2>3. Shapes'
    BY <1>1, <1>2, <1>4 DEF Shapes
  <2> QED
    BY <1>1, <2>1, <2>2, <2>3 DEF Types, Shapes
<1> QED
  BY <1>1, <1>5, <1>7

LEMMA ToIs ==
  ASSUME NEW c, NEW x
  PROVE  DOMAIN To(c, x) = {c} /\ To(c, x)[c] = x
  BY DEF To

LEMMA NobodyTold == DOMAIN <<>> = {}
  OBVIOUS

LEMMA NewAnswers ==
  /\ Told \in Responses /\ Told.kind = "told"
  /\ \A b \in BOOLEAN : Changed(b) \in Responses /\ Changed(b).kind = "changed" /\ Changed(b).ok = b
  /\ \A l \in Lists : /\ [kind |-> "list", list |-> l] \in Responses
                      /\ [kind |-> "entered", ok |-> TRUE, list |-> l] \in Responses
  /\ [kind |-> "entered", ok |-> FALSE] \in Responses
  BY DEF Told, Changed, Responses

LEMMA NextOfIs ==
  ASSUME Types, NEW c \in Users, NEW k, NEW r \in NextOf(c, k)
  PROVE  /\ r.kind = k /\ r \in Requests(c) /\ Defined /\ req[c] # <<>>
         /\ r = req[c][1] /\ 1 \in DOMAIN req[c]
         /\ r.kind = "rename" => SameDir(r)
<1>1. Defined /\ req[c] # <<>> /\ r = Head(req[c]) /\ r.kind = k
  BY DEF NextOf
<1>2. /\ req[c] \in Seq(Requests(c))
      /\ \A i \in DOMAIN req[c] : req[c][i].kind = "rename" => SameDir(req[c][i])
  BY ClientParts
<1>3. r = req[c][1] /\ 1 \in DOMAIN req[c] /\ r \in Requests(c)
  BY <1>1, <1>2, Shrunk
<1> QED
  BY <1>1, <1>2, <1>3

\* Nothing goes, and what comes is below the root of c.
Grows(c, f, g) ==
  IsTree(g) /\ OnlyIn(c, f, g) /\ \A p \in DOMAIN f : p \in DOMAIN g /\ g[p] = f[p]

LEMMA GrowsNot ==
  ASSUME NEW c, NEW f, IsTree(f)
  PROVE  Grows(c, f, f)
  BY DEF Grows, OnlyIn

LEMMA InAnswers ==
  ASSUME NEW c \in Users, NEW x \in Responses
  PROVE  /\ \A u \in Users \cap DOMAIN To(c, x) : To(c, x)[u] \in Responses
         /\ x.kind # "entered" => \A u \in Users \cap DOMAIN To(c, x) : To(c, x)[u].kind # "entered"
         /\ \A u \in Users \cap DOMAIN To(c, x) : u = c
<1>1. PICK t : t = To(c, x)
  OBVIOUS
<1>2. DOMAIN t = {c} /\ t[c] = x
  BY <1>1, ToIs
<1> QED
  BY <1>1, <1>2

LEMMA ServeListIs ==
  ASSUME Types, NEW c \in Users, ServeList(c)
  PROVE  \E r : /\ Types' /\ r.kind = "list" /\ fs' = fs /\ wrong' = wrong /\ deleted' = deleted
                /\ IF DirIn(fs, r.path)
                   THEN Served(c, r, To(c, [kind |-> "list", list |-> ListOf(fs, r.path)])) /\ undef' = undef
                   ELSE Served(c, r, <<>>) /\ undef' = "missing"
<1>1. PICK r \in NextOf(c, "list") :
        /\ IF IsDir(r.path)
           THEN Answers(c, To(c, [kind |-> "list", list |-> Listing(r.path)])) /\ undef' = undef
           ELSE Answers(c, <<>>) /\ undef' = "missing"
        /\ UNCHANGED <<fs, deleted, wrong>>
  BY DEF ServeList
<1>2. Disk(fs') /\ Disk(fs) /\ wrong' \subseteq Users /\ undef \in {"no", "missing", "unset"}
  BY <1>1 DEF Types
<1>3. CASE DirIn(fs, r.path)
  <2>1. PICK a : a = [kind |-> "list", list |-> ListOf(fs, r.path)]
    OBVIOUS
  <2>2. Answers(c, To(c, a)) /\ undef' = undef
    BY <1>1, <1>3, <2>1, ListingIs DEF IsDir, DirIn
  <2>3. a \in Responses /\ a.kind = "list"
    BY <1>2, <1>3, <2>1, Listed, NewAnswers DEF DirIn
  <2>4. Types' /\ Served(c, r, To(c, a)) /\ r.kind = "list"
    <3>1. undef' \in {"no", "missing", "unset"}
      BY <1>2, <2>2
    <3>2. /\ \A u \in Users \cap DOMAIN To(c, a) : To(c, a)[u] \in Responses
          /\ \A u \in Users \cap DOMAIN To(c, a) : To(c, a)[u].kind # "entered"
      BY <2>3, InAnswers
    <3> QED
      BY <1>2, <2>2, <3>1, <3>2, ServedStep
  <2> QED
    BY <1>1, <1>3, <2>1, <2>2, <2>4
<1>4. CASE ~DirIn(fs, r.path)
  <2>1. Answers(c, <<>>) /\ undef' = "missing"
    BY <1>1, <1>4 DEF IsDir, DirIn
  <2>2. Types' /\ Served(c, r, <<>>) /\ r.kind = "list"
    BY <1>2, <2>1, NobodyTold, ServedStep
  <2> QED
    BY <1>1, <1>4, <2>1, <2>2
<1> QED
  BY <1>3, <1>4

LEMMA ServeEnterIs ==
  ASSUME Types, NEW c \in Users, ServeEnter(c)
  PROVE  \E r : /\ Types' /\ r.kind = "enter" /\ fs' = fs /\ wrong' = wrong /\ deleted' = deleted
                /\ IF r.path \in DOMAIN fs
                   THEN /\ undef' = undef
                        /\ \E a : /\ Served(c, r, To(c, a)) /\ a \in Responses /\ a.kind = "entered"
                                  /\ a.ok <=> DirIn(fs, r.path)
                                  /\ a.ok => a.list = ListOf(fs, r.path)
                   ELSE Served(c, r, <<>>) /\ undef' = "missing"
<1>1. PICK r \in NextOf(c, "enter") :
        /\ CASE IsDir(r.path) ->
                  Answers(c, To(c, [kind |-> "entered", ok |-> TRUE, list |-> Listing(r.path)]))
             [] IsFile(r.path) -> Answers(c, To(c, [kind |-> "entered", ok |-> FALSE]))
             [] OTHER -> Answers(c, <<>>)
        /\ undef' = IF r.path \in DOMAIN fs THEN "no" ELSE "missing"
        /\ UNCHANGED <<fs, deleted, wrong>>
  BY DEF ServeEnter
<1>2. Disk(fs') /\ Disk(fs) /\ wrong' \subseteq Users /\ undef' \in {"no", "missing", "unset"}
  BY <1>1 DEF Types
<1>3. Defined
  BY NextOfIs
<1>4. CASE r.path \in DOMAIN fs
  <2>1. undef' = undef
    BY <1>1, <1>3, <1>4 DEF Defined
  <2>2. ASSUME NEW a \in Responses, a.kind = "entered", Answers(c, To(c, a))
        PROVE  Types' /\ Served(c, r, To(c, a)) /\ r.kind = "enter"
    <3>1. /\ \A u \in Users \cap DOMAIN To(c, a) : To(c, a)[u] \in Responses
          /\ \A u \in Users \cap DOMAIN To(c, a) : u = c
      BY InAnswers
    <3> QED
      BY <1>2, <2>2, <3>1, ServedStep
  <2>3. CASE DirIn(fs, r.path)
    <3>1. PICK a : a = [kind |-> "entered", ok |-> TRUE, list |-> ListOf(fs, r.path)]
      OBVIOUS
    <3>2. Answers(c, To(c, a))
      <4>1. IsDir(r.path) /\ ~IsFile(r.path)
        BY <2>3 DEF IsDir, IsFile, DirIn
      <4> QED
        BY <1>1, <3>1, <4>1, ListingIs
    <3>3. a \in Responses /\ a.kind = "entered" /\ a.ok = TRUE /\ a.list = ListOf(fs, r.path)
      BY <1>2, <2>3, <3>1, Listed, NewAnswers DEF DirIn
    <3> QED
      BY <1>1, <1>4, <2>1, <2>2, <2>3, <3>2, <3>3
  <2>4. CASE ~DirIn(fs, r.path)
    <3>1. PICK a : a = [kind |-> "entered", ok |-> FALSE]
      OBVIOUS
    <3>2. Answers(c, To(c, a))
      <4>1. ~IsDir(r.path) /\ IsFile(r.path)
        BY <1>4, <2>4 DEF IsDir, IsFile, DirIn
      <4> QED
        BY <1>1, <3>1, <4>1
    <3>3. a \in Responses /\ a.kind = "entered" /\ a.ok = FALSE
      BY <3>1, NewAnswers
    <3> QED
      BY <1>1, <1>4, <2>1, <2>2, <2>4, <3>2, <3>3
  <2> QED
    BY <2>3, <2>4
<1>5. CASE r.path \notin DOMAIN fs
  <2>1. Answers(c, <<>>) /\ undef' = "missing"
    <3>1. ~IsDir(r.path) /\ ~IsFile(r.path)
      BY <1>5 DEF IsDir, IsFile
    <3> QED
      BY <1>1, <1>5, <3>1
  <2>2. Types' /\ Served(c, r, <<>>) /\ r.kind = "enter"
    BY <1>2, <2>1, NobodyTold, ServedStep
  <2> QED
    BY <1>1, <1>5, <2>1, <2>2
<1> QED
  BY <1>4, <1>5

LEMMA ServeCreateIs ==
  ASSUME Types, NEW c \in Users, ServeCreate(c)
  PROVE  \E r : /\ Types' /\ r.kind = "create" /\ Grows(c, fs, fs')
                /\ Served(c, r, To(c, Changed(TRUE)))
                /\ wrong' = wrong /\ deleted' = deleted /\ undef' = undef
<1>1. PICK r \in NextOf(c, "create") :
        /\ LET new == Append(r.path, r.name)
           IN fs' = IF IsDir(r.path) /\ new \notin DOMAIN fs
                    THEN [q \in DOMAIN fs \cup {new} |-> IF q = new THEN Dir ELSE fs[q]]
                    ELSE fs
        /\ Answers(c, To(c, Changed(TRUE)))
        /\ UNCHANGED <<undef, deleted, wrong>>
  BY DEF ServeCreate
<1>2. r.kind = "create" /\ r.path \in Paths(c) /\ r.name \in Names
  BY NextOfIs, RequestFields
<1>3. Disk(fs) /\ IsTree(fs) /\ Dir \in Values
  BY DEF Types, Disk, Values
<1>4. Grows(c, fs, fs') /\ Disk(fs')
  <2>1. PICK new : new = Append(r.path, r.name)
    OBVIOUS
  <2>2. CASE IsDir(r.path) /\ new \notin DOMAIN fs
    <3>1. r.path \in DOMAIN fs /\ fs[r.path] = Dir
      BY <2>2 DEF IsDir
    <3>2. r.path # <<>> /\ Len(r.path) \in Nat \ {0}
      BY <1>3, <3>1, TreePath, EmptySeq
    <3>3. new \in Inner(c) /\ Len(new) = Len(r.path) + 1 /\ SubSeq(new, 1, Len(new) - 1) = r.path
      BY <1>2, <2>1, <3>2, LongerPath
    <3>4. Len(new) > 1
      BY <3>2, <3>3
    <3>5. fs' = [q \in DOMAIN fs \cup {new} |-> IF q = new THEN Dir ELSE fs[q]]
      BY <1>1, <2>1, <2>2
    <3>6. PICK g : g = fs'
      OBVIOUS
    <3>7. Grows(c, fs, g)
      <4>1. g = [q \in DOMAIN fs \cup {new} |-> IF q = new THEN Dir ELSE fs[q]]
        BY <3>5, <3>6
      <4>2. SubSeq(new, 1, Len(new) - 1) \in DOMAIN fs /\ fs[SubSeq(new, 1, Len(new) - 1)] = Dir
        BY <3>1, <3>3
      <4>3. new \notin DOMAIN fs
        BY <2>2
      <4>4. IsFun(g) /\ DOMAIN g = DOMAIN fs \cup {new} /\ \A p \in DOMAIN fs : g[p] = fs[p]
        BY <4>1, <4>3 DEF IsFun
      <4>6. /\ IsTree(g) /\ OnlyIn(c, fs, g)
            /\ \A p \in DOMAIN fs : p \in DOMAIN g /\ g[p] = fs[p]
        BY <1>3, <3>3, <3>4, <4>2, <4>3, <4>4, GrowTree
      <4> QED
        BY <4>6 DEF Grows
    <3>8. \A p \in DOMAIN g : g[p] \in Values
      BY <1>3, <3>5, <3>6 DEF Disk
    <3> QED
      BY <3>6, <3>7, <3>8 DEF Disk, Grows
  <2>3. CASE ~(IsDir(r.path) /\ new \notin DOMAIN fs)
    <3>1. fs' = fs
      BY <1>1, <2>1, <2>3
    <3> QED
      BY <1>3, <3>1, GrowsNot
  <2> QED
    BY <2>2, <2>3
<1>5. Types' /\ Served(c, r, To(c, Changed(TRUE)))
  <2>1. Changed(TRUE) \in Responses /\ Changed(TRUE).kind = "changed"
    BY NewAnswers
  <2>2. /\ \A u \in Users \cap DOMAIN To(c, Changed(TRUE)) : To(c, Changed(TRUE))[u] \in Responses
        /\ \A u \in Users \cap DOMAIN To(c, Changed(TRUE)) : To(c, Changed(TRUE))[u].kind # "entered"
    BY <2>1, InAnswers
  <2>3. wrong' \subseteq Users /\ undef' \in {"no", "missing", "unset"}
    BY <1>1 DEF Types
  <2> QED
    BY <1>1, <1>4, <2>2, <2>3, ServedStep
<1> QED
  BY <1>1, <1>2, <1>4, <1>5

LEMMA MeetsIs ==
  ASSUME Types, NEW c, NEW r, NEW who \in Users, Meets(c, r, who)
  PROVE  /\ wrong' \subseteq Users /\ wrong' \subseteq wrong \cup {who}
         /\ Holds(fs, r.path, r.meant) \/ r.path \notin DOMAIN fs => wrong' = wrong
  BY DEF Meets, Types, At, Holds

LEMMA ServeDeleteIs ==
  ASSUME Types, NEW c \in Users, ServeDelete(c)
  PROVE  \E r : /\ Types' /\ r.kind = "delete" /\ IsTree(fs') /\ OnlyIn(c, fs, fs')
                /\ r.path \notin DOMAIN fs => fs' = fs
                /\ \A q \in DOMAIN fs : (q \in DOMAIN fs' /\ fs'[q] = fs[q]) \/ IsPrefix(r.path, q)
                /\ Served(c, r, To(c, Changed(r.path \in DOMAIN fs)))
                /\ deleted' = deleted \cup Contents(Below(r.path))
                /\ Meets(c, r, c) /\ undef' = undef
<1>1. PICK r \in NextOf(c, "delete") :
        /\ fs' = [q \in DOMAIN fs \ Below(r.path) |-> fs[q]]
        /\ deleted' = deleted \cup Contents(Below(r.path))
        /\ Meets(c, r, c)
        /\ Answers(c, To(c, Changed(r.path \in DOMAIN fs)))
        /\ undef' = undef
  BY DEF ServeDelete
<1>2. r.kind = "delete" /\ r.path \in Inner(c)
  BY NextOfIs, RequestFields
<1>3. Disk(fs) /\ IsTree(fs)
  BY DEF Types, Disk
<1>4. PICK g : g = fs'
  OBVIOUS
<1>5. IsFun(g) /\ DOMAIN g = DOMAIN fs \ {q \in DOMAIN fs : IsPrefix(r.path, q)}
      /\ \A q \in DOMAIN g : g[q] = fs[q]
  BY <1>1, <1>4 DEF IsFun, Below
<1>6. /\ IsTree(g) /\ OnlyIn(c, fs, g)
      /\ \A q \in DOMAIN fs : q \in DOMAIN g \/ IsPrefix(r.path, q)
      /\ r.path \notin DOMAIN fs => g = fs
  BY <1>2, <1>3, <1>5, CutTree
<1>7. Disk(g)
  BY <1>3, <1>5, <1>6 DEF Disk
<1>8. \A q \in DOMAIN fs : (q \in DOMAIN g /\ g[q] = fs[q]) \/ IsPrefix(r.path, q)
  BY <1>5, <1>6
<1>9. Types' /\ Served(c, r, To(c, Changed(r.path \in DOMAIN fs)))
  <2>1. PICK x : x = Changed(r.path \in DOMAIN fs)
    OBVIOUS
  <2>2. x \in Responses /\ x.kind = "changed"
    <3>1. (r.path \in DOMAIN fs) \in BOOLEAN
      OBVIOUS
    <3> QED
      BY <2>1, <3>1, NewAnswers
  <2>3. /\ \A u \in Users \cap DOMAIN To(c, x) : To(c, x)[u] \in Responses
        /\ \A u \in Users \cap DOMAIN To(c, x) : To(c, x)[u].kind # "entered"
    BY <2>2, InAnswers
  <2>4. wrong' \subseteq Users /\ undef' \in {"no", "missing", "unset"}
    BY <1>1, MeetsIs DEF Types
  <2>5. Answers(c, To(c, x))
    BY <1>1, <2>1
  <2>6. Disk(fs')
    BY <1>4, <1>7
  <2>7. Types' /\ Served(c, r, To(c, x))
    BY <2>3, <2>4, <2>5, <2>6, ServedStep
  <2> QED
    BY <2>1, <2>7
<1> QED
  BY <1>1, <1>2, <1>4, <1>6, <1>8, <1>9

\* Everything that is not below p stays, and what is there goes where it belongs to c.
Moves(c, p, f, g) ==
  /\ IsTree(g) /\ OnlyIn(c, f, g) /\ Carried(f, g)
  /\ \A r \in DOMAIN f : ~IsPrefix(p, r) => r \in DOMAIN g /\ g[r] = f[r]

LEMMA MovesNot ==
  ASSUME NEW c, NEW p, NEW f, IsTree(f)
  PROVE  Moves(c, p, f, f)
  BY DEF Moves, OnlyIn, Carried

LEMMA MovesTree ==
  ASSUME Types, NEW c \in Users, NEW p, NEW q,
         p \in DOMAIN fs, p \in Inner(c), q \in Inner(c), Len(q) > 1, q \notin DOMAIN fs, ~IsPrefix(p, q),
         SubSeq(q, 1, Len(q) - 1) \in DOMAIN fs, fs[SubSeq(q, 1, Len(q) - 1)] = Dir
  PROVE  Moves(c, p, fs, Moved(p, q)) /\ Disk(Moved(p, q))
<1>1. IsTree(fs) /\ \A r \in DOMAIN fs : fs[r] \in Values
  BY DEF Types, Disk
<1>2. PICK g : g = Moved(p, q)
  OBVIOUS
<1>3. /\ IsTree(g) /\ OnlyIn(c, fs, g) /\ Carried(fs, g)
      /\ \A r \in DOMAIN fs : ~IsPrefix(p, r) => r \in DOMAIN g /\ g[r] = fs[r]
      /\ \A s \in DOMAIN g : \E r \in DOMAIN fs : g[s] = fs[r]
  BY <1>1, <1>2, MoveTree
<1>4. \A s \in DOMAIN g : g[s] \in Values
  BY <1>1, <1>3
<1> QED
  BY <1>2, <1>3, <1>4 DEF Moves, Disk

LEMMA ServeRenameIs ==
  ASSUME Types, NEW c \in Users, ServeRename(c)
  PROVE  \E r, ok : /\ Types' /\ r.kind = "rename" /\ ok \in BOOLEAN
                    /\ Moves(c, r.path, fs, fs') /\ (~ok => fs' = fs)
                    /\ Served(c, r, To(c, Changed(ok)))
                    /\ deleted' = deleted /\ Meets(c, r, c) /\ undef' = undef
<1>1. PICK r \in NextOf(c, "rename") :
        /\ LET ok == r.path \in DOMAIN fs /\ r.to \notin DOMAIN fs
           IN /\ fs' = IF ok THEN Moved(r.path, r.to) ELSE fs
              /\ Answers(c, To(c, Changed(ok)))
        /\ Meets(c, r, c) /\ undef' = undef /\ deleted' = deleted
  BY DEF ServeRename
<1>2. PICK ok \in BOOLEAN : ok <=> r.path \in DOMAIN fs /\ r.to \notin DOMAIN fs
  OBVIOUS
<1>3. r.kind = "rename" /\ r.path \in Inner(c) /\ r.to \in Inner(c) /\ SameDir(r)
  BY NextOfIs, RequestFields
<1>4. Disk(fs) /\ IsTree(fs)
  BY DEF Types, Disk
<1>5. Moves(c, r.path, fs, fs') /\ Disk(fs')
  <2>1. CASE ok
    <3>1. r.path \in DOMAIN fs /\ r.to \notin DOMAIN fs /\ fs' = Moved(r.path, r.to)
      BY <1>1, <1>2, <2>1
    <3>2. PICK p, q : p = r.path /\ q = r.to
      OBVIOUS
    <3>3. /\ p \in Seq(Components) /\ q \in Seq(Components) /\ Len(p) \in Nat \ {0} /\ p[Len(p)] \in Names
          /\ Len(q) = Len(p) /\ \A i \in 1..(Len(p) - 1) : q[i] = p[i]
      BY <1>3, <3>2, InnerPath DEF SameDir
    <3>4. Len(p) > 1
      <4>1. p[1] \in Users
        BY <1>4, <3>1, <3>2, TreePath
      <4>2. p[1] \notin Names
        BY <4>1, NamesAssumption
      <4> QED
        BY <3>3, <4>2
    <3>5. ~IsPrefix(p, q)
      <4>1. SUFFICES ASSUME IsPrefix(p, q) PROVE FALSE
        OBVIOUS
      <4>2. \A i \in 1..Len(p) : p[i] = q[i]
        BY <3>3, <4>1, PrefixPoints
      <4>3. p = q
        BY <3>3, <4>2, SeqEqual
      <4> QED
        BY <3>1, <3>2, <4>3
    <3>6. SubSeq(q, 1, Len(q) - 1) = SubSeq(p, 1, Len(p) - 1)
      <4>1. Len(p) - 1 \in 0..Len(p) /\ Len(p) - 1 \in 0..Len(q)
        BY <3>3
      <4>2. PICK s, t : s = SubSeq(p, 1, Len(p) - 1) /\ t = SubSeq(q, 1, Len(p) - 1)
        OBVIOUS
      <4>3. s \in Seq(Components) /\ Len(s) = Len(p) - 1 /\ \A i \in 1..(Len(p) - 1) : s[i] = p[i]
        BY <3>3, <4>1, <4>2, Beginning
      <4>4. t \in Seq(Components) /\ Len(t) = Len(p) - 1 /\ \A i \in 1..(Len(p) - 1) : t[i] = q[i]
        BY <3>3, <4>1, <4>2, Beginning
      <4>5. s = t
        BY <3>3, <4>3, <4>4, SeqEqual
      <4> QED
        BY <3>3, <4>2, <4>5
    <3>7. SubSeq(p, 1, Len(p) - 1) \in DOMAIN fs /\ fs[SubSeq(p, 1, Len(p) - 1)] = Dir
      <4>1. Len(p) - 1 \in 1..(Len(p) - 1)
        BY <3>3, <3>4
      <4> QED
        BY <1>4, <3>1, <3>2, <4>1 DEF IsTree
    <3>8. Moves(c, p, fs, Moved(p, q)) /\ Disk(Moved(p, q))
      <4>1. Len(q) > 1
        BY <3>3, <3>4
      <4> QED
        BY <1>3, <3>1, <3>2, <3>5, <3>6, <3>7, <4>1, MovesTree
    <3> QED
      BY <3>1, <3>2, <3>8
  <2>2. CASE ~ok
    <3>1. fs' = fs
      BY <1>1, <1>2, <2>2
    <3> QED
      BY <1>4, <3>1, MovesNot
  <2> QED
    BY <2>1, <2>2
<1>6. ~ok => fs' = fs
  BY <1>1, <1>2
<1>7. Types' /\ Served(c, r, To(c, Changed(ok)))
  <2>1. PICK x : x = Changed(ok)
    OBVIOUS
  <2>2. x \in Responses /\ x.kind = "changed"
    BY <2>1, NewAnswers
  <2>3. /\ \A u \in Users \cap DOMAIN To(c, x) : To(c, x)[u] \in Responses
        /\ \A u \in Users \cap DOMAIN To(c, x) : To(c, x)[u].kind # "entered"
    BY <2>2, InAnswers
  <2>4. wrong' \subseteq Users /\ undef' \in {"no", "missing", "unset"}
    BY <1>1, MeetsIs DEF Types
  <2>5. Answers(c, To(c, x))
    <3>1. ok = (r.path \in DOMAIN fs /\ r.to \notin DOMAIN fs)
      BY <1>2
    <3> QED
      BY <1>1, <2>1, <3>1
  <2>6. Types' /\ Served(c, r, To(c, x))
    BY <1>5, <2>3, <2>4, <2>5, ServedStep
  <2> QED
    BY <2>1, <2>6
<1> QED
  BY <1>1, <1>3, <1>5, <1>6, <1>7

LEMMA MoveToIs ==
  ASSUME Types, NEW c \in Users, NEW old \in Inner(c), NEW dir \in Paths(c), NEW name \in Names
  PROVE  LET g == MoveTo(old, dir, name)
         IN /\ Moves(c, old, fs, g) /\ Disk(g)
            /\ g = fs \/ (old \in DOMAIN fs /\ fs[old] # Dir)
<1>1. Disk(fs) /\ IsTree(fs)
  BY DEF Types, Disk
<1>2. CASE IsFile(old) /\ IsDir(dir)
  <2>1. old \in DOMAIN fs /\ fs[old] # Dir /\ dir \in DOMAIN fs /\ fs[dir] = Dir
    BY <1>2 DEF IsFile, IsDir
  <2>2. PICK n : n = Unique(dir, name)
    OBVIOUS
  <2>3. dir \in Seq(Components) /\ Len(dir) \in Nat \ {0} /\ dir # <<>>
    BY <1>1, <2>1, TreePath, EmptySeq
  <2>4. n \in Names /\ Append(dir, n) \notin DOMAIN fs
    BY <1>1, <2>2, <2>3, UniqueName
  <2>5. PICK q : q = Append(dir, n)
    OBVIOUS
  <2>6. /\ q \in Inner(c) /\ q \in Seq(Components) /\ Len(q) = Len(dir) + 1
        /\ \A i \in 1..Len(dir) : q[i] = dir[i]
        /\ SubSeq(q, 1, Len(q) - 1) = dir
    BY <2>3, <2>4, <2>5, LongerPath
  <2>7. ~IsPrefix(old, q)
    <3>1. SUFFICES ASSUME IsPrefix(old, q) PROVE FALSE
      OBVIOUS
    <3>2. old \in Seq(Components) /\ Len(old) \in Nat \ {0} /\ old # <<>>
      BY InnerPath
    <3>3. Len(old) <= Len(q) /\ \A i \in 1..Len(old) : old[i] = q[i]
      BY <2>6, <3>1, <3>2, PrefixPoints
    <3>4. CASE Len(old) = Len(q)
      <4>1. old = q
        BY <2>6, <3>2, <3>3, <3>4, SeqEqual
      <4> QED
        BY <2>1, <2>4, <2>5, <4>1
    <3>5. CASE Len(old) < Len(q)
      <4>1. Len(old) <= Len(dir) /\ \A i \in 1..Len(old) : old[i] = dir[i]
        BY <2>3, <2>6, <3>2, <3>3, <3>5
      <4>2. IsPrefix(old, dir)
        BY <2>3, <3>2, <4>1, PrefixPoints
      <4>3. old # dir
        BY <2>1
      <4> QED
        BY <1>1, <2>1, <3>2, <4>2, <4>3, TreePrefix
    <3> QED
      BY <2>3, <2>6, <3>2, <3>3, <3>4, <3>5
  <2>8. MoveTo(old, dir, name) = Moved(old, q)
    BY <1>2, <2>2, <2>5 DEF MoveTo
  <2>9. Moves(c, old, fs, Moved(old, q)) /\ Disk(Moved(old, q))
    <3>1. Len(q) > 1
      BY <2>3, <2>6
    <3>2. PICK up : up = SubSeq(q, 1, Len(q) - 1)
      OBVIOUS
    <3>3. up \in DOMAIN fs /\ fs[up] = Dir
      BY <2>1, <2>6, <3>2
    <3> QED
      BY <2>1, <2>4, <2>5, <2>6, <2>7, <3>1, <3>2, <3>3, MovesTree
  <2> QED
    BY <2>1, <2>8, <2>9
<1>3. CASE ~(IsFile(old) /\ IsDir(dir))
  <2>1. MoveTo(old, dir, name) = fs
    BY <1>3 DEF MoveTo
  <2> QED
    BY <1>1, <2>1, MovesNot
<1> QED
  BY <1>2, <1>3

LEMMA ServeMoveIs ==
  ASSUME Types, NEW c \in Users, ServeMove(c)
  PROVE  \E r : /\ Types' /\ r.kind = "move" /\ Moves(c, r.path, fs, fs')
                /\ fs' = fs \/ (r.path \in DOMAIN fs /\ fs[r.path] # Dir)
                /\ Served(c, r, To(c, Told))
                /\ deleted' = deleted /\ Meets(c, r, c) /\ undef' = undef
<1>1. PICK r \in NextOf(c, "move") :
        /\ fs' = MoveTo(r.path, r.to, r.name)
        /\ Meets(c, r, c) /\ Answers(c, To(c, Told)) /\ undef' = undef /\ deleted' = deleted
  BY DEF ServeMove
<1>2. r.kind = "move" /\ r.path \in Inner(c) /\ r.to \in Paths(c) /\ r.name \in Names
  BY NextOfIs, RequestFields
<1>3. /\ Moves(c, r.path, fs, fs') /\ Disk(fs')
      /\ fs' = fs \/ (r.path \in DOMAIN fs /\ fs[r.path] # Dir)
  BY <1>1, <1>2, MoveToIs
<1>4. Types' /\ Served(c, r, To(c, Told))
  <2>1. /\ \A u \in Users \cap DOMAIN To(c, Told) : To(c, Told)[u] \in Responses
        /\ \A u \in Users \cap DOMAIN To(c, Told) : To(c, Told)[u].kind # "entered"
    BY NewAnswers, InAnswers
  <2>2. wrong' \subseteq Users /\ undef' \in {"no", "missing", "unset"}
    BY <1>1, MeetsIs DEF Types
  <2> QED
    BY <1>1, <1>3, <2>1, <2>2, ServedStep
<1> QED
  BY <1>1, <1>2, <1>3, <1>4

LEMMA ServeShareIs ==
  ASSUME Types, NEW c \in Users, ServeShare(c)
  PROVE  \E r, a : /\ Types' /\ r.kind = "share" /\ r.from = c /\ r.to \in Users
                   /\ fs' = fs /\ wrong' = wrong /\ deleted' = deleted /\ undef' = undef
                   /\ Served(c, r, To(r.to, a)) /\ a \in Notes
                   /\ a.from = c /\ a.path = r.path /\ a.meant = r.meant
<1>1. PICK r \in NextOf(c, "share") :
        /\ Answers(c, To(r.to, [kind |-> "note", from |-> r.from, path |-> r.path, meant |-> r.meant]))
        /\ UNCHANGED <<fs, undef, deleted, wrong>>
  BY DEF ServeShare
<1>2. r.kind = "share" /\ r.from = c /\ r.to \in Users /\ r.path \in Inner(c) /\ r.meant \in Values
  BY NextOfIs, RequestFields
<1>3. PICK a : a = [kind |-> "note", from |-> r.from, path |-> r.path, meant |-> r.meant]
  OBVIOUS
<1>4. a \in Notes /\ a.kind = "note" /\ a.from = c /\ a.path = r.path /\ a.meant = r.meant
  <2>1. r.path \in Seq(Components)
    BY <1>2, InnerPath
  <2> QED
    BY <1>2, <1>3, <2>1 DEF Notes, Offers
<1>5. a \in Responses
  BY <1>4 DEF Responses
<1>6. Types' /\ Served(c, r, To(r.to, a))
  <2>1. /\ \A u \in Users \cap DOMAIN To(r.to, a) : To(r.to, a)[u] \in Responses
        /\ \A u \in Users \cap DOMAIN To(r.to, a) : To(r.to, a)[u].kind # "entered"
    BY <1>2, <1>4, <1>5, InAnswers
  <2>2. Disk(fs') /\ wrong' \subseteq Users /\ undef' \in {"no", "missing", "unset"}
    BY <1>1 DEF Types
  <2>3. Answers(c, To(r.to, a))
    BY <1>1, <1>3
  <2> QED
    BY <2>1, <2>2, <2>3, ServedStep
<1> QED
  BY <1>1, <1>2, <1>4, <1>6

LEMMA ServeAgreeIs ==
  ASSUME Types, NEW c \in Users, ServeAgree(c)
  PROVE  \E r : /\ Types' /\ r.kind = "agree" /\ r.from \in Users /\ Grows(c, fs, fs')
                /\ Served(c, r, [u \in {c, r.from} |-> Told])
                /\ deleted' = deleted /\ Meets(c, r, r.from) /\ undef' = undef
<1>1. PICK r \in NextOf(c, "agree") :
        /\ LET new == <<c, Unique(<<c>>, Last(r.path))>>
           IN fs' = IF IsFile(r.path)
                    THEN [q \in DOMAIN fs \cup {new} |-> IF q = new THEN fs[r.path] ELSE fs[q]]
                    ELSE fs
        /\ Answers(c, [u \in {c, r.from} |-> Told])
        /\ Meets(c, r, r.from) /\ undef' = undef /\ deleted' = deleted
  BY DEF ServeAgree
<1>2. r.kind = "agree" /\ r.from \in Users /\ r.path \in Inner(r.from)
  BY NextOfIs, RequestFields
<1>3. Disk(fs) /\ IsTree(fs)
  BY DEF Types, Disk
<1>4. Grows(c, fs, fs') /\ Disk(fs')
  <2>1. PICK new : new = <<c, Unique(<<c>>, Last(r.path))>>
    OBVIOUS
  <2>2. CASE IsFile(r.path)
    <3>1. Last(r.path) \in Names
      BY <1>2, InnerPath DEF Last
    <3>2. PICK n : n = Unique(<<c>>, Last(r.path))
      OBVIOUS
    <3>3. <<c>> \in DOMAIN fs /\ fs[<<c>>] = Dir /\ <<c>> \in Seq(Components) /\ <<c>> \in Paths(c)
          /\ Len(<<c>>) = 1
      BY <1>3 DEF IsTree, Components, Paths, MayName
    <3>4. n \in Names /\ Append(<<c>>, n) \notin DOMAIN fs
      BY <1>3, <3>1, <3>2, <3>3, UniqueName
    <3>5. new = Append(<<c>>, n)
      BY <2>1, <3>2
    <3>6. new \in Inner(c) /\ Len(new) = 2 /\ SubSeq(new, 1, Len(new) - 1) = <<c>>
      <4>1. PICK p : p = <<c>>
        OBVIOUS
      <4>2. p \in Paths(c)
        BY <3>3, <4>1
      <4>3. p # <<>>
        BY <4>1
      <4>4. n \in Names
        BY <3>4
      <4>5. PICK q : q = Append(p, n)
        OBVIOUS
      <4>6. q \in Inner(c) /\ Len(q) = Len(p) + 1 /\ SubSeq(q, 1, Len(q) - 1) = p
        BY <4>2, <4>3, <4>4, <4>5, LongerPath
      <4>7. new = q
        BY <3>5, <4>1, <4>5
      <4>8. Len(p) = 1
        BY <3>3, <4>1
      <4>9. Len(q) = 2 /\ SubSeq(q, 1, Len(q) - 1) = p
        BY <4>6, <4>8
      <4> QED
        BY <4>1, <4>6, <4>7, <4>9
    <3>7. PICK g : g = fs'
      OBVIOUS
    <3>8. g = [q \in DOMAIN fs \cup {new} |-> IF q = new THEN fs[r.path] ELSE fs[q]]
      BY <1>1, <2>1, <2>2, <3>7
    <3>9. IsFun(g) /\ DOMAIN g = DOMAIN fs \cup {new} /\ \A p \in DOMAIN fs : g[p] = fs[p]
      BY <3>4, <3>5, <3>8 DEF IsFun
    <3>10. /\ IsTree(g) /\ OnlyIn(c, fs, g)
           /\ \A p \in DOMAIN fs : p \in DOMAIN g /\ g[p] = fs[p]
      <4>1. SubSeq(new, 1, Len(new) - 1) \in DOMAIN fs /\ fs[SubSeq(new, 1, Len(new) - 1)] = Dir
        BY <3>3, <3>6
      <4>2. new \notin DOMAIN fs /\ Len(new) > 1 /\ new \in Inner(c)
        BY <3>4, <3>5, <3>6
      <4> QED
        BY <1>3, <3>9, <4>1, <4>2, GrowTree
    <3>11. \A p \in DOMAIN g : g[p] \in Values
      BY <1>3, <2>2, <3>8 DEF Disk, IsFile
    <3> QED
      BY <3>7, <3>10, <3>11 DEF Disk, Grows
  <2>3. CASE ~IsFile(r.path)
    <3>1. fs' = fs
      BY <1>1, <2>1, <2>3
    <3> QED
      BY <1>3, <3>1, GrowsNot
  <2> QED
    BY <2>2, <2>3
<1>5. Types' /\ Served(c, r, [u \in {c, r.from} |-> Told])
  <2>1. PICK tell : tell = [u \in {c, r.from} |-> Told]
    OBVIOUS
  <2>2. /\ \A u \in Users \cap DOMAIN tell : tell[u] \in Responses
        /\ \A u \in Users \cap DOMAIN tell : tell[u].kind # "entered"
    BY <1>2, <2>1, NewAnswers
  <2>3. wrong' \subseteq Users /\ undef' \in {"no", "missing", "unset"}
    BY <1>1, <1>2, MeetsIs DEF Types
  <2>4. Types' /\ Served(c, r, tell)
    BY <1>1, <1>4, <2>1, <2>2, <2>3, ServedStep
  <2> QED
    BY <2>1, <2>4
<1> QED
  BY <1>1, <1>2, <1>4, <1>5

LEMMA ServeRefuseIs ==
  ASSUME Types, NEW c \in Users, ServeRefuse(c)
  PROVE  \E r : /\ Types' /\ r.kind = "refuse" /\ fs' = fs /\ wrong' = wrong /\ deleted' = deleted
                /\ Served(c, r, [u \in {c, r.from} |-> Told])
                /\ undef' \in {"no", "unset"}
<1>1. PICK r \in NextOf(c, "refuse") :
        /\ Answers(c, [u \in {c, r.from} |-> Told])
        /\ undef' \in {"no", "unset"} /\ UNCHANGED <<fs, deleted, wrong>>
  BY DEF ServeRefuse
<1>2. r.kind = "refuse"
  BY NextOfIs
<1>3. PICK tell : tell = [u \in {c, r.from} |-> Told]
  OBVIOUS
<1>4. /\ \A u \in Users \cap DOMAIN tell : tell[u] \in Responses
      /\ \A u \in Users \cap DOMAIN tell : tell[u].kind # "entered"
  BY <1>3, NewAnswers
<1>5. Disk(fs') /\ wrong' \subseteq Users /\ undef' \in {"no", "missing", "unset"}
  BY <1>1 DEF Types
<1>6. Types' /\ Served(c, r, tell)
  BY <1>1, <1>3, <1>4, <1>5, ServedStep
<1> QED
  BY <1>1, <1>2, <1>3, <1>6

-----------------------------------------------------------------------------
(* The types.                                                              *)

\* At first every panel is in its user's root.
LEMMA RootIs ==
  ASSUME NEW f, IsTree(f), NEW c \in Users
  PROVE  <<c>> \in DOMAIN f /\ f[<<c>>] = Dir /\ <<c>> \in Paths(c)
  BY DEF IsTree, Paths, MayName, Components

LEMMA FirstDisk == Disk(InitialFs)
  BY InitialFsAssumption DEF Disk, Values

LEMMA InitIs ==
  ASSUME Init, NEW c \in Users
  PROVE  /\ req[c] = <<>> /\ ans[c] = <<>> /\ box[c] = <<>> /\ ui[c] \in Panels(c)
         /\ ui[c].cur = <<c>> /\ ui[c].shown = ListOf(fs, <<c>>) /\ ui[c].item = NoName
         /\ ui[c].moving = NoPath /\ ui[c].sharing = NoName /\ ~ui[c].fileOn
<1>1. /\ fs = InitialFs /\ req[c] = <<>> /\ ans[c] = <<>> /\ box[c] = <<>>
      /\ ui[c] = [Panel(c) EXCEPT !.shown = Listing(<<c>>)]
  BY DEF Init
<1>2. PICK l : l = Listing(<<c>>)
  OBVIOUS
<1>3. l = ListOf(fs, <<c>>) /\ l \in Lists
  BY <1>1, <1>2, ListingIs, FirstDisk, InitialFsAssumption, RootIs, Listed
<1>4. <<c>> \in Paths(c)
  BY InitialFsAssumption, RootIs
<1>5. /\ ui[c].cur = <<c>> /\ ui[c].shown = l /\ ui[c].item = NoName
      /\ ui[c].moving = NoPath /\ ui[c].sharing = NoName /\ ~ui[c].fileOn
      /\ ui[c] \in Panels(c)
  BY <1>1, <1>2, <1>3, <1>4 DEF Panel, Panels
<1> QED
  BY <1>1, <1>3, <1>5

LEMMA InitTypes == Init => Types
<1> SUFFICES ASSUME Init PROVE Types
  OBVIOUS
<1>1. Disk(fs)
  BY FirstDisk DEF Init
<1>2. Shapes
  BY DEF Init, Shapes
<1>3. ASSUME NEW c \in Users PROVE Client(c, req[c], ans[c], box[c], ui[c])
  <2>1. /\ req[c] = <<>> /\ ans[c] = <<>> /\ box[c] = <<>> /\ ui[c] \in Panels(c)
        /\ ui[c].item = NoName
    BY InitIs
  <2> QED
    BY <2>1 DEF Client, EnteringIn
<1> QED
  BY <1>1, <1>2, <1>3 DEF Types, Shapes, Init

-----------------------------------------------------------------------------
(* No file is lost.                                                        *)

\* What was there is there still, perhaps elsewhere in its user's tree, or deleted.
Keeps ==
  /\ deleted \subseteq deleted'
  /\ \A p \in DOMAIN fs :
       fs[p] = Dir \/ fs[p] \in deleted' \/ \E q \in DOMAIN fs' : q[1] = p[1] /\ fs'[q] = fs[p]

LEMMA KeptStep ==
  ASSUME Kept, Keeps
  PROVE  Kept'
<1>1. ASSUME NEW u \in Users, NEW p \in DOMAIN InitialFs, p[1] = u, InitialFs[p] # Dir
      PROVE  InitialFs[p] \in deleted' \/ \E q \in DOMAIN fs' : q[1] = u /\ fs'[q] = InitialFs[p]
  <2>1. CASE InitialFs[p] \in deleted
    BY <2>1 DEF Keeps
  <2>2. CASE InitialFs[p] \notin deleted
    <3>1. PICK q \in DOMAIN fs : q[1] = u /\ fs[q] = InitialFs[p]
      BY <1>1, <2>2 DEF Kept
    <3> QED
      BY <1>1, <3>1 DEF Keeps
  <2> QED
    BY <2>1, <2>2
<1> QED
  BY <1>1 DEF Kept

LEMMA SameKept ==
  ASSUME fs' = fs, deleted' = deleted
  PROVE  Keeps
  BY DEF Keeps

LEMMA GrownKept ==
  ASSUME NEW c, Grows(c, fs, fs'), deleted' = deleted
  PROVE  Keeps
  BY DEF Keeps, Grows

LEMMA MovedKept ==
  ASSUME NEW c, NEW p, Moves(c, p, fs, fs'), deleted' = deleted
  PROVE  Keeps
  BY DEF Keeps, Moves, Carried

LEMMA CutKept ==
  ASSUME NEW p, deleted' = deleted \cup Contents(Below(p)),
         \A q \in DOMAIN fs : (q \in DOMAIN fs' /\ fs'[q] = fs[q]) \/ IsPrefix(p, q)
  PROVE  Keeps
<1>1. ASSUME NEW q \in DOMAIN fs, fs[q] # Dir, IsPrefix(p, q) PROVE fs[q] \in deleted'
  BY <1>1 DEF Contents, Below
<1> QED
  BY <1>1 DEF Keeps

LEMMA UserKeeps ==
  ASSUME Types, NEW c \in Users, User(c)
  PROVE  Types' /\ Keeps
<1>1. CASE ClickItem(c)
  BY <1>1, ClickItemIs, SameKept DEF Picked, Local
<1>2. CASE ClickFlush(c)
  BY <1>2, ClickFlushIs, SameKept DEF Asked, Local
<1>3. CASE ClickCreate(c)
  BY <1>3, ClickCreateIs, SameKept DEF Asked, Local
<1>4. CASE ClickDelete(c)
  BY <1>4, ClickDeleteIs, SameKept DEF Asked, Local
<1>5. CASE ClickRename(c)
  BY <1>5, ClickRenameIs, SameKept DEF Asked, Local
<1>6. CASE DoubleClick(c)
  BY <1>6, DoubleClickIs, SameKept DEF Asked, Local
<1>7. CASE ClickReturn(c)
  BY <1>7, ClickReturnIs, SameKept DEF Asked, Local
<1>8. CASE PickMove(c)
  BY <1>8, PickMoveIs, SameKept DEF Picked, Local
<1>9. CASE ConfirmMove(c)
  BY <1>9, ConfirmMoveIs, SameKept DEF Asked, Local
<1>10. CASE PickShare(c)
  BY <1>10, PickShareIs, SameKept DEF Picked, Local
<1>11. CASE ConfirmShare(c)
  BY <1>11, ConfirmShareIs, SameKept DEF Asked, Local
<1>12. CASE CloseTold(c)
  BY <1>12, CloseToldIs, SameKept DEF Closed, Local
<1>13. CASE AnswerNote(c)
  BY <1>13, AnswerNoteIs, SameKept DEF Closed, Local
<1> QED
  BY <1>1, <1>2, <1>3, <1>4, <1>5, <1>6, <1>7, <1>8, <1>9, <1>10, <1>11, <1>12, <1>13 DEF User

LEMMA ReceiveKeeps ==
  ASSUME Types, NEW c \in Users, Receive(c)
  PROVE  Types' /\ Keeps
<1>1. CASE TakeChanged(c)
  BY <1>1, TakeChangedIs, SameKept DEF Took, Local
<1>2. CASE TakeList(c)
  BY <1>2, TakeListIs, SameKept DEF Took, Local
<1>3. CASE TakeEntered(c)
  BY <1>3, TakeEnteredIs, SameKept DEF Took, Local
<1>4. CASE TakeBox(c)
  BY <1>4, TakeBoxIs, SameKept DEF Took, Local
<1> QED
  BY <1>1, <1>2, <1>3, <1>4 DEF Receive

LEMMA ServeKeeps ==
  ASSUME Types, NEW c \in Users, Serve(c)
  PROVE  Types' /\ Keeps
<1>1. CASE ServeList(c)
  BY <1>1, ServeListIs, SameKept
<1>2. CASE ServeEnter(c)
  BY <1>2, ServeEnterIs, SameKept
<1>3. CASE ServeCreate(c)
  BY <1>3, ServeCreateIs, GrownKept
<1>4. CASE ServeDelete(c)
  <2>1. PICK r : /\ Types'
                 /\ \A q \in DOMAIN fs : (q \in DOMAIN fs' /\ fs'[q] = fs[q]) \/ IsPrefix(r.path, q)
                 /\ deleted' = deleted \cup Contents(Below(r.path))
    BY <1>4, ServeDeleteIs
  <2>2. PICK p : p = r.path
    OBVIOUS
  <2> QED
    BY <2>1, <2>2, CutKept
<1>5. CASE ServeRename(c)
  <2>1. PICK r : Types' /\ Moves(c, r.path, fs, fs') /\ deleted' = deleted
    BY <1>5, ServeRenameIs
  <2> QED
    BY <2>1, MovedKept
<1>6. CASE ServeMove(c)
  <2>1. PICK r : Types' /\ Moves(c, r.path, fs, fs') /\ deleted' = deleted
    BY <1>6, ServeMoveIs
  <2> QED
    BY <2>1, MovedKept
<1>7. CASE ServeShare(c)
  BY <1>7, ServeShareIs, SameKept
<1>8. CASE ServeAgree(c)
  BY <1>8, ServeAgreeIs, GrownKept
<1>9. CASE ServeRefuse(c)
  BY <1>9, ServeRefuseIs, SameKept
<1> QED
  BY <1>1, <1>2, <1>3, <1>4, <1>5, <1>6, <1>7, <1>8, <1>9 DEF Serve

LEMMA TypesStep == Types /\ [Next]_vars => Types'
<1> SUFFICES ASSUME Types, [Next]_vars PROVE Types'
  OBVIOUS
<1>1. CASE Next
  <2>1. PICK c \in Users : User(c) \/ Receive(c) \/ Serve(c)
    BY <1>1 DEF Next
  <2> QED
    BY <2>1, UserKeeps, ReceiveKeeps, ServeKeeps
<1>2. CASE UNCHANGED vars
  BY <1>2 DEF Types, Disk, IsTree, vars, panels, history
<1> QED
  BY <1>1, <1>2

LEMMA KeptInvariant == Types /\ Kept /\ [Next]_vars => Kept'
<1> SUFFICES ASSUME Types, Kept, [Next]_vars PROVE Kept'
  OBVIOUS
<1>1. CASE Next
  <2>1. PICK c \in Users : User(c) \/ Receive(c) \/ Serve(c)
    BY <1>1 DEF Next
  <2> QED
    BY <2>1, UserKeeps, ReceiveKeeps, ServeKeeps, KeptStep
<1>2. CASE UNCHANGED vars
  BY <1>2 DEF Kept, vars, history
<1> QED
  BY <1>1, <1>2

LEMMA KeptIs == Types /\ Kept => FilesKept
<1> SUFFICES ASSUME Types, Kept, NEW u \in Users, NEW p \in DOMAIN InitialFs,
                    p[1] = u, InitialFs[p] # Dir
             PROVE  InitialFs[p] \in deleted \cup Contents(Below(<<u>>))
  BY DEF FilesKept
<1>1. CASE InitialFs[p] \in deleted
  BY <1>1
<1>2. CASE InitialFs[p] \notin deleted
  <2>1. PICK q \in DOMAIN fs : q[1] = u /\ fs[q] = InitialFs[p]
    BY <1>2 DEF Kept
  <2>2. q \in Seq(Components) /\ Len(q) \in Nat \ {0}
    BY TreePath DEF Types, Disk
  <2>3. IsPrefix(<<u>>, q)
    <3>1. PICK s : s = <<u>>
      OBVIOUS
    <3>2. s \in Seq(Components) /\ Len(s) = 1 /\ s[1] = u
      BY <3>1 DEF Components
    <3>3. Len(s) <= Len(q) /\ \A i \in 1..Len(s) : s[i] = q[i]
      BY <2>1, <2>2, <3>2
    <3> QED
      BY <2>2, <3>1, <3>2, <3>3, PrefixPoints
  <2> QED
    BY <2>1, <2>3 DEF Contents, Below
<1> QED
  BY <1>1, <1>2

\* No file is lost but by a deletion: whatever was in a user's tree at first is
\* in it still, or a DEL_DIR_OR_FILE_REQUEST has removed it (mytcpsocket.cpp).
THEOREM NoFileIsLost == Spec => []FilesKept
<1>1. Init => Kept
  BY DEF Init, Kept
<1> QED
  BY <1>1, InitTypes, TypesStep, KeptInvariant, KeptIs, PTL DEF Spec
-----------------------------------------------------------------------------
(* The view: what it depends on.                                           *)

\* Of the messages of the kinds in K there are the same in s and t, in the same
\* order; at the beginning of s there may be one more of another kind.
Like(s, t, K) ==
  \E k \in {0, 1} :
    /\ \A i \in DOMAIN s : s[i].kind \in K => i - k \in DOMAIN t /\ t[i - k] = s[i]
    /\ \A i \in DOMAIN t : t[i].kind \in K => i + k \in DOMAIN s /\ s[i + k] = t[i]

LEMMA LikeSelf ==
  ASSUME NEW S, NEW s \in Seq(S), NEW K
  PROVE  Like(s, s, K)
<1>1. \A i \in DOMAIN s : i - 0 = i /\ i + 0 = i
  OBVIOUS
<1> QED
  BY <1>1 DEF Like

LEMMA LikeGrown ==
  ASSUME NEW S, NEW s \in Seq(S), NEW x \in S, NEW K, x.kind \notin K
  PROVE  Like(s, Append(s, x), K)
<1>1. PICK t : t = Append(s, x)
  OBVIOUS
<1>2. /\ \A i \in DOMAIN t : (i \in DOMAIN s /\ t[i] = s[i]) \/ (i = Len(s) + 1 /\ t[i] = x)
      /\ \A i \in DOMAIN s : i \in DOMAIN t /\ t[i] = s[i]
  BY <1>1, Grown
<1>3. /\ \A i \in DOMAIN s : i - 0 = i
      /\ \A i \in DOMAIN t : i \in DOMAIN s => i + 0 = i
  OBVIOUS
<1>4. /\ \A i \in DOMAIN s : s[i].kind \in K => i - 0 \in DOMAIN t /\ t[i - 0] = s[i]
      /\ \A i \in DOMAIN t : t[i].kind \in K => i + 0 \in DOMAIN s /\ s[i + 0] = t[i]
  BY <1>2, <1>3
<1> QED
  BY <1>1, <1>4 DEF Like

LEMMA LikeShrunk ==
  ASSUME NEW S, NEW s \in Seq(S), s # <<>>, NEW K, Head(s).kind \notin K
  PROVE  Like(s, Tail(s), K)
<1>1. PICK t : t = Tail(s)
  OBVIOUS
<1>2. /\ Head(s) = s[1]
      /\ \A i \in DOMAIN t : i + 1 \in DOMAIN s /\ t[i] = s[i + 1]
      /\ \A i \in DOMAIN s : i = 1 \/ (i - 1 \in DOMAIN t /\ t[i - 1] = s[i])
  BY <1>1, Shrunk
<1>3. /\ \A i \in DOMAIN s : s[i].kind \in K => i - 1 \in DOMAIN t /\ t[i - 1] = s[i]
      /\ \A i \in DOMAIN t : t[i].kind \in K => i + 1 \in DOMAIN s /\ s[i + 1] = t[i]
  BY <1>2
<1> QED
  BY <1>1, <1>3 DEF Like

\* The lists that matter to the panel p are the same on f and g.
SameLists(R, A, p, f, g) ==
  /\ ListOf(g, p.cur) = ListOf(f, p.cur)
  /\ EnteringIn(R, A) => ListOf(g, Append(p.cur, p.enter)) = ListOf(f, Append(p.cur, p.enter))

LEMMA ViewLike ==
  ASSUME NEW c, NEW R \in Seq(Requests(c)), NEW S \in Seq(Requests(c)), Like(R, S, {"list", "enter"}),
         NEW A \in Seq(Responses), NEW T \in Seq(Responses), Like(A, T, {"list", "entered"}),
         NEW B, NEW C, NEW p, NEW q, SamePlace(p, q), NEW f, NEW g,
         Refreshing(S, T, C) \/ (~Refreshing(R, A, B) /\ SameLists(R, A, p, f, g)),
         View(R, A, B, p, f)
  PROVE  View(S, T, C, q, g)
<1> DEFINE K == {"list", "enter"}
           L == {"list", "entered"}
<1>1. q.cur = p.cur /\ q.enter = p.enter /\ q.shown = p.shown
  BY DEF SamePlace
<1>2. PICK k \in {0, 1} :
        /\ \A i \in DOMAIN R : R[i].kind \in K => i - k \in DOMAIN S /\ S[i - k] = R[i]
        /\ \A i \in DOMAIN S : S[i].kind \in K => i + k \in DOMAIN R /\ R[i + k] = S[i]
  BY DEF Like
<1>3. PICK l \in {0, 1} :
        /\ \A i \in DOMAIN A : A[i].kind \in L => i - l \in DOMAIN T /\ T[i - l] = A[i]
        /\ \A i \in DOMAIN T : T[i].kind \in L => i + l \in DOMAIN A /\ A[i + l] = T[i]
  BY DEF Like
<1>4. /\ \A i \in DOMAIN R : i \in Nat
      /\ \A i \in DOMAIN S : i \in Nat
      /\ \A i \in DOMAIN A : i \in Nat
      /\ \A i \in DOMAIN T : i \in Nat
  OBVIOUS
<1>5. EntersOnce(R, A, p) /\ AsksHere(R, p)
  BY DEF View
<1>6. EntersOnce(S, T, q)
  <2>1. ASSUME NEW i \in DOMAIN S, S[i].kind = "enter"
        PROVE  /\ S[i].path = Append(q.cur, q.enter)
               /\ \A j \in DOMAIN S : j > i => S[j].kind \notin {"list", "enter"}
               /\ \A j \in DOMAIN T : T[j].kind # "entered"
    <3>1. i + k \in DOMAIN R /\ R[i + k] = S[i]
      BY <1>2, <2>1
    <3>2. /\ R[i + k].path = Append(p.cur, p.enter)
          /\ \A j \in DOMAIN R : j > i + k => R[j].kind \notin {"list", "enter"}
          /\ \A j \in DOMAIN A : A[j].kind # "entered"
      BY <1>5, <2>1, <3>1 DEF EntersOnce
    <3>3. ASSUME NEW j \in DOMAIN S, j > i PROVE S[j].kind \notin {"list", "enter"}
      <4>1. SUFFICES ASSUME S[j].kind \in K PROVE FALSE
        OBVIOUS
      <4>2. j + k \in DOMAIN R /\ R[j + k] = S[j]
        BY <1>2, <4>1
      <4>3. j + k > i + k
        BY <1>2, <1>4, <3>3
      <4> QED
        BY <3>2, <4>1, <4>2, <4>3
    <3>4. \A j \in DOMAIN T : T[j].kind # "entered"
      BY <1>3, <3>2
    <3> QED
      BY <1>1, <3>1, <3>2, <3>3, <3>4
  <2>2. ASSUME NEW i \in DOMAIN T, T[i].kind = "entered"
        PROVE  /\ \A j \in DOMAIN S : S[j].kind # "list"
               /\ \A j \in DOMAIN T : j > i => T[j].kind \notin {"list", "entered"}
    <3>1. i + l \in DOMAIN A /\ A[i + l] = T[i]
      BY <1>3, <2>2
    <3>2. /\ \A j \in DOMAIN R : R[j].kind # "list"
          /\ \A j \in DOMAIN A : j > i + l => A[j].kind \notin {"list", "entered"}
      BY <1>5, <2>2, <3>1 DEF EntersOnce
    <3>3. ASSUME NEW j \in DOMAIN T, j > i PROVE T[j].kind \notin {"list", "entered"}
      <4>1. SUFFICES ASSUME T[j].kind \in L PROVE FALSE
        OBVIOUS
      <4>2. j + l \in DOMAIN A /\ A[j + l] = T[j]
        BY <1>3, <4>1
      <4>3. j + l > i + l
        BY <1>3, <1>4, <3>3
      <4> QED
        BY <3>2, <4>1, <4>2, <4>3
    <3> QED
      BY <1>2, <3>2, <3>3
  <2> QED
    BY <2>1, <2>2 DEF EntersOnce
<1>7. AsksHere(S, q)
  <2>1. SUFFICES ASSUME NEW i \in DOMAIN S, S[i].kind = "list",
                        \A j \in DOMAIN S : j > i => S[j].kind # "list"
                 PROVE  S[i].path = q.cur
    BY DEF AsksHere
  <2>2. i + k \in DOMAIN R /\ R[i + k] = S[i]
    BY <1>2, <2>1
  <2>3. ASSUME NEW j \in DOMAIN R, j > i + k PROVE R[j].kind # "list"
    <3>1. SUFFICES ASSUME R[j].kind = "list" PROVE FALSE
      OBVIOUS
    <3>2. j - k \in DOMAIN S /\ S[j - k] = R[j]
      BY <1>2, <3>1
    <3>3. j - k > i
      BY <1>2, <1>4, <2>3
    <3> QED
      BY <2>1, <3>1, <3>2, <3>3
  <2> QED
    BY <1>1, <1>5, <2>1, <2>2, <2>3 DEF AsksHere
<1>8. ASSUME ~Refreshing(S, T, C)
      PROVE  /\ EnteredIsThere(T, q, g)
             /\ ~EntersNow(T) => ListIsThere(T, q, g) /\ ShownIsThere(T, q, g)
  <2>1. SameLists(R, A, p, f, g) /\ ~Refreshing(R, A, B)
    BY <1>8
  <2>2. /\ EnteredIsThere(A, p, f)
        /\ ~EntersNow(A) => ListIsThere(A, p, f) /\ ShownIsThere(A, p, f)
    BY <2>1 DEF View
  <2>3. ListOf(g, q.cur) = ListOf(f, p.cur)
    BY <1>1, <2>1 DEF SameLists
  <2>4. EnteredIsThere(T, q, g)
    <3>1. SUFFICES ASSUME NEW i \in DOMAIN T, T[i].kind = "entered", T[i].ok
                   PROVE  T[i].list = ListOf(g, Append(q.cur, q.enter))
      BY DEF EnteredIsThere
    <3>2. i + l \in DOMAIN A /\ A[i + l] = T[i]
      BY <1>3, <3>1
    <3>3. EnteringIn(R, A)
      BY <3>1, <3>2 DEF EnteringIn
    <3>4. T[i].list = ListOf(f, Append(p.cur, p.enter))
      BY <2>2, <3>1, <3>2 DEF EnteredIsThere
    <3> QED
      BY <1>1, <2>1, <3>3, <3>4 DEF SameLists
  <2>5. ASSUME ~EntersNow(T) PROVE ListIsThere(T, q, g) /\ ShownIsThere(T, q, g)
    <3>1. ~EntersNow(A)
      <4>1. SUFFICES ASSUME NEW i \in DOMAIN A, A[i].kind = "entered", A[i].ok PROVE FALSE
        BY DEF EntersNow
      <4>2. i - l \in DOMAIN T /\ T[i - l] = A[i]
        BY <1>3, <4>1
      <4> QED
        BY <2>5, <4>1, <4>2 DEF EntersNow
    <3>2. ListIsThere(T, q, g)
      <4>1. SUFFICES ASSUME NEW i \in DOMAIN T, T[i].kind = "list",
                            \A j \in DOMAIN T : j > i => T[j].kind # "list"
                     PROVE  T[i].list = ListOf(g, q.cur)
        BY DEF ListIsThere
      <4>2. i + l \in DOMAIN A /\ A[i + l] = T[i]
        BY <1>3, <4>1
      <4>3. ASSUME NEW j \in DOMAIN A, j > i + l PROVE A[j].kind # "list"
        <5>1. SUFFICES ASSUME A[j].kind = "list" PROVE FALSE
          OBVIOUS
        <5>2. j - l \in DOMAIN T /\ T[j - l] = A[j]
          BY <1>3, <5>1
        <5>3. j - l > i
          BY <1>3, <1>4, <4>3
        <5> QED
          BY <4>1, <5>1, <5>2, <5>3
      <4>4. A[i + l].list = ListOf(f, p.cur)
        BY <2>2, <3>1, <4>1, <4>2, <4>3 DEF ListIsThere
      <4> QED
        BY <2>3, <4>2, <4>4
    <3>3. ShownIsThere(T, q, g)
      <4>1. SUFFICES ASSUME \A i \in DOMAIN T : T[i].kind # "list" PROVE q.shown = ListOf(g, q.cur)
        BY DEF ShownIsThere
      <4>2. \A i \in DOMAIN A : A[i].kind # "list"
        BY <1>3, <4>1
      <4> QED
        BY <1>1, <2>2, <2>3, <3>1, <4>2 DEF ShownIsThere
    <3> QED
      BY <3>2, <3>3
  <2> QED
    BY <2>4, <2>5
<1> QED
  BY <1>6, <1>7, <1>8 DEF View
-----------------------------------------------------------------------------
(* The view: lists asked for and taken.                                    *)

\* The list of where the panel is is asked for, and nothing is being entered.
LEMMA ViewFlushed ==
  ASSUME NEW c \in Users, NEW R \in Seq(Requests(c)), NEW A, NEW T, NEW B, NEW q, NEW f,
         ListRequest(q.cur) \in Requests(c), ~EnteringIn(R, A),
         EnteringIn(R, T) => EnteringIn(R, A)
  PROVE  View(Append(R, ListRequest(q.cur)), T, B, q, f)
<1>1. PICK r : r = ListRequest(q.cur)
  OBVIOUS
<1>2. r.kind = "list" /\ r.path = q.cur
  BY <1>1 DEF ListRequest
<1>3. PICK S : S = Append(R, r)
  OBVIOUS
<1>4. /\ Len(R) \in Nat
      /\ \A i \in DOMAIN S : (i \in DOMAIN R /\ S[i] = R[i]) \/ (i = Len(R) + 1 /\ S[i] = r)
      /\ \A i \in DOMAIN R : i < Len(R) + 1
      /\ Len(R) + 1 \in DOMAIN S /\ S[Len(R) + 1] = r
  BY <1>1, <1>3, Grown
<1>5. ~EnteringIn(S, T)
  BY <1>2, <1>4 DEF EnteringIn
<1>6. EntersOnce(S, T, q)
  BY <1>5 DEF EntersOnce, EnteringIn
<1>7. AsksHere(S, q)
  BY <1>2, <1>4 DEF AsksHere
<1>8. Refreshing(S, T, B)
  BY <1>2, <1>4 DEF Refreshing
<1> QED
  BY <1>1, <1>3, <1>6, <1>7, <1>8 DEF View

\* A directory is asked for, and nothing is being entered.
LEMMA ViewAsksIn ==
  ASSUME NEW c \in Users, NEW R \in Seq(Requests(c)), NEW A, NEW B, NEW p, NEW q, NEW f, NEW n,
         EnterRequest(p, n) \in Requests(c), ~EnteringIn(R, A),
         q.cur = p.cur, q.enter = n, q.shown = p.shown, View(R, A, B, p, f)
  PROVE  View(Append(R, EnterRequest(p, n)), A, B, q, f)
<1>1. PICK r : r = EnterRequest(p, n)
  OBVIOUS
<1>2. r.kind = "enter" /\ r.path = Append(q.cur, q.enter)
  BY <1>1 DEF EnterRequest
<1>3. PICK S : S = Append(R, r)
  OBVIOUS
<1>4. /\ Len(R) \in Nat
      /\ \A i \in DOMAIN S : (i \in DOMAIN R /\ S[i] = R[i]) \/ (i = Len(R) + 1 /\ S[i] = r)
      /\ \A i \in DOMAIN R : i \in DOMAIN S /\ S[i] = R[i] /\ i < Len(R) + 1
      /\ Len(R) + 1 \in DOMAIN S /\ S[Len(R) + 1] = r
  BY <1>1, <1>3, Grown
<1>5. /\ \A i \in DOMAIN R : R[i].kind # "enter"
      /\ \A i \in DOMAIN A : A[i].kind # "entered"
  BY DEF EnteringIn
<1>6. EntersOnce(S, A, q)
  <2>1. ASSUME NEW i \in DOMAIN S, S[i].kind = "enter"
        PROVE  S[i].path = Append(q.cur, q.enter) /\ \A j \in DOMAIN S : ~(j > i)
    BY <1>2, <1>4, <1>5, <2>1
  <2> QED
    BY <1>5, <2>1 DEF EntersOnce
<1>7. AsksHere(R, p)
  BY DEF View
<1>8. AsksHere(S, q)
  <2>1. SUFFICES ASSUME NEW i \in DOMAIN S, S[i].kind = "list",
                        \A j \in DOMAIN S : j > i => S[j].kind # "list"
                 PROVE  S[i].path = q.cur
    BY DEF AsksHere
  <2>2. i \in DOMAIN R /\ S[i] = R[i]
    BY <1>2, <1>4, <2>1
  <2>3. \A j \in DOMAIN R : j > i => R[j].kind # "list"
    BY <1>4, <2>1
  <2> QED
    BY <1>7, <2>1, <2>2, <2>3 DEF AsksHere
<1>9. Refreshing(R, A, B) => Refreshing(S, A, B)
  BY <1>4 DEF Refreshing
<1>10. EnteredIsThere(A, q, f) /\ ~EntersNow(A)
  BY <1>5 DEF EnteredIsThere, EntersNow
<1>11. ~Refreshing(R, A, B) => ListIsThere(A, q, f) /\ ShownIsThere(A, q, f)
  BY <1>10 DEF View, ListIsThere, ShownIsThere
<1> QED
  BY <1>1, <1>3, <1>6, <1>8, <1>9, <1>10, <1>11 DEF View

\* The answer with a list is taken.
LEMMA ViewTakesList ==
  ASSUME NEW R, NEW A \in Seq(Responses), A # <<>>, NEW a, a = Head(A), a.kind = "list",
         NEW B, NEW p, NEW q, q.cur = p.cur, q.enter = p.enter, q.shown = a.list, NEW f,
         View(R, A, B, p, f)
  PROVE  View(R, Tail(A), B, q, f)
<1>1. PICK T : T = Tail(A)
  OBVIOUS
<1>2. /\ 1 \in DOMAIN A /\ A[1] = a
      /\ \A i \in DOMAIN T : i \in Nat /\ i + 1 \in DOMAIN A /\ T[i] = A[i + 1]
      /\ \A i \in DOMAIN A : i \in Nat \ {0} /\ (i = 1 \/ (i - 1 \in DOMAIN T /\ T[i - 1] = A[i]))
  BY <1>1, Shrunk
<1>3. EntersOnce(R, A, p) /\ AsksHere(R, p)
  BY DEF View
<1>4. EntersOnce(R, T, q)
  <2>1. \A i \in DOMAIN T : T[i].kind = "entered" =>
          /\ \A j \in DOMAIN R : R[j].kind # "list"
          /\ \A j \in DOMAIN T : j > i => T[j].kind \notin {"list", "entered"}
    BY <1>2, <1>3 DEF EntersOnce
  <2>2. \A i \in DOMAIN R : R[i].kind = "enter" =>
          /\ R[i].path = Append(q.cur, q.enter)
          /\ \A j \in DOMAIN R : j > i => R[j].kind \notin {"list", "enter"}
          /\ \A j \in DOMAIN T : T[j].kind # "entered"
    BY <1>2, <1>3 DEF EntersOnce
  <2> QED
    BY <2>1, <2>2 DEF EntersOnce
<1>5. AsksHere(R, q)
  BY <1>3 DEF AsksHere
<1>6. Refreshing(R, A, B) => Refreshing(R, T, B)
  BY <1>2 DEF Refreshing
<1>7. ASSUME ~Refreshing(R, A, B)
      PROVE  /\ EnteredIsThere(T, q, f)
             /\ ~EntersNow(T) => ListIsThere(T, q, f) /\ ShownIsThere(T, q, f)
  <2>1. /\ EnteredIsThere(A, p, f)
        /\ ~EntersNow(A) => ListIsThere(A, p, f)
    BY <1>7 DEF View
  <2>2. EnteredIsThere(T, q, f)
    BY <1>2, <2>1 DEF EnteredIsThere
  <2>3. ASSUME ~EntersNow(T) PROVE ListIsThere(T, q, f) /\ ShownIsThere(T, q, f)
    <3>1. ~EntersNow(A)
      BY <1>2, <2>3 DEF EntersNow
    <3>2. ListIsThere(A, p, f)
      BY <2>1, <3>1
    <3>3. ListIsThere(T, q, f)
      <4>1. SUFFICES ASSUME NEW i \in DOMAIN T, T[i].kind = "list",
                            \A j \in DOMAIN T : j > i => T[j].kind # "list"
                     PROVE  T[i].list = ListOf(f, q.cur)
        BY DEF ListIsThere
      <4>2. i + 1 \in DOMAIN A /\ A[i + 1] = T[i]
        BY <1>2
      <4>3. ASSUME NEW j \in DOMAIN A, j > i + 1 PROVE A[j].kind # "list"
        <5>1. j \in Nat /\ i \in Nat
          BY <1>2
        <5>2. j - 1 \in DOMAIN T /\ T[j - 1] = A[j] /\ j - 1 > i
          BY <1>2, <4>3, <5>1
        <5> QED
          BY <4>1, <5>2
      <4> QED
        BY <3>2, <4>1, <4>2, <4>3 DEF ListIsThere
    <3>4. ShownIsThere(T, q, f)
      <4>1. SUFFICES ASSUME \A i \in DOMAIN T : T[i].kind # "list" PROVE a.list = ListOf(f, p.cur)
        BY DEF ShownIsThere
      <4>2. ASSUME NEW j \in DOMAIN A, j > 1 PROVE A[j].kind # "list"
        <5>1. j - 1 \in DOMAIN T /\ T[j - 1] = A[j]
          BY <1>2, <4>2
        <5> QED
          BY <4>1, <5>1
      <4> QED
        BY <1>2, <3>2, <4>2 DEF ListIsThere
    <3> QED
      BY <3>3, <3>4
  <2> QED
    BY <2>2, <2>3
<1> QED
  BY <1>1, <1>4, <1>5, <1>6, <1>7 DEF View

\* The answer about the directory is taken: it was entered, or it is none.
LEMMA ViewTakesEntered ==
  ASSUME NEW R, NEW A \in Seq(Responses), A # <<>>, NEW a, a = Head(A), a.kind = "entered",
         NEW B, NEW p, NEW q, NEW f,
         IF a.ok THEN q.cur = Append(p.cur, p.enter) /\ q.shown = a.list ELSE q = p,
         View(R, A, B, p, f)
  PROVE  View(R, Tail(A), B, q, f)
<1>1. PICK T : T = Tail(A)
  OBVIOUS
<1>2. /\ 1 \in DOMAIN A /\ A[1] = a
      /\ \A i \in DOMAIN T : i \in Nat \ {0} /\ i + 1 \in DOMAIN A /\ T[i] = A[i + 1]
      /\ \A i \in DOMAIN A : i \in Nat \ {0} /\ (i = 1 \/ (i - 1 \in DOMAIN T /\ T[i - 1] = A[i]))
  BY <1>1, Shrunk
<1>3. EntersOnce(R, A, p)
  BY DEF View
<1>4. /\ \A j \in DOMAIN R : R[j].kind \notin {"list", "enter"}
      /\ \A j \in DOMAIN A : j > 1 => A[j].kind \notin {"list", "entered"}
  BY <1>2, <1>3 DEF EntersOnce
<1>5. \A j \in DOMAIN T : T[j].kind \notin {"list", "entered"}
  <2>1. ASSUME NEW j \in DOMAIN T PROVE T[j].kind \notin {"list", "entered"}
    <3>1. j + 1 \in DOMAIN A /\ j + 1 > 1 /\ T[j] = A[j + 1]
      BY <1>2
    <3> QED
      BY <1>4, <3>1
  <2> QED
    BY <2>1
<1>6. EntersOnce(R, T, q) /\ AsksHere(R, q)
  BY <1>4, <1>5 DEF EntersOnce, AsksHere
<1>7. Refreshing(R, A, B) => Refreshing(R, T, B)
  BY <1>2 DEF Refreshing
<1>8. EnteredIsThere(T, q, f) /\ ListIsThere(T, q, f)
  BY <1>5 DEF EnteredIsThere, ListIsThere
<1>9. ASSUME ~Refreshing(R, A, B) PROVE q.shown = ListOf(f, q.cur)
  <2>1. CASE a.ok
    <3>1. a.list = ListOf(f, Append(p.cur, p.enter))
      BY <1>2, <1>9, <2>1 DEF View, EnteredIsThere
    <3> QED
      BY <2>1, <3>1
  <2>2. CASE ~a.ok
    <3>1. ~EntersNow(A)
      <4>1. \A i \in DOMAIN A : A[i].kind = "entered" => i = 1
        BY <1>2, <1>4
      <4> QED
        BY <1>2, <2>2, <4>1 DEF EntersNow
    <3>2. \A i \in DOMAIN A : A[i].kind # "list"
      BY <1>2, <1>4
    <3> QED
      BY <1>9, <2>2, <3>1, <3>2 DEF View, ShownIsThere
  <2> QED
    BY <2>1, <2>2
<1> QED
  BY <1>1, <1>6, <1>7, <1>8, <1>9 DEF View, ShownIsThere

\* The list that was asked for is sent.
LEMMA ViewServesList ==
  ASSUME NEW c, NEW R \in Seq(Requests(c)), R # <<>>, NEW r, r = Head(R), r.kind = "list",
         NEW A \in Seq(Responses), NEW B, NEW p, NEW f,
         NEW a \in Responses, a.kind = "list", a.list = ListOf(f, r.path),
         View(R, A, B, p, f)
  PROVE  View(Tail(R), Append(A, a), B, p, f)
<1>1. PICK S, T : S = Tail(R) /\ T = Append(A, a)
  OBVIOUS
<1>2. /\ 1 \in DOMAIN R /\ R[1] = r
      /\ \A i \in DOMAIN S : i \in Nat /\ i + 1 \in DOMAIN R /\ S[i] = R[i + 1]
      /\ \A i \in DOMAIN R : i \in Nat \ {0} /\ (i = 1 \/ (i - 1 \in DOMAIN S /\ S[i - 1] = R[i]))
  BY <1>1, Shrunk
<1>3. /\ Len(A) \in Nat
      /\ \A i \in DOMAIN T : (i \in DOMAIN A /\ T[i] = A[i]) \/ (i = Len(A) + 1 /\ T[i] = a)
      /\ \A i \in DOMAIN A : i \in DOMAIN T /\ T[i] = A[i] /\ i < Len(A) + 1
      /\ Len(A) + 1 \in DOMAIN T /\ T[Len(A) + 1] = a
  BY <1>1, Grown
<1>4. EntersOnce(R, A, p) /\ AsksHere(R, p)
  BY DEF View
<1>5. \A i \in DOMAIN T : T[i].kind # "entered"
  BY <1>2, <1>3, <1>4 DEF EntersOnce
<1>6. EntersOnce(S, T, p)
  <2>1. ASSUME NEW i \in DOMAIN S, S[i].kind = "enter"
        PROVE  /\ S[i].path = Append(p.cur, p.enter)
               /\ \A j \in DOMAIN S : j > i => S[j].kind \notin {"list", "enter"}
    <3>1. i + 1 \in DOMAIN R /\ R[i + 1] = S[i]
      BY <1>2
    <3>2. /\ R[i + 1].path = Append(p.cur, p.enter)
          /\ \A j \in DOMAIN R : j > i + 1 => R[j].kind \notin {"list", "enter"}
      BY <1>4, <2>1, <3>1 DEF EntersOnce
    <3> QED
      BY <1>2, <3>1, <3>2
  <2> QED
    BY <1>5, <2>1 DEF EntersOnce
<1>7. AsksHere(S, p)
  <2>1. SUFFICES ASSUME NEW i \in DOMAIN S, S[i].kind = "list",
                        \A j \in DOMAIN S : j > i => S[j].kind # "list"
                 PROVE  S[i].path = p.cur
    BY DEF AsksHere
  <2>2. i + 1 \in DOMAIN R /\ R[i + 1] = S[i]
    BY <1>2
  <2>3. \A j \in DOMAIN R : j > i + 1 => R[j].kind # "list"
    BY <1>2, <2>1
  <2> QED
    BY <1>4, <2>1, <2>2, <2>3 DEF AsksHere
<1>8. ASSUME ~Refreshing(S, T, B) PROVE ListIsThere(T, p, f)
  <2>1. \A j \in DOMAIN S : S[j].kind # "list"
    BY <1>8 DEF Refreshing
  <2>2. ASSUME NEW j \in DOMAIN R, j > 1 PROVE R[j].kind # "list"
    <3>1. j - 1 \in DOMAIN S /\ S[j - 1] = R[j]
      BY <1>2, <2>2
    <3> QED
      BY <2>1, <3>1
  <2>3. r.path = p.cur
    BY <1>2, <1>4, <2>2 DEF AsksHere
  <2>4. ASSUME NEW i \in DOMAIN T, \A j \in DOMAIN T : j > i => T[j].kind # "list"
        PROVE  T[i] = a
    BY <1>3, <2>4
  <2> QED
    BY <2>3, <2>4 DEF ListIsThere
<1>9. EnteredIsThere(T, p, f) /\ ShownIsThere(T, p, f)
  BY <1>3, <1>5 DEF EnteredIsThere, ShownIsThere
<1> QED
  BY <1>1, <1>6, <1>7, <1>8, <1>9 DEF View

\* The answer about the directory is sent.
LEMMA ViewServesEnter ==
  ASSUME NEW c, NEW R \in Seq(Requests(c)), R # <<>>, NEW r, r = Head(R), r.kind = "enter",
         NEW A \in Seq(Responses), NEW B, NEW p, NEW f,
         NEW a \in Responses, a.kind = "entered", a.ok => a.list = ListOf(f, r.path),
         View(R, A, B, p, f)
  PROVE  View(Tail(R), Append(A, a), B, p, f)
<1>1. PICK S, T : S = Tail(R) /\ T = Append(A, a)
  OBVIOUS
<1>2. /\ 1 \in DOMAIN R /\ R[1] = r
      /\ \A i \in DOMAIN S : i \in Nat \ {0} /\ i + 1 \in DOMAIN R /\ S[i] = R[i + 1]
      /\ \A i \in DOMAIN R : i \in Nat \ {0} /\ (i = 1 \/ (i - 1 \in DOMAIN S /\ S[i - 1] = R[i]))
  BY <1>1, Shrunk
<1>3. /\ Len(A) \in Nat
      /\ \A i \in DOMAIN T : (i \in DOMAIN A /\ T[i] = A[i]) \/ (i = Len(A) + 1 /\ T[i] = a)
      /\ \A i \in DOMAIN A : i \in DOMAIN T /\ T[i] = A[i] /\ i < Len(A) + 1
      /\ Len(A) + 1 \in DOMAIN T /\ T[Len(A) + 1] = a
  BY <1>1, Grown
<1>4. /\ r.path = Append(p.cur, p.enter)
      /\ \A j \in DOMAIN R : j > 1 => R[j].kind \notin {"list", "enter"}
      /\ \A j \in DOMAIN A : A[j].kind # "entered"
  BY <1>2 DEF View, EntersOnce
<1>5. \A j \in DOMAIN S : S[j].kind \notin {"list", "enter"}
  <2>1. ASSUME NEW j \in DOMAIN S PROVE S[j].kind \notin {"list", "enter"}
    <3>1. j + 1 \in DOMAIN R /\ j + 1 > 1 /\ S[j] = R[j + 1]
      BY <1>2
    <3> QED
      BY <1>4, <3>1
  <2> QED
    BY <2>1
<1>6. \A i \in DOMAIN T : T[i].kind = "entered" => i = Len(A) + 1 /\ T[i] = a
  BY <1>3, <1>4
<1>7. EntersOnce(S, T, p) /\ AsksHere(S, p)
  <2>1. \A i \in DOMAIN T : \A j \in DOMAIN T : T[i].kind = "entered" => ~(j > i)
    BY <1>3, <1>6
  <2> QED
    BY <1>5, <2>1 DEF EntersOnce, AsksHere
<1>8. Refreshing(R, A, B) => Refreshing(S, T, B)
  BY <1>2, <1>3 DEF Refreshing
<1>9. ASSUME ~Refreshing(R, A, B)
      PROVE  /\ EnteredIsThere(T, p, f)
             /\ ~EntersNow(T) => ListIsThere(T, p, f) /\ ShownIsThere(T, p, f)
  <2>1. EnteredIsThere(T, p, f)
    BY <1>4, <1>6 DEF EnteredIsThere
  <2>2. ListIsThere(A, p, f) /\ ShownIsThere(A, p, f)
    BY <1>4, <1>9 DEF View, EntersNow
  <2>3. ListIsThere(T, p, f)
    <3>1. SUFFICES ASSUME NEW i \in DOMAIN T, T[i].kind = "list",
                          \A j \in DOMAIN T : j > i => T[j].kind # "list"
                   PROVE  T[i].list = ListOf(f, p.cur)
      BY DEF ListIsThere
    <3>2. i \in DOMAIN A /\ T[i] = A[i]
      BY <1>3, <3>1
    <3>3. \A j \in DOMAIN A : j > i => A[j].kind # "list"
      BY <1>3, <3>1
    <3> QED
      BY <2>2, <3>1, <3>2, <3>3 DEF ListIsThere
  <2>4. ShownIsThere(T, p, f)
    BY <1>3, <2>2 DEF ShownIsThere
  <2> QED
    BY <2>1, <2>3, <2>4
<1> QED
  BY <1>1, <1>7, <1>8, <1>9 DEF View
-----------------------------------------------------------------------------
(* The view is kept up to date.                                            *)

LEMMA PartsAfter ==
  ASSUME Types', NEW c \in Users
  PROVE  /\ req'[c] \in Seq(Requests(c)) /\ ans'[c] \in Seq(Responses) /\ box'[c] \in Seq(Boxes)
         /\ ui'[c] \in Panels(c)
  BY DEF Types, Client

LEMMA ViewsLocal ==
  ASSUME Views, NEW c \in Users, Local(c),
         c \notin mixed' => View(req'[c], ans'[c], box'[c], ui'[c], fs')
  PROVE  Views'
<1>1. ASSUME NEW u \in Users \ mixed' PROVE View(req'[u], ans'[u], box'[u], ui'[u], fs')
  <2>1. CASE u = c
    BY <2>1
  <2>2. CASE u # c
    <3>1. /\ req'[u] = req[u] /\ ans'[u] = ans[u] /\ box'[u] = box[u] /\ ui'[u] = ui[u] /\ fs' = fs
          /\ u \notin mixed /\ Defined
      BY <2>2 DEF Local, Marks
    <3> QED
      BY <3>1 DEF Views
  <2> QED
    BY <2>1, <2>2
<1> QED
  BY <1>1 DEF Views

\* A click, or an answer, that does not concern the list.
LEMMA ViewsLike ==
  ASSUME Types, Types', Views, NEW c \in Users, Local(c), SamePlace(ui[c], ui'[c]),
         Like(req[c], req'[c], {"list", "enter"}), Like(ans[c], ans'[c], {"list", "entered"}),
         Refreshing(req[c], ans[c], box[c]) => Refreshing(req'[c], ans'[c], box'[c])
  PROVE  Views'
<1>1. SUFFICES ASSUME c \notin mixed' PROVE View(req'[c], ans'[c], box'[c], ui'[c], fs')
  BY ViewsLocal
<1>2. fs' = fs /\ View(req[c], ans[c], box[c], ui[c], fs)
  BY <1>1 DEF Local, Marks, Views
<1>3. req[c] \in Seq(Requests(c)) /\ ans[c] \in Seq(Responses)
  BY ClientParts
<1>4. req'[c] \in Seq(Requests(c)) /\ ans'[c] \in Seq(Responses)
  BY PartsAfter
<1>5. SameLists(req[c], ans[c], ui[c], fs, fs')
  BY <1>2 DEF SameLists
<1>6. PICK R, S, A, T, B, C, p, q, f :
        /\ R = req[c] /\ S = req'[c] /\ A = ans[c] /\ T = ans'[c] /\ B = box[c] /\ C = box'[c]
        /\ p = ui[c] /\ q = ui'[c] /\ f = fs
  OBVIOUS
<1>7. View(S, T, C, q, f)
  <2>1. /\ R \in Seq(Requests(c)) /\ S \in Seq(Requests(c)) /\ A \in Seq(Responses) /\ T \in Seq(Responses)
    BY <1>3, <1>4, <1>6
  <2>2. Like(R, S, {"list", "enter"}) /\ Like(A, T, {"list", "entered"}) /\ SamePlace(p, q)
    BY <1>6
  <2>3. Refreshing(S, T, C) \/ (~Refreshing(R, A, B) /\ SameLists(R, A, p, f, f))
    BY <1>2, <1>5, <1>6
  <2>4. View(R, A, B, p, f)
    BY <1>2, <1>6
  <2> QED
    BY <2>1, <2>2, <2>3, <2>4, ViewLike
<1> QED
  BY <1>2, <1>6, <1>7

\* What was asked for, and what there is to take, is so still with one more request.
LEMMA RefreshingAsked ==
  ASSUME NEW c, NEW R \in Seq(Requests(c)), NEW r \in Requests(c), NEW A, NEW B, Refreshing(R, A, B)
  PROVE  Refreshing(Append(R, r), A, B)
<1>1. PICK S : S = Append(R, r)
  OBVIOUS
<1>2. \A i \in DOMAIN R : i \in DOMAIN S /\ S[i] = R[i]
  BY <1>1, Grown
<1>3. Refreshing(S, A, B)
  BY <1>2 DEF Refreshing
<1> QED
  BY <1>1, <1>3

LEMMA ViewsPicked ==
  ASSUME Types, Types', Views, NEW c \in Users, Picked(c), SamePlace(ui[c], ui'[c])
  PROVE  Views'
<1>1. Local(c) /\ req' = req /\ ans' = ans /\ box' = box
  BY DEF Picked
<1>2. req[c] \in Seq(Requests(c)) /\ ans[c] \in Seq(Responses)
  BY ClientParts
<1>3. Like(req[c], req'[c], {"list", "enter"}) /\ Like(ans[c], ans'[c], {"list", "entered"})
  BY <1>1, <1>2, LikeSelf
<1> QED
  BY <1>1, <1>3, ViewsLike

LEMMA ViewsAsked ==
  ASSUME Types, Types', Views, NEW c \in Users, NEW r, Asked(c, r), r.kind \notin {"list", "enter"},
         SamePlace(ui[c], ui'[c])
  PROVE  Views'
<1>1. /\ Local(c) /\ req'[c] = Append(req[c], r) /\ ans' = ans /\ box' = box /\ r \in Requests(c)
  BY DEF Asked
<1>2. req[c] \in Seq(Requests(c)) /\ ans[c] \in Seq(Responses)
  BY ClientParts
<1>3. Like(req[c], req'[c], {"list", "enter"}) /\ Like(ans[c], ans'[c], {"list", "entered"})
  BY <1>1, <1>2, LikeSelf, LikeGrown
<1>4. Refreshing(req[c], ans[c], box[c]) => Refreshing(req'[c], ans'[c], box'[c])
  BY <1>1, <1>2, RefreshingAsked
<1> QED
  BY <1>1, <1>3, <1>4, ViewsLike

\* The list of where the panel is now is asked for.
LEMMA ViewsFlushed ==
  ASSUME Types, Views, NEW c \in Users, Local(c), NEW p, p = ui'[c].cur,
         ListRequest(p) \in Requests(c), Mixes(c, ListRequest(p)), req'[c] = Append(req[c], ListRequest(p)),
         EnteringIn(req[c], ans'[c]) => EnteringIn(req[c], ans[c])
  PROVE  Views'
<1>1. SUFFICES ASSUME c \notin mixed' PROVE View(req'[c], ans'[c], box'[c], ui'[c], fs')
  BY ViewsLocal
<1>2. req[c] \in Seq(Requests(c))
  BY ClientParts
<1>3. ~EnteringIn(req[c], ans[c])
  <2>1. ListRequest(p).kind = "list"
    BY DEF ListRequest
  <2> QED
    BY <1>1, <2>1 DEF Mixes, Entering, EnteringIn
<1>4. PICK R, A, T, B, q, f : R = req[c] /\ A = ans[c] /\ T = ans'[c] /\ B = box'[c] /\ q = ui'[c] /\ f = fs'
  OBVIOUS
<1>5. View(Append(R, ListRequest(q.cur)), T, B, q, f)
  <2>1. R \in Seq(Requests(c)) /\ ListRequest(q.cur) \in Requests(c) /\ ~EnteringIn(R, A)
        /\ (EnteringIn(R, T) => EnteringIn(R, A))
    BY <1>2, <1>3, <1>4
  <2> QED
    BY <2>1, ViewFlushed
<1> QED
  BY <1>4, <1>5

LEMMA ViewsUser ==
  ASSUME Types, Types', Views, NEW c \in Users, User(c)
  PROVE  Views'
<1>1. CASE ClickItem(c)
  BY <1>1, ClickItemIs, ViewsPicked
<1>2. ASSUME NEW p, p = ui'[c].cur, Asked(c, ListRequest(p))
      PROVE  Views'
  <2>1. /\ Local(c) /\ ListRequest(p) \in Requests(c) /\ Mixes(c, ListRequest(p))
        /\ req'[c] = Append(req[c], ListRequest(p)) /\ ans' = ans
    BY <1>2 DEF Asked
  <2> QED
    BY <1>2, <2>1, ViewsFlushed
<1>3. CASE ClickFlush(c)
  <2>1. Asked(c, ListRequest(ui[c].cur)) /\ ui'[c] = Off(ui[c])
    BY <1>3, ClickFlushIs
  <2>2. ui'[c].cur = ui[c].cur
    <3>1. ui[c] \in Panels(c)
      BY ClientParts
    <3> QED
      BY <2>1, <3>1 DEF Off, Panels
  <2> QED
    BY <1>2, <2>1, <2>2
<1>4. CASE ClickCreate(c)
  <2>1. PICK r : Asked(c, r) /\ ui'[c] = ui[c] /\ r.kind = "create"
    BY <1>4, ClickCreateIs
  <2>2. r.kind \notin {"list", "enter"} /\ SamePlace(ui[c], ui'[c])
    BY <2>1 DEF SamePlace
  <2> QED
    BY <2>1, <2>2, ViewsAsked
<1>5. CASE ClickDelete(c)
  <2>1. PICK r : Asked(c, r) /\ ui'[c] = ui[c] /\ r = DeleteRequest(ui[c])
    BY <1>5, ClickDeleteIs
  <2>2. r.kind \notin {"list", "enter"} /\ SamePlace(ui[c], ui'[c])
    BY <2>1 DEF SamePlace, DeleteRequest
  <2> QED
    BY <2>1, <2>2, ViewsAsked
<1>6. CASE ClickRename(c)
  <2>1. PICK r, n : Asked(c, r) /\ ui'[c] = ui[c] /\ r = RenameRequest(ui[c], n)
    BY <1>6, ClickRenameIs
  <2>2. r.kind \notin {"list", "enter"} /\ SamePlace(ui[c], ui'[c])
    BY <2>1 DEF SamePlace, RenameRequest
  <2> QED
    BY <2>1, <2>2, ViewsAsked
<1>7. CASE DoubleClick(c)
  <2>1. PICK n : /\ Asked(c, EnterRequest(ui[c], n))
                 /\ ui'[c].cur = ui[c].cur /\ ui'[c].enter = n /\ ui'[c].shown = ui[c].shown
    BY <1>7, DoubleClickIs
  <2>2. /\ Local(c) /\ EnterRequest(ui[c], n) \in Requests(c) /\ Mixes(c, EnterRequest(ui[c], n))
        /\ req'[c] = Append(req[c], EnterRequest(ui[c], n)) /\ ans' = ans /\ box' = box
    BY <2>1 DEF Asked
  <2>3. SUFFICES ASSUME c \notin mixed' PROVE View(req'[c], ans'[c], box'[c], ui'[c], fs')
    BY <2>2, ViewsLocal
  <2>4. ~EnteringIn(req[c], ans[c])
    <3>1. EnterRequest(ui[c], n).kind = "enter"
      BY DEF EnterRequest
    <3> QED
      BY <2>2, <2>3, <3>1 DEF Mixes, Entering, EnteringIn
  <2>5. fs' = fs /\ View(req[c], ans[c], box[c], ui[c], fs)
    BY <2>2, <2>3 DEF Local, Marks, Views
  <2>6. req[c] \in Seq(Requests(c))
    BY ClientParts
  <2>7. PICK R, A, B, p, q, f : /\ R = req[c] /\ A = ans[c] /\ B = box[c] /\ p = ui[c] /\ q = ui'[c]
                                /\ f = fs
    OBVIOUS
  <2>8. View(Append(R, EnterRequest(p, n)), A, B, q, f)
    <3>1. /\ R \in Seq(Requests(c)) /\ EnterRequest(p, n) \in Requests(c) /\ ~EnteringIn(R, A)
          /\ q.cur = p.cur /\ q.enter = n /\ q.shown = p.shown
      BY <2>1, <2>2, <2>4, <2>6, <2>7
    <3>2. View(R, A, B, p, f)
      BY <2>5, <2>7
    <3> QED
      BY <3>1, <3>2, ViewAsksIn
  <2> QED
    BY <2>2, <2>5, <2>7, <2>8
<1>8. CASE ClickReturn(c)
  BY <1>2, <1>8, ClickReturnIs
<1>9. CASE PickMove(c)
  BY <1>9, PickMoveIs, ViewsPicked
<1>10. CASE ConfirmMove(c)
  <2>1. PICK r : Asked(c, r) /\ SamePlace(ui[c], ui'[c]) /\ r = MoveRequest(ui[c])
    BY <1>10, ConfirmMoveIs
  <2>2. r.kind \notin {"list", "enter"}
    BY <2>1 DEF MoveRequest
  <2> QED
    BY <2>1, <2>2, ViewsAsked
<1>11. CASE PickShare(c)
  BY <1>11, PickShareIs, ViewsPicked
<1>12. CASE ConfirmShare(c)
  <2>1. PICK r, d : Asked(c, r) /\ SamePlace(ui[c], ui'[c]) /\ r = ShareRequest(c, d, ui[c])
    BY <1>12, ConfirmShareIs
  <2>2. r.kind \notin {"list", "enter"}
    BY <2>1 DEF ShareRequest
  <2> QED
    BY <2>1, <2>2, ViewsAsked
<1>13. CASE CloseTold(c)
  <2>1. Closed(c, Head(box[c]), ListRequest(ui[c].cur)) /\ ui'[c] = Off(ui[c])
    BY <1>13, CloseToldIs
  <2>2. ui'[c].cur = ui[c].cur
    <3>1. ui[c] \in Panels(c)
      BY ClientParts
    <3> QED
      BY <2>1, <3>1 DEF Off, Panels
  <2>3. PICK p : p = ui[c].cur
    OBVIOUS
  <2>4. /\ Local(c) /\ ListRequest(p) \in Requests(c) /\ Mixes(c, ListRequest(p))
        /\ req'[c] = Append(req[c], ListRequest(p)) /\ ans' = ans
    BY <2>1, <2>3 DEF Closed
  <2> QED
    BY <2>2, <2>3, <2>4, ViewsFlushed
<1>14. CASE AnswerNote(c)
  <2>1. PICK r, b : /\ Closed(c, b, r) /\ ui' = ui /\ b.kind = "note"
                    /\ r.kind \in {"agree", "refuse"}
    BY <1>14, AnswerNoteIs
  <2>2. /\ Local(c) /\ box[c] # <<>> /\ b = Head(box[c]) /\ r \in Requests(c)
        /\ box'[c] = Tail(box[c]) /\ ans' = ans /\ req'[c] = Append(req[c], r)
    BY <2>1 DEF Closed
  <2>3. req[c] \in Seq(Requests(c)) /\ ans[c] \in Seq(Responses) /\ box[c] \in Seq(Boxes)
    BY ClientParts
  <2>4. Like(req[c], req'[c], {"list", "enter"}) /\ Like(ans[c], ans'[c], {"list", "entered"})
    <3>1. r.kind \notin {"list", "enter"}
      BY <2>1
    <3> QED
      BY <2>2, <2>3, <3>1, LikeSelf, LikeGrown
  <2>5. Refreshing(req[c], ans[c], box[c]) => Refreshing(req'[c], ans'[c], box'[c])
    <3>1. SUFFICES ASSUME Refreshing(req[c], ans[c], box[c]) PROVE Refreshing(req'[c], ans[c], box'[c])
      BY <2>2
    <3>2. Refreshing(req'[c], ans[c], box[c])
      BY <2>2, <2>3, <3>1, RefreshingAsked
    <3>3. \A i \in DOMAIN box[c] : i = 1 \/ (i - 1 \in DOMAIN box'[c] /\ box'[c][i - 1] = box[c][i])
      BY <2>2, <2>3, Shrunk
    <3>4. box[c][1].kind # "told"
      BY <2>1, <2>2, <2>3, Shrunk
    <3> QED
      BY <3>2, <3>3, <3>4 DEF Refreshing
  <2>6. SamePlace(ui[c], ui'[c])
    BY <2>1 DEF SamePlace
  <2> QED
    BY <2>2, <2>4, <2>5, <2>6, ViewsLike
<1> QED
  BY <1>1, <1>3, <1>4, <1>5, <1>6, <1>7, <1>8, <1>9, <1>10, <1>11, <1>12, <1>13, <1>14 DEF User
LEMMA ViewsReceive ==
  ASSUME Types, Types', Views, NEW c \in Users, Receive(c)
  PROVE  Views'
<1>1. req[c] \in Seq(Requests(c)) /\ ans[c] \in Seq(Responses) /\ box[c] \in Seq(Boxes) /\ ui[c] \in Panels(c)
  BY ClientParts
<1>2. ASSUME NEW a, Took(c, a)
      PROVE  /\ Local(c) /\ ans[c] # <<>> /\ a = Head(ans[c]) /\ ans'[c] = Tail(ans[c]) /\ a = ans[c][1]
             /\ \A i \in DOMAIN ans[c] : i = 1 \/ (i - 1 \in DOMAIN ans'[c] /\ ans'[c][i - 1] = ans[c][i])
             /\ a.kind \notin {"list", "entered"} => Like(ans[c], ans'[c], {"list", "entered"})
             /\ c \notin mixed' => fs' = fs /\ View(req[c], ans[c], box[c], ui[c], fs)
  <2>1. /\ Local(c) /\ ans[c] # <<>> /\ a = Head(ans[c]) /\ ans'[c] = Tail(ans[c])
    BY <1>2 DEF Took
  <2>2. a = ans[c][1]
        /\ \A i \in DOMAIN ans[c] : i = 1 \/ (i - 1 \in DOMAIN ans'[c] /\ ans'[c][i - 1] = ans[c][i])
    BY <1>1, <2>1, Shrunk
  <2>3. a.kind \notin {"list", "entered"} => Like(ans[c], ans'[c], {"list", "entered"})
    BY <1>1, <2>1, LikeShrunk
  <2>4. c \notin mixed' => fs' = fs /\ View(req[c], ans[c], box[c], ui[c], fs)
    BY <2>1 DEF Local, Marks, Views
  <2> QED
    BY <2>1, <2>2, <2>3, <2>4
<1>3. CASE TakeChanged(c)
  <2>1. PICK a : /\ Took(c, a) /\ a.kind = "changed" /\ box' = box
                 /\ IF a.ok THEN /\ req'[c] = Append(req[c], ListRequest(ui[c].cur))
                                 /\ Mixes(c, ListRequest(ui[c].cur)) /\ ui'[c] = Off(ui[c])
                    ELSE req' = req /\ ui' = ui
    BY <1>3, TakeChangedIs
  <2>2. CASE a.ok
    <3>1. ui'[c].cur = ui[c].cur
      BY <1>1, <2>1, <2>2 DEF Off, Panels
    <3>2. PICK p : p = ui[c].cur
      OBVIOUS
    <3>3. ListRequest(p) \in Requests(c)
      BY <1>1, <3>2, PanelFields DEF ListRequest, Requests
    <3>4. EnteringIn(req[c], ans'[c]) => EnteringIn(req[c], ans[c])
      BY <1>1, <1>2, <2>1, LessEntering
    <3> QED
      BY <1>2, <2>1, <2>2, <3>1, <3>2, <3>3, <3>4, ViewsFlushed
  <2>3. CASE ~a.ok
    <3>1. req'[c] = req[c] /\ ui'[c] = ui[c] /\ box'[c] = box[c]
      BY <2>1, <2>3
    <3>2. Like(req[c], req'[c], {"list", "enter"})
      BY <1>1, <3>1, LikeSelf
    <3>3. SamePlace(ui[c], ui'[c])
      BY <3>1 DEF SamePlace
    <3>4. Refreshing(req[c], ans[c], box[c]) => Refreshing(req'[c], ans'[c], box'[c])
      <4>1. /\ a = ans[c][1] /\ a.kind = "changed"
            /\ \A i \in DOMAIN ans[c] : i = 1 \/ (i - 1 \in DOMAIN ans'[c] /\ ans'[c][i - 1] = ans[c][i])
        BY <1>2, <2>1
      <4> QED
        BY <2>3, <3>1, <4>1 DEF Refreshing
    <3>5. Local(c) /\ Like(ans[c], ans'[c], {"list", "entered"})
      BY <1>2, <2>1
    <3> QED
      BY <3>2, <3>3, <3>4, <3>5, ViewsLike
  <2> QED
    BY <2>2, <2>3
<1>4. CASE TakeList(c)
  <2>1. PICK a : /\ Took(c, a) /\ a.kind = "list" /\ box' = box /\ req' = req
                 /\ ui'[c].cur = ui[c].cur /\ ui'[c].enter = ui[c].enter /\ ui'[c].shown = a.list
    BY <1>4, TakeListIs
  <2>2. SUFFICES ASSUME c \notin mixed' PROVE View(req'[c], ans'[c], box'[c], ui'[c], fs')
    BY <1>2, <2>1, ViewsLocal
  <2>3. /\ ans[c] # <<>> /\ a = Head(ans[c]) /\ ans'[c] = Tail(ans[c])
        /\ fs' = fs /\ View(req[c], ans[c], box[c], ui[c], fs)
    BY <1>2, <2>1, <2>2
  <2>4. PICK R, A, B, p, q, f : /\ R = req[c] /\ A = ans[c] /\ B = box[c] /\ p = ui[c] /\ q = ui'[c]
                                /\ f = fs
    OBVIOUS
  <2>5. View(R, Tail(A), B, q, f)
    <3>1. /\ A \in Seq(Responses) /\ A # <<>> /\ a = Head(A)
          /\ q.cur = p.cur /\ q.enter = p.enter /\ q.shown = a.list
      BY <1>1, <2>1, <2>3, <2>4
    <3>2. View(R, A, B, p, f)
      BY <2>3, <2>4
    <3> QED
      BY <2>1, <3>1, <3>2, ViewTakesList
  <2> QED
    BY <2>1, <2>3, <2>4, <2>5
<1>5. CASE TakeEntered(c)
  <2>1. PICK a : /\ Took(c, a) /\ a.kind = "entered" /\ box' = box /\ req' = req
                 /\ IF a.ok THEN ui'[c].cur = Append(ui[c].cur, ui[c].enter) /\ ui'[c].shown = a.list
                    ELSE ui'[c] = ui[c]
    BY <1>5, TakeEnteredIs
  <2>2. SUFFICES ASSUME c \notin mixed' PROVE View(req'[c], ans'[c], box'[c], ui'[c], fs')
    BY <1>2, <2>1, ViewsLocal
  <2>3. /\ ans[c] # <<>> /\ a = Head(ans[c]) /\ ans'[c] = Tail(ans[c])
        /\ fs' = fs /\ View(req[c], ans[c], box[c], ui[c], fs)
    BY <1>2, <2>1, <2>2
  <2>4. PICK R, A, B, p, q, f : /\ R = req[c] /\ A = ans[c] /\ B = box[c] /\ p = ui[c] /\ q = ui'[c]
                                /\ f = fs
    OBVIOUS
  <2>5. View(R, Tail(A), B, q, f)
    <3>1. /\ A \in Seq(Responses) /\ A # <<>> /\ a = Head(A)
          /\ IF a.ok THEN q.cur = Append(p.cur, p.enter) /\ q.shown = a.list ELSE q = p
      BY <1>1, <2>1, <2>3, <2>4
    <3>2. View(R, A, B, p, f)
      BY <2>3, <2>4
    <3> QED
      BY <2>1, <3>1, <3>2, ViewTakesEntered
  <2> QED
    BY <2>1, <2>3, <2>4, <2>5
<1>6. CASE TakeBox(c)
  <2>1. PICK a : /\ Took(c, a) /\ a.kind \in {"told", "note"} /\ a \in Boxes
                 /\ req' = req /\ ui' = ui /\ box'[c] = <<a>> \o box[c]
    BY <1>6, TakeBoxIs
  <2>2. Like(req[c], req'[c], {"list", "enter"})
    BY <1>1, <2>1, LikeSelf
  <2>3. SamePlace(ui[c], ui'[c])
    BY <2>1 DEF SamePlace
  <2>4. Refreshing(req[c], ans[c], box[c]) => Refreshing(req'[c], ans'[c], box'[c])
    <3>1. /\ a = ans[c][1] /\ a.kind \in {"told", "note"} /\ req' = req
          /\ \A i \in DOMAIN ans[c] : i = 1 \/ (i - 1 \in DOMAIN ans'[c] /\ ans'[c][i - 1] = ans[c][i])
      BY <1>2, <2>1
    <3>2. /\ 1 \in DOMAIN box'[c] /\ box'[c][1] = a
          /\ \A i \in DOMAIN box[c] : i + 1 \in DOMAIN box'[c] /\ box'[c][i + 1] = box[c][i]
      BY <1>1, <2>1, Pushed
    <3> QED
      BY <3>1, <3>2 DEF Refreshing
  <2>5. Local(c) /\ Like(ans[c], ans'[c], {"list", "entered"})
    <3>1. a.kind \notin {"list", "entered"}
      BY <2>1
    <3> QED
      BY <1>2, <2>1, <3>1
  <2> QED
    BY <2>2, <2>3, <2>4, <2>5, ViewsLike
<1> QED
  BY <1>3, <1>4, <1>5, <1>6 DEF Receive

LEMMA OnlySame ==
  ASSUME NEW c, NEW f
  PROVE  OnlyIn(c, f, f)
  BY DEF OnlyIn

\* A request is served that has nothing to do with lists; if the disk changed,
\* the client is told so that it asks for the list.
LEMMA ViewsServed ==
  ASSUME Types, Types', Views, NEW c \in Users, NEW r, NEW tell, Served(c, r, tell),
         r.kind \notin {"list", "enter"},
         \A u \in Users \cap DOMAIN tell : tell[u] \in Responses /\ tell[u].kind \notin {"list", "entered"},
         OnlyIn(c, fs, fs'),
         fs' = fs \/ (c \in DOMAIN tell /\ (tell[c].kind = "told" \/ (tell[c].kind = "changed" /\ tell[c].ok)))
  PROVE  Views'
<1>1. SUFFICES ASSUME NEW u \in Users \ mixed PROVE View(req'[u], ans'[u], box'[u], ui'[u], fs')
  BY DEF Served, Views
<1>2. /\ Defined /\ req[c] # <<>> /\ r = Head(req[c]) /\ r = req[c][1]
      /\ req'[c] = Tail(req[c]) /\ (u # c => req'[u] = req[u])
      /\ ans'[u] = IF u \in DOMAIN tell THEN Append(ans[u], tell[u]) ELSE ans[u]
      /\ ui' = ui /\ box' = box
  BY DEF Served
<1>3. View(req[u], ans[u], box[u], ui[u], fs)
  BY <1>2 DEF Views
<1>4. /\ req[u] \in Seq(Requests(u)) /\ ans[u] \in Seq(Responses) /\ ui[u] \in Panels(u)
      /\ EnteringIn(req[u], ans[u]) => ui[u].enter \in Names
  BY ClientParts
<1>5. req'[u] \in Seq(Requests(u)) /\ ans'[u] \in Seq(Responses)
  BY PartsAfter
<1>6. /\ Like(req[u], req'[u], {"list", "enter"})
      /\ \A i \in DOMAIN req[u] : req[u][i].kind = "list" => \E j \in DOMAIN req'[u] : req'[u][j].kind = "list"
  <2>1. CASE u = c
    <3>1. Like(req[u], req'[u], {"list", "enter"})
      BY <1>2, <1>4, <2>1, LikeShrunk
    <3>2. \A i \in DOMAIN req[u] : i = 1 \/ (i - 1 \in DOMAIN req'[u] /\ req'[u][i - 1] = req[u][i])
      <4>1. PICK s, t : s = req[u] /\ t = req'[u]
        OBVIOUS
      <4>2. s \in Seq(Requests(u)) /\ s # <<>> /\ t = Tail(s)
        BY <1>2, <1>4, <2>1, <4>1
      <4>3. \A i \in DOMAIN s : i = 1 \/ (i - 1 \in DOMAIN t /\ t[i - 1] = s[i])
        BY <4>2, Shrunk
      <4> QED
        BY <4>1, <4>3
    <3> QED
      BY <1>2, <2>1, <3>1, <3>2
  <2>2. CASE u # c
    BY <1>2, <1>4, <2>2, LikeSelf
  <2> QED
    BY <2>1, <2>2
<1>7. /\ Like(ans[u], ans'[u], {"list", "entered"})
      /\ \A i \in DOMAIN ans[u] : i \in DOMAIN ans'[u] /\ ans'[u][i] = ans[u][i]
      /\ u \in DOMAIN tell => \E i \in DOMAIN ans'[u] : ans'[u][i] = tell[u]
  <2>1. CASE u \in DOMAIN tell
    <3>1. ans'[u] = Append(ans[u], tell[u]) /\ tell[u] \in Responses /\ tell[u].kind \notin {"list", "entered"}
      BY <1>2, <2>1
    <3>2. Like(ans[u], ans'[u], {"list", "entered"})
      BY <1>4, <3>1, LikeGrown
    <3>3. /\ \A i \in DOMAIN ans[u] : i \in DOMAIN ans'[u] /\ ans'[u][i] = ans[u][i]
          /\ \E i \in DOMAIN ans'[u] : ans'[u][i] = tell[u]
      BY <1>4, <3>1, Grown
    <3> QED
      BY <3>2, <3>3
  <2>2. CASE u \notin DOMAIN tell
    BY <1>2, <1>4, <2>2, LikeSelf
  <2> QED
    BY <2>1, <2>2
<1>8. Refreshing(req[u], ans[u], box[u]) => Refreshing(req'[u], ans'[u], box[u])
  BY <1>6, <1>7 DEF Refreshing
<1>9. Refreshing(req'[u], ans'[u], box[u]) \/ SameLists(req[u], ans[u], ui[u], fs, fs')
  <2>1. CASE fs' = fs
    BY <2>1 DEF SameLists
  <2>2. CASE fs' # fs /\ u = c
    BY <1>7, <2>2 DEF Refreshing
  <2>3. CASE u # c
    <3>1. ui[u].cur \in Paths(u)
      BY <1>4, PanelFields
    <3>2. EnteringIn(req[u], ans[u]) => Append(ui[u].cur, ui[u].enter) \in Paths(u)
      BY <1>4, <3>1, LongerPath
    <3>3. IsTree(fs) /\ IsTree(fs')
      BY DEF Types, Disk, IsTree
    <3>4. PICK f, g : f = fs /\ g = fs'
      OBVIOUS
    <3>5. \A p \in Paths(u) : ListOf(g, p) = ListOf(f, p)
      <4>1. IsTree(f) /\ IsTree(g) /\ OnlyIn(c, f, g)
        BY <3>3, <3>4
      <4> QED
        BY <2>3, <4>1, ElsewhereSame
    <3> QED
      BY <3>1, <3>2, <3>4, <3>5 DEF SameLists
  <2> QED
    BY <2>1, <2>2, <2>3
<1>10. PICK R, S, A, T, B, p, f, g :
        /\ R = req[u] /\ S = req'[u] /\ A = ans[u] /\ T = ans'[u] /\ B = box[u]
        /\ p = ui[u] /\ f = fs /\ g = fs'
  OBVIOUS
<1>11. View(S, T, B, p, g)
  <2>1. /\ R \in Seq(Requests(u)) /\ S \in Seq(Requests(u)) /\ A \in Seq(Responses) /\ T \in Seq(Responses)
    BY <1>4, <1>5, <1>10
  <2>2. Like(R, S, {"list", "enter"}) /\ Like(A, T, {"list", "entered"})
    BY <1>6, <1>7, <1>10
  <2>3. SamePlace(p, p)
    BY DEF SamePlace
  <2>4. Refreshing(S, T, B) \/ (~Refreshing(R, A, B) /\ SameLists(R, A, p, f, g))
    BY <1>8, <1>9, <1>10
  <2>5. View(R, A, B, p, f)
    BY <1>3, <1>10
  <2> QED
    BY <2>1, <2>2, <2>3, <2>4, <2>5, ViewLike
<1> QED
  BY <1>2, <1>10, <1>11

\* A request is served that only its client hears of, and nothing changes.
LEMMA ViewsAnswered ==
  ASSUME Types, Views, NEW c \in Users, NEW r, NEW a, Served(c, r, To(c, a)), fs' = fs,
         View(req[c], ans[c], box[c], ui[c], fs) => View(Tail(req[c]), Append(ans[c], a), box[c], ui[c], fs)
  PROVE  Views'
<1>1. SUFFICES ASSUME NEW u \in Users \ mixed PROVE View(req'[u], ans'[u], box'[u], ui'[u], fs')
  BY DEF Served, Views
<1>2. DOMAIN To(c, a) = {c} /\ To(c, a)[c] = a
  BY ToIs
<1>3. /\ Defined
      /\ req'[c] = Tail(req[c]) /\ (u # c => req'[u] = req[u])
      /\ ans'[c] = Append(ans[c], a) /\ (u # c => ans'[u] = ans[u])
      /\ ui' = ui /\ box' = box
  BY <1>2 DEF Served
<1>4. View(req[u], ans[u], box[u], ui[u], fs)
  BY <1>3 DEF Views
<1>5. CASE u = c
  BY <1>3, <1>4, <1>5
<1>6. CASE u # c
  BY <1>3, <1>4, <1>6
<1> QED
  BY <1>5, <1>6

LEMMA ToElements ==
  ASSUME NEW c \in Users, NEW x \in Responses, x.kind \notin {"list", "entered"}
  PROVE  /\ \A u \in Users \cap DOMAIN To(c, x) :
              To(c, x)[u] \in Responses /\ To(c, x)[u].kind \notin {"list", "entered"}
         /\ c \in DOMAIN To(c, x) /\ To(c, x)[c] = x
<1>1. PICK t : t = To(c, x)
  OBVIOUS
<1>2. DOMAIN t = {c} /\ t[c] = x
  BY <1>1, ToIs
<1> QED
  BY <1>1, <1>2
LEMMA ViewsServe ==
  ASSUME Types, Types', Views, NEW c \in Users, Serve(c)
  PROVE  Views'
<1>1. /\ Told \in Responses /\ Told.kind = "told"
      /\ \A b \in BOOLEAN : Changed(b) \in Responses /\ Changed(b).kind = "changed" /\ Changed(b).ok = b
  BY NewAnswers
<1>2. req[c] \in Seq(Requests(c)) /\ ans[c] \in Seq(Responses)
  BY ClientParts
<1>3. ASSUME NEW r, NEW a \in Responses, Served(c, r, To(c, a)), fs' = fs,
             \/ r.kind = "list" /\ a.kind = "list" /\ a.list = ListOf(fs, r.path)
             \/ r.kind = "enter" /\ a.kind = "entered" /\ (a.ok => a.list = ListOf(fs, r.path))
      PROVE  Views'
  <2>1. req[c] # <<>> /\ r = Head(req[c])
    BY <1>3 DEF Served
  <2>2. PICK R, A, B, p, f : R = req[c] /\ A = ans[c] /\ B = box[c] /\ p = ui[c] /\ f = fs
    OBVIOUS
  <2>3. View(R, A, B, p, f) => View(Tail(R), Append(A, a), B, p, f)
    <3>1. R \in Seq(Requests(c)) /\ R # <<>> /\ r = Head(R) /\ A \in Seq(Responses)
      BY <1>2, <2>1, <2>2
    <3>2. \/ r.kind = "list" /\ a.kind = "list" /\ a.list = ListOf(f, r.path)
          \/ r.kind = "enter" /\ a.kind = "entered" /\ (a.ok => a.list = ListOf(f, r.path))
      BY <1>3, <2>2
    <3> QED
      BY <3>1, <3>2, ViewServesList, ViewServesEnter
  <2> QED
    BY <1>3, <2>2, <2>3, ViewsAnswered
<1>4. ASSUME NEW r, NEW a \in Responses, Served(c, r, To(c, a)), r.kind \notin {"list", "enter"},
             OnlyIn(c, fs, fs'), fs' = fs \/ a.kind = "told" \/ (a.kind = "changed" /\ a.ok),
             a.kind \notin {"list", "entered"}
      PROVE  Views'
  <2>1. PICK tell : tell = To(c, a)
    OBVIOUS
  <2>2. /\ \A u \in Users \cap DOMAIN tell : tell[u] \in Responses /\ tell[u].kind \notin {"list", "entered"}
        /\ c \in DOMAIN tell /\ tell[c] = a
    BY <1>4, <2>1, ToElements
  <2>3. Served(c, r, tell)
    BY <1>4, <2>1
  <2> QED
    BY <1>4, <2>2, <2>3, ViewsServed
<1>5. CASE ServeList(c)
  <2>1. PICK r : /\ r.kind = "list" /\ fs' = fs
                 /\ IF DirIn(fs, r.path)
                    THEN Served(c, r, To(c, [kind |-> "list", list |-> ListOf(fs, r.path)]))
                    ELSE undef' = "missing"
    BY <1>5, ServeListIs
  <2>2. CASE DirIn(fs, r.path)
    <3>1. PICK a : a = [kind |-> "list", list |-> ListOf(fs, r.path)]
      OBVIOUS
    <3>2. a \in Responses /\ a.kind = "list" /\ a.list = ListOf(fs, r.path)
      BY <2>2, <3>1, Listed, NewAnswers DEF DirIn, Types
    <3>3. Served(c, r, To(c, a))
      BY <2>1, <2>2, <3>1
    <3> QED
      BY <1>3, <2>1, <3>2, <3>3
  <2>3. CASE ~DirIn(fs, r.path)
    BY <2>1, <2>3 DEF Views, Defined
  <2> QED
    BY <2>2, <2>3
<1>6. CASE ServeEnter(c)
  <2>1. PICK r : /\ r.kind = "enter" /\ fs' = fs
                 /\ IF r.path \in DOMAIN fs
                    THEN \E a : /\ Served(c, r, To(c, a)) /\ a \in Responses /\ a.kind = "entered"
                                /\ a.ok => a.list = ListOf(fs, r.path)
                    ELSE undef' = "missing"
    BY <1>6, ServeEnterIs
  <2>2. CASE r.path \in DOMAIN fs
    BY <1>3, <2>1, <2>2
  <2>3. CASE r.path \notin DOMAIN fs
    BY <2>1, <2>3 DEF Views, Defined
  <2> QED
    BY <2>2, <2>3
<1>7. CASE ServeCreate(c)
  <2>1. PICK r : /\ r.kind = "create" /\ OnlyIn(c, fs, fs')
                 /\ Served(c, r, To(c, Changed(TRUE)))
    BY <1>7, ServeCreateIs DEF Grows
  <2>2. PICK a : a = Changed(TRUE)
    OBVIOUS
  <2>3. a \in Responses /\ a.kind = "changed" /\ a.ok
    BY <1>1, <2>2
  <2> QED
    BY <1>4, <2>1, <2>2, <2>3
<1>8. CASE ServeDelete(c)
  <2>1. PICK r : /\ r.kind = "delete" /\ OnlyIn(c, fs, fs')
                 /\ r.path \notin DOMAIN fs => fs' = fs
                 /\ Served(c, r, To(c, Changed(r.path \in DOMAIN fs)))
    BY <1>8, ServeDeleteIs
  <2>2. PICK a : a = Changed(r.path \in DOMAIN fs)
    OBVIOUS
  <2>3. a \in Responses /\ a.kind = "changed" /\ (r.path \in DOMAIN fs => a.ok)
    <3>1. CASE r.path \in DOMAIN fs
      <4>1. a = Changed(TRUE)
        BY <2>2, <3>1
      <4> QED
        BY <1>1, <4>1
    <3>2. CASE r.path \notin DOMAIN fs
      <4>1. a = Changed(FALSE)
        <5>1. (r.path \in DOMAIN fs) = FALSE
          BY <3>2
        <5> QED
          BY <2>2, <5>1
      <4> QED
        BY <1>1, <3>2, <4>1
    <3> QED
      BY <3>1, <3>2
  <2> QED
    BY <1>4, <2>1, <2>2, <2>3
<1>9. CASE ServeRename(c)
  <2>1. PICK r, ok : /\ r.kind = "rename" /\ ok \in BOOLEAN /\ OnlyIn(c, fs, fs') /\ (~ok => fs' = fs)
                     /\ Served(c, r, To(c, Changed(ok)))
    BY <1>9, ServeRenameIs DEF Moves
  <2>2. PICK a : a = Changed(ok)
    OBVIOUS
  <2>3. a \in Responses /\ a.kind = "changed" /\ a.ok = ok
    BY <1>1, <2>1, <2>2
  <2> QED
    BY <1>4, <2>1, <2>2, <2>3
<1>10. CASE ServeMove(c)
  <2>1. PICK r : r.kind = "move" /\ OnlyIn(c, fs, fs') /\ Served(c, r, To(c, Told))
    BY <1>10, ServeMoveIs DEF Moves
  <2> QED
    BY <1>1, <1>4, <2>1
<1>11. CASE ServeShare(c)
  <2>1. PICK r, a : /\ r.kind = "share" /\ r.to \in Users /\ fs' = fs
                    /\ Served(c, r, To(r.to, a)) /\ a \in Notes
    BY <1>11, ServeShareIs
  <2>2. PICK tell : tell = To(r.to, a)
    OBVIOUS
  <2>3. a \in Responses /\ a.kind = "note"
    BY <2>1, NoteFields DEF Responses
  <2>4. \A u \in Users \cap DOMAIN tell : tell[u] \in Responses /\ tell[u].kind \notin {"list", "entered"}
    BY <2>1, <2>2, <2>3, ToElements
  <2>5. Served(c, r, tell) /\ OnlyIn(c, fs, fs') /\ fs' = fs /\ r.kind \notin {"list", "enter"}
    BY <2>1, <2>2, OnlySame
  <2> QED
    BY <2>4, <2>5, ViewsServed
<1>12. ASSUME NEW r, Served(c, r, [u \in {c, r.from} |-> Told]), OnlyIn(c, fs, fs'),
              r.kind \notin {"list", "enter"}
       PROVE  Views'
  <2>1. PICK tell : tell = [u \in {c, r.from} |-> Told]
    OBVIOUS
  <2>2. /\ \A u \in Users \cap DOMAIN tell : tell[u] \in Responses /\ tell[u].kind \notin {"list", "entered"}
        /\ c \in DOMAIN tell /\ tell[c].kind = "told"
    BY <1>1, <2>1
  <2>3. Served(c, r, tell)
    BY <1>12, <2>1
  <2> QED
    BY <1>12, <2>2, <2>3, ViewsServed
<1>13. CASE ServeAgree(c)
  <2>1. PICK r : /\ r.kind = "agree" /\ OnlyIn(c, fs, fs')
                 /\ Served(c, r, [u \in {c, r.from} |-> Told])
    BY <1>13, ServeAgreeIs DEF Grows
  <2> QED
    BY <1>12, <2>1
<1>14. CASE ServeRefuse(c)
  <2>1. PICK r : /\ r.kind = "refuse" /\ fs' = fs
                 /\ Served(c, r, [u \in {c, r.from} |-> Told])
    BY <1>14, ServeRefuseIs
  <2> QED
    BY <1>12, <2>1, OnlySame
<1> QED
  BY <1>5, <1>6, <1>7, <1>8, <1>9, <1>10, <1>11, <1>13, <1>14 DEF Serve

LEMMA ViewsStep == Types /\ Views /\ [Next]_vars => Views'
<1> SUFFICES ASSUME Types, Views, [Next]_vars PROVE Views'
  OBVIOUS
<1>1. CASE Next
  <2>1. PICK c \in Users : User(c) \/ Receive(c) \/ Serve(c)
    BY <1>1 DEF Next
  <2>2. Types'
    BY TypesStep
  <2> QED
    BY <2>1, <2>2, ViewsUser, ViewsReceive, ViewsServe
<1>2. CASE UNCHANGED vars
  BY <1>2 DEF Views, Defined, vars, panels, history
<1> QED
  BY <1>1, <1>2

LEMMA InitViews == Init => Views
<1> SUFFICES ASSUME Init, NEW c \in Users PROVE View(req[c], ans[c], box[c], ui[c], fs)
  BY DEF Views
<1>1. /\ req[c] = <<>> /\ ans[c] = <<>> /\ ui[c].cur = <<c>> /\ ui[c].shown = ListOf(fs, <<c>>)
  BY InitIs
<1>2. EntersOnce(req[c], ans[c], ui[c]) /\ AsksHere(req[c], ui[c])
  BY <1>1 DEF EntersOnce, AsksHere
<1>3. EnteredIsThere(ans[c], ui[c], fs) /\ ListIsThere(ans[c], ui[c], fs)
  BY <1>1 DEF EnteredIsThere, ListIsThere
<1>4. ShownIsThere(ans[c], ui[c], fs)
  BY <1>1 DEF ShownIsThere
<1> QED
  BY <1>2, <1>3, <1>4 DEF View

LEMMA TypesAre == Types => TypeOK
<1> SUFFICES ASSUME Types PROVE TypeOK
  OBVIOUS
<1>1. ASSUME NEW p \in DOMAIN fs, Len(p) > 1 PROVE IsDir(Front(p))
  <2>1. IsTree(fs)
    BY DEF Types, Disk
  <2>2. Len(p) \in Nat
    BY <2>1, TreePath
  <2>3. Len(p) - 1 \in 1..(Len(p) - 1)
    BY <1>1, <2>2
  <2>4. PICK q : q = SubSeq(p, 1, Len(p) - 1)
    OBVIOUS
  <2>5. q \in DOMAIN fs /\ fs[q] = Dir
    BY <2>1, <2>3, <2>4 DEF IsTree
  <2> QED
    BY <2>4, <2>5 DEF Front, IsDir
<1>2. \A c \in Users : ui[c].item = NoName \/ ui[c].item \in DOMAIN ui[c].shown
  BY ClientParts
<1> QED
  BY <1>1, <1>2 DEF TypeOK, Types

\* When nothing is under way and no box is open, the panel shows what is there.
LEMMA ShowsWhatIs ==
  ASSUME Views, Defined, NEW c \in Users \ mixed, Quiet(c), box[c] = <<>>
  PROVE  ui[c].shown = ListOf(fs, ui[c].cur)
<1>1. req[c] = <<>> /\ ans[c] = <<>> /\ View(req[c], ans[c], box[c], ui[c], fs)
  BY DEF Quiet, Views
<1>2. ~Refreshing(req[c], ans[c], box[c]) /\ ~EntersNow(ans[c])
  BY <1>1 DEF Refreshing, EntersNow
<1> QED
  BY <1>1, <1>2 DEF View, ShownIsThere

\* When nothing is under way the list shown is that of the directory the panel is
\* in, unless a list was asked for while a directory was being entered (book.cpp).
THEOREM ShownListIsCurrent == Spec => []ViewIsCurrent
<1>1. Types /\ Views => ViewIsCurrent
  BY TypesAre, ShowsWhatIs, ListingIs DEF ViewIsCurrent
<1> QED
  BY <1>1, InitTypes, InitViews, TypesStep, ViewsStep, PTL DEF Spec
-----------------------------------------------------------------------------
(* The patient user: single clients.                                       *)

\* What is listed is there, wherever the panel is.
LEMMA Seen ==
  ASSUME NEW f, Disk(f), NEW c \in Users, NEW p \in Paths(c), NEW n \in DOMAIN ListOf(f, p)
  PROVE  Append(p, n) \in DOMAIN f /\ f[Append(p, n)] = ListOf(f, p)[n]
<1>1. p \in Seq(Components) /\ Len(p) \in Nat
  BY DEF Paths
<1>2. PICK q \in Kids(f, p) : n = Last(q)
  BY DEF ListOf
<1>3. q \in DOMAIN f /\ Len(q) = Len(p) + 1 /\ IsPrefix(p, q)
  BY DEF Kids
<1>4. q \in Seq(Components) /\ Len(q) \in Nat
  BY <1>3, TreePath DEF Disk
<1>5. \A i \in 1..Len(p) : p[i] = q[i]
  BY <1>1, <1>3, <1>4, PrefixPoints
<1>6. n = q[Len(q)] /\ n \in Components
  BY <1>1, <1>2, <1>3, <1>4 DEF Last
<1>7. /\ Append(p, n) \in Seq(Components) /\ Len(Append(p, n)) = Len(p) + 1
      /\ \A i \in 1..(Len(p) + 1) : Append(p, n)[i] = IF i <= Len(p) THEN p[i] ELSE n
  BY <1>1, <1>6
<1>8. \A i \in 1..Len(q) : Append(p, n)[i] = q[i]
  BY <1>1, <1>3, <1>5, <1>6, <1>7
<1>9. Append(p, n) = q
  BY <1>3, <1>4, <1>7, <1>8, SeqEqual
<1> QED
  BY <1>3, <1>9 DEF ListOf

\* The only request.
LEMMA OnlyOne ==
  ASSUME NEW S, NEW r \in S, NEW R, R = Append(<<>>, r)
  PROVE  \A i \in DOMAIN R : i = 1 /\ R[i] = r
<1>1. <<>> \in Seq(S) /\ DOMAIN <<>> = {} /\ Len(<<>>) = 0
  OBVIOUS
<1>2. PICK s : s = <<>>
  OBVIOUS
<1>3. s \in Seq(S) /\ R = Append(s, r) /\ DOMAIN s = {} /\ Len(s) = 0
  BY <1>1, <1>2
<1>4. \A i \in DOMAIN R : (i \in DOMAIN s /\ R[i] = s[i]) \/ (i = Len(s) + 1 /\ R[i] = r)
  BY <1>3, Grown
<1> QED
  BY <1>3, <1>4

LEMMA PatientAsks ==
  ASSUME NEW S, NEW r \in S, NEW R, R = Append(<<>>, r), NEW p, NEW f,
         p.item = NoName => ~p.fileOn,
         r.kind = "list" => r.path = p.cur /\ ~p.fileOn,
         r.kind \in {"delete", "rename"} =>
           Len(r.path) = Len(p.cur) + 1 /\ r.path \in DOMAIN f /\ f[r.path] = r.meant,
         r.kind = "enter" => r.path \in DOMAIN f /\ (p.fileOn => f[r.path] # Dir)
  PROVE  Patient(R, <<>>, p, f)
<1>1. \A i \in DOMAIN R : i = 1 /\ R[i] = r
  BY OnlyOne
<1>2. PICK A : A = <<>>
  OBVIOUS
<1>3. DOMAIN A = {}
  BY <1>2
<1>4. AsksOnce(R, A, p)
  BY <1>1, <1>3 DEF AsksOnce
<1>5. MeansIt(R, p, f)
  BY <1>1 DEF MeansIt
<1>6. ButtonsOff(R, A, p)
  BY <1>1, <1>3 DEF ButtonsOff
<1> QED
  BY <1>2, <1>4, <1>5, <1>6 DEF Patient

\* The panel stays where it is, answers are taken, and nothing is asked for by
\* clicking.
LEMMA PatientMore ==
  ASSUME NEW R, NEW S, NEW A, NEW T, NEW p, NEW q, NEW f, Patient(R, A, p, f),
         q.cur = p.cur, q.fileOn => p.fileOn, q.item = NoName => ~q.fileOn,
         \A i \in DOMAIN S : \/ i \in DOMAIN R /\ S[i] = R[i]
                             \/ /\ S[i].kind \notin Clicked
                                /\ S[i].kind = "list" => S[i].path = q.cur /\ ~q.fileOn,
         \A i \in DOMAIN T : \E j \in DOMAIN A : T[i] = A[j]
  PROVE  Patient(S, T, q, f)
<1>1. AsksOnce(R, A, p) /\ MeansIt(R, p, f) /\ ButtonsOff(R, A, p)
  BY DEF Patient
<1>2. AsksOnce(S, T, q)
  <2>1. \A i \in DOMAIN S : S[i].kind \in Clicked => i = 1
    BY <1>1 DEF AsksOnce
  <2>2. ASSUME NEW i \in DOMAIN T, T[i].kind = "entered", NEW j \in DOMAIN S
        PROVE  S[j].kind \notin Clicked
    <3>1. PICK k \in DOMAIN A : T[i] = A[k]
      OBVIOUS
    <3> QED
      BY <1>1, <2>2, <3>1 DEF AsksOnce
  <2>3. \A i \in DOMAIN S : S[i].kind = "list" => S[i].path = q.cur
    BY <1>1 DEF AsksOnce
  <2> QED
    BY <2>1, <2>2, <2>3 DEF AsksOnce
<1>3. MeansIt(S, q, f)
  <2>1. ASSUME NEW i \in DOMAIN S
        PROVE  /\ S[i].kind \in {"delete", "rename"} =>
                    /\ Len(S[i].path) = Len(q.cur) + 1
                    /\ S[i].path \in DOMAIN f /\ f[S[i].path] = S[i].meant
               /\ S[i].kind = "enter" => S[i].path \in DOMAIN f /\ (q.fileOn => f[S[i].path] # Dir)
    <3>1. CASE i \in DOMAIN R /\ S[i] = R[i]
      BY <1>1, <3>1 DEF MeansIt
    <3>2. CASE S[i].kind \notin Clicked
      BY <3>2 DEF Clicked
    <3> QED
      BY <3>1, <3>2
  <2> QED
    BY <2>1 DEF MeansIt
<1>4. ButtonsOff(S, T, q)
  <2>1. (\E i \in DOMAIN S : S[i].kind = "list") => ~q.fileOn
    BY <1>1 DEF ButtonsOff
  <2>2. ASSUME NEW i \in DOMAIN T, T[i].kind = "list" \/ (T[i].kind = "entered" /\ T[i].ok)
        PROVE  ~q.fileOn
    <3>1. PICK k \in DOMAIN A : T[i] = A[k]
      OBVIOUS
    <3> QED
      BY <1>1, <2>2, <3>1 DEF ButtonsOff
  <2> QED
    BY <2>1, <2>2 DEF ButtonsOff
<1> QED
  BY <1>2, <1>3, <1>4 DEF Patient

\* A directory has been entered.
LEMMA PatientEnters ==
  ASSUME NEW R, NEW A, NEW T, NEW p, NEW q, NEW f, Patient(R, A, p, f),
         NEW k \in DOMAIN A, A[k].kind = "entered", A[k].ok,
         \A j \in DOMAIN R : R[j].kind # "list", q.fileOn <=> p.fileOn
  PROVE  Patient(R, T, q, f)
<1>1. AsksOnce(R, A, p) /\ ButtonsOff(R, A, p)
  BY DEF Patient
<1>2. \A i \in DOMAIN R : R[i].kind \notin Clicked
  BY <1>1 DEF AsksOnce
<1>3. ~q.fileOn
  BY <1>1 DEF ButtonsOff
<1>4. AsksOnce(R, T, q)
  BY <1>2 DEF AsksOnce
<1>5. MeansIt(R, q, f)
  BY <1>2 DEF MeansIt, Clicked
<1>6. ButtonsOff(R, T, q)
  BY <1>3 DEF ButtonsOff
<1> QED
  BY <1>4, <1>5, <1>6 DEF Patient

\* His first request is served.
LEMMA PatientServed ==
  ASSUME NEW c, NEW R \in Seq(Requests(c)), R # <<>>, NEW A, NEW T, NEW p, NEW f, NEW g,
         Patient(R, A, p, f),
         \A i \in DOMAIN T : (\E j \in DOMAIN A : T[i] = A[j])
                             \/ (T[i].kind = "list" \/ (T[i].kind = "entered" /\ T[i].ok) => ~p.fileOn)
  PROVE  Patient(Tail(R), T, p, g)
<1>1. PICK S : S = Tail(R)
  OBVIOUS
<1>2. \A i \in DOMAIN S : i \in Nat \ {0} /\ i + 1 \in DOMAIN R /\ S[i] = R[i + 1]
  BY <1>1, Shrunk
<1>3. AsksOnce(R, A, p) /\ ButtonsOff(R, A, p)
  BY DEF Patient
<1>4. \A i \in DOMAIN S : S[i].kind \notin Clicked
  <2>1. ASSUME NEW i \in DOMAIN S PROVE S[i].kind \notin Clicked
    <3>1. i + 1 \in DOMAIN R /\ S[i] = R[i + 1] /\ i + 1 # 1
      BY <1>2
    <3> QED
      BY <1>3, <3>1 DEF AsksOnce
  <2> QED
    BY <2>1
<1>5. AsksOnce(S, T, p)
  BY <1>2, <1>3, <1>4 DEF AsksOnce
<1>6. MeansIt(S, p, g)
  BY <1>4 DEF MeansIt, Clicked
<1>7. ButtonsOff(S, T, p)
  <2>1. (\E i \in DOMAIN S : S[i].kind = "list") => ~p.fileOn
    BY <1>2, <1>3 DEF ButtonsOff
  <2>2. ASSUME NEW i \in DOMAIN T, T[i].kind = "list" \/ (T[i].kind = "entered" /\ T[i].ok)
        PROVE  ~p.fileOn
    BY <1>3, <2>2 DEF ButtonsOff
  <2> QED
    BY <1>3, <2>1, <2>2 DEF ButtonsOff
<1> QED
  BY <1>1, <1>5, <1>6, <1>7 DEF Patient

\* Somebody else's is.
LEMMA PatientBystander ==
  ASSUME NEW R, NEW A, NEW T, NEW p, NEW f, NEW g, Patient(R, A, p, f),
         \A i \in DOMAIN T : (\E j \in DOMAIN A : T[i] = A[j]) \/ T[i].kind \notin {"list", "entered"},
         \A i \in DOMAIN R : R[i].kind \in {"delete", "rename", "enter"} /\ R[i].path \in DOMAIN f =>
           R[i].path \in DOMAIN g /\ g[R[i].path] = f[R[i].path]
  PROVE  Patient(R, T, p, g)
<1>1. AsksOnce(R, A, p) /\ MeansIt(R, p, f) /\ ButtonsOff(R, A, p)
  BY DEF Patient
<1>2. AsksOnce(R, T, p)
  BY <1>1 DEF AsksOnce
<1>3. MeansIt(R, p, g)
  BY <1>1 DEF MeansIt
<1>4. ButtonsOff(R, T, p)
  BY <1>1 DEF ButtonsOff
<1> QED
  BY <1>2, <1>3, <1>4 DEF Patient
-----------------------------------------------------------------------------
(* The patient user: the steps.                                            *)

LEMMA PatienceLocal ==
  ASSUME Patience, NEW c \in Users, Local(c),
         c \notin mixed' \cup hasty' => Patient(req'[c], ans'[c], ui'[c], fs')
  PROVE  Patience'
<1>1. ASSUME NEW u \in Users \ (mixed' \cup hasty') PROVE Patient(req'[u], ans'[u], ui'[u], fs')
  <2>1. CASE u = c
    BY <2>1
  <2>2. CASE u # c
    <3>1. /\ req'[u] = req[u] /\ ans'[u] = ans[u] /\ ui'[u] = ui[u] /\ fs' = fs
          /\ u \notin mixed \cup hasty /\ Defined
      BY <2>2 DEF Local, Marks
    <3> QED
      BY <3>1 DEF Patience
  <2> QED
    BY <2>1, <2>2
<1> QED
  BY <1>1 DEF Patience

\* Who clicks and is patient still sees what there is.
LEMMA Sees ==
  ASSUME Types, Views, Patience, NEW c \in Users, Local(c), Waits(c), c \notin mixed' \cup hasty'
  PROVE  /\ fs' = fs /\ req[c] = <<>> /\ ans[c] = <<>>
         /\ \A n \in DOMAIN ui[c].shown :
              Append(ui[c].cur, n) \in DOMAIN fs /\ fs[Append(ui[c].cur, n)] = ui[c].shown[n]
         /\ ui[c].item = NoName => ~ui[c].fileOn
<1>1. /\ fs' = fs /\ Defined /\ c \notin mixed /\ c \notin hasty
      /\ Quiet(c) /\ box[c] = <<>>
  BY DEF Local, Marks, Waits
<1>2. ui[c].shown = ListOf(fs, ui[c].cur)
  BY <1>1, ShowsWhatIs
<1>3. ui[c].cur \in Paths(c)
  BY ClientParts, PanelFields
<1>4. \A n \in DOMAIN ui[c].shown :
        Append(ui[c].cur, n) \in DOMAIN fs /\ fs[Append(ui[c].cur, n)] = ui[c].shown[n]
  BY <1>2, <1>3, Seen DEF Types
<1>5. ui[c].item = NoName => ~ui[c].fileOn
  BY <1>1 DEF Patience, Patient, ButtonsOff
<1> QED
  BY <1>1, <1>4, <1>5 DEF Quiet

LEMMA PatiencePicked ==
  ASSUME Types, Views, Patience, NEW c \in Users, Picked(c),
         c \notin mixed' \cup hasty' => (ui'[c].item = NoName => ~ui'[c].fileOn)
  PROVE  Patience'
<1>1. Local(c) /\ Waits(c) /\ req' = req /\ ans' = ans
  BY DEF Picked
<1>2. SUFFICES ASSUME c \notin mixed' \cup hasty' PROVE Patient(req'[c], ans'[c], ui'[c], fs')
  BY <1>1, PatienceLocal
<1>3. req'[c] = <<>> /\ ans'[c] = <<>>
  BY <1>1, <1>2, Sees
<1> QED
  BY <1>2, <1>3 DEF Patient, AsksOnce, MeansIt, ButtonsOff

LEMMA PatienceAsked ==
  ASSUME Types, Views, Patience, NEW c \in Users, NEW r, Asked(c, r), NEW q, q = ui'[c],
         c \notin mixed' \cup hasty' =>
           /\ q.item = NoName => ~q.fileOn
           /\ r.kind = "list" => r.path = q.cur /\ ~q.fileOn
           /\ r.kind \in {"delete", "rename"} =>
                Len(r.path) = Len(q.cur) + 1 /\ r.path \in DOMAIN fs /\ fs[r.path] = r.meant
           /\ r.kind = "enter" => r.path \in DOMAIN fs /\ (q.fileOn => fs[r.path] # Dir)
  PROVE  Patience'
<1>1. Local(c) /\ Waits(c) /\ r \in Requests(c) /\ req'[c] = Append(req[c], r) /\ ans' = ans
  BY DEF Asked
<1>2. SUFFICES ASSUME c \notin mixed' \cup hasty' PROVE Patient(req'[c], ans'[c], ui'[c], fs')
  BY <1>1, PatienceLocal
<1>3. fs' = fs /\ req'[c] = Append(<<>>, r) /\ ans'[c] = <<>>
  BY <1>1, <1>2, Sees
<1>4. PICK R : R = Append(<<>>, r)
  OBVIOUS
<1>5. PICK f : f = fs
  OBVIOUS
<1>6. Patient(R, <<>>, q, f)
  BY <1>1, <1>2, <1>4, <1>5, PatientAsks
<1> QED
  BY <1>3, <1>4, <1>5, <1>6

LEMMA PatienceUser ==
  ASSUME Types, Types', Views, Patience, NEW c \in Users, User(c)
  PROVE  Patience'
<1>1. req[c] \in Seq(Requests(c)) /\ ans[c] \in Seq(Responses) /\ box[c] \in Seq(Boxes) /\ ui[c] \in Panels(c)
  BY ClientParts
<1>2. PICK p, q : p = ui[c] /\ q = ui'[c]
  OBVIOUS
<1>3. /\ Off(ui[c]).cur = ui[c].cur /\ Off(ui[c]).item = ui[c].item /\ ~Off(ui[c]).fileOn
  BY <1>1 DEF Off, Panels
<1>4. CASE ClickItem(c)
  <2>1. PICK n : Picked(c) /\ ui'[c].item = n /\ n # NoName
    BY <1>4, ClickItemIs
  <2> QED
    BY <2>1, PatiencePicked
<1>5. CASE ClickFlush(c)
  <2>1. PICK r : Asked(c, r) /\ r = ListRequest(ui[c].cur) /\ ui'[c] = Off(ui[c])
    BY <1>5, ClickFlushIs
  <2>2. r.kind = "list" /\ r.path = q.cur /\ ~q.fileOn
    BY <1>2, <1>3, <2>1 DEF ListRequest
  <2> QED
    BY <1>2, <2>1, <2>2, PatienceAsked
<1>6. ASSUME NEW r, Asked(c, r), r.kind \notin {"list", "delete", "rename", "enter"},
             q.item = p.item /\ q.fileOn = p.fileOn
      PROVE  Patience'
  <2>1. Local(c) /\ Waits(c)
    BY <1>6 DEF Asked
  <2>2. ASSUME c \notin mixed' \cup hasty' PROVE q.item = NoName => ~q.fileOn
    BY <1>2, <1>6, <2>1, <2>2, Sees
  <2> QED
    BY <1>2, <1>6, <2>2, PatienceAsked
<1>7. CASE ClickCreate(c)
  <2>1. PICK r : Asked(c, r) /\ ui'[c] = ui[c] /\ r.kind = "create"
    BY <1>7, ClickCreateIs
  <2> QED
    BY <1>2, <1>6, <2>1
<1>8. ASSUME NEW r, Asked(c, r), r.kind \in {"delete", "rename"}, p.item # NoName, q = p,
             r.path = Append(p.cur, p.item), r.meant = p.shown[p.item]
      PROVE  Patience'
  <2>1. Local(c) /\ Waits(c)
    BY <1>8 DEF Asked
  <2>2. p.item \in DOMAIN p.shown /\ p.item \in Names /\ p.cur \in Paths(c)
    BY <1>2, <1>8, ItemIs
  <2>3. Len(r.path) = Len(p.cur) + 1
    BY <1>8, <2>2, LongerPath
  <2>4. ASSUME c \notin mixed' \cup hasty'
        PROVE  r.path \in DOMAIN fs /\ fs[r.path] = r.meant
    BY <1>2, <1>8, <2>1, <2>2, <2>4, Sees
  <2> QED
    BY <1>2, <1>8, <2>3, <2>4, PatienceAsked
<1>9. CASE ClickDelete(c)
  <2>1. PICK r : Asked(c, r) /\ ui'[c] = ui[c] /\ r = DeleteRequest(ui[c]) /\ ui[c].item # NoName
    BY <1>9, ClickDeleteIs
  <2>2. r.kind = "delete" /\ r.path = Append(p.cur, p.item) /\ r.meant = p.shown[p.item]
    BY <1>2, <2>1 DEF DeleteRequest
  <2> QED
    BY <1>2, <1>8, <2>1, <2>2
<1>10. CASE ClickRename(c)
  <2>1. PICK r, n : Asked(c, r) /\ ui'[c] = ui[c] /\ r = RenameRequest(ui[c], n) /\ ui[c].item # NoName
    BY <1>10, ClickRenameIs
  <2>2. r.kind = "rename" /\ r.path = Append(p.cur, p.item) /\ r.meant = p.shown[p.item]
    BY <1>2, <2>1 DEF RenameRequest
  <2> QED
    BY <1>2, <1>8, <2>1, <2>2
<1>11. CASE DoubleClick(c)
  <2>1. PICK n \in DOMAIN ui[c].shown :
          /\ Asked(c, EnterRequest(ui[c], n)) /\ ui'[c].item = n /\ n \in Names
          /\ ui'[c].fileOn = (ui[c].shown[n] # Dir)
    BY <1>11, DoubleClickIs
  <2>2. PICK r : r = EnterRequest(ui[c], n)
    OBVIOUS
  <2>3. r.kind = "enter" /\ r.path = Append(ui[c].cur, n) /\ Asked(c, r)
    BY <2>1, <2>2 DEF EnterRequest
  <2>4. n # NoName
    BY <2>1, NamesAssumption
  <2>5. Local(c) /\ Waits(c)
    BY <2>3 DEF Asked
  <2>6. ASSUME c \notin mixed' \cup hasty'
        PROVE  r.path \in DOMAIN fs /\ (q.fileOn => fs[r.path] # Dir)
    <3>1. r.path \in DOMAIN fs /\ fs[r.path] = ui[c].shown[n]
      BY <2>1, <2>3, <2>5, <2>6, Sees
    <3> QED
      BY <1>2, <2>1, <3>1
  <2>7. q.item # NoName /\ r.kind \notin {"list", "delete", "rename"}
    BY <1>2, <2>1, <2>3, <2>4
  <2> QED
    BY <1>2, <2>3, <2>6, <2>7, PatienceAsked
<1>12. CASE ClickReturn(c)
  <2>1. PICK r : /\ Asked(c, r) /\ r = ListRequest(Parent(ui[c].cur))
                 /\ ui'[c].cur = Parent(ui[c].cur) /\ ~ui'[c].fileOn
    BY <1>12, ClickReturnIs
  <2>2. r.kind = "list" /\ r.path = q.cur /\ ~q.fileOn
    BY <1>2, <2>1 DEF ListRequest
  <2> QED
    BY <1>2, <2>1, <2>2, PatienceAsked
<1>13. ASSUME Picked(c), q.item = p.item, q.fileOn = p.fileOn
       PROVE  Patience'
  <2>1. Local(c) /\ Waits(c)
    BY <1>13 DEF Picked
  <2>2. ASSUME c \notin mixed' \cup hasty' PROVE q.item = NoName => ~q.fileOn
    BY <1>2, <1>13, <2>1, <2>2, Sees
  <2> QED
    BY <1>2, <1>13, <2>2, PatiencePicked
<1>14. CASE PickMove(c)
  BY <1>2, <1>13, <1>14, PickMoveIs
<1>15. CASE ConfirmMove(c)
  <2>1. PICK r : /\ Asked(c, r) /\ r = MoveRequest(ui[c])
                 /\ ui'[c].item = ui[c].item /\ ui'[c].fileOn = ui[c].fileOn
    BY <1>15, ConfirmMoveIs
  <2>2. r.kind \notin {"list", "delete", "rename", "enter"}
    BY <2>1 DEF MoveRequest
  <2> QED
    BY <1>2, <1>6, <2>1, <2>2
<1>16. CASE PickShare(c)
  BY <1>2, <1>13, <1>16, PickShareIs
<1>17. CASE ConfirmShare(c)
  <2>1. PICK r, d : /\ Asked(c, r) /\ r = ShareRequest(c, d, ui[c])
                    /\ ui'[c].item = ui[c].item /\ ui'[c].fileOn = ui[c].fileOn
    BY <1>17, ConfirmShareIs
  <2>2. r.kind \notin {"list", "delete", "rename", "enter"}
    BY <2>1 DEF ShareRequest
  <2> QED
    BY <1>2, <1>6, <2>1, <2>2
<1>18. ASSUME NEW r, NEW b, Closed(c, b, r), q.cur = p.cur, q.fileOn => p.fileOn, q.item = p.item,
              r.kind \notin Clicked, r.kind = "list" => r.path = q.cur /\ ~q.fileOn
       PROVE  Patience'
  <2>1. Local(c) /\ r \in Requests(c) /\ ans' = ans /\ req'[c] = Append(req[c], r)
    BY <1>18 DEF Closed
  <2>2. SUFFICES ASSUME c \notin mixed' \cup hasty' PROVE Patient(req'[c], ans'[c], ui'[c], fs')
    BY <2>1, PatienceLocal
  <2>3. fs' = fs /\ Patient(req[c], ans[c], ui[c], fs)
    BY <2>1, <2>2 DEF Local, Marks, Patience
  <2>4. PICK R, S, A, f : R = req[c] /\ S = req'[c] /\ A = ans[c] /\ f = fs
    OBVIOUS
  <2>5. \A i \in DOMAIN S : (i \in DOMAIN R /\ S[i] = R[i]) \/ S[i] = r
    <3>1. R \in Seq(Requests(c)) /\ S = Append(R, r)
      BY <1>1, <2>1, <2>4
    <3> QED
      BY <2>1, <3>1, Grown
  <2>6. Patient(R, A, p, f)
    BY <1>2, <2>3, <2>4
  <2>7. q.item = NoName => ~q.fileOn
    BY <1>18, <2>6 DEF Patient, ButtonsOff
  <2>8. Patient(S, A, q, f)
    BY <1>18, <2>5, <2>6, <2>7, PatientMore
  <2> QED
    BY <1>2, <2>1, <2>3, <2>4, <2>8
<1>19. CASE CloseTold(c)
  <2>1. PICK b, r : Closed(c, b, r) /\ r = ListRequest(ui[c].cur) /\ ui'[c] = Off(ui[c])
    BY <1>19, CloseToldIs
  <2>2. q.cur = p.cur /\ ~q.fileOn /\ q.item = p.item
    BY <1>2, <1>3, <2>1
  <2>3. r.kind = "list" /\ r.path = q.cur
    BY <1>2, <2>1, <2>2 DEF ListRequest
  <2>4. r.kind \notin Clicked
    BY <2>3 DEF Clicked
  <2> QED
    BY <1>18, <2>1, <2>2, <2>3, <2>4
<1>20. CASE AnswerNote(c)
  <2>1. PICK b, r : Closed(c, b, r) /\ ui' = ui /\ r.kind \in {"agree", "refuse"}
    BY <1>20, AnswerNoteIs
  <2>2. q = p /\ r.kind \notin Clicked /\ r.kind # "list"
    BY <1>2, <2>1 DEF Clicked
  <2> QED
    BY <1>18, <2>1, <2>2
<1> QED
  BY <1>4, <1>5, <1>7, <1>9, <1>10, <1>11, <1>12, <1>14, <1>15, <1>16, <1>17, <1>19, <1>20 DEF User
LEMMA PatienceReceive ==
  ASSUME Types, Types', Views, Patience, NEW c \in Users, Receive(c)
  PROVE  Patience'
<1>1. req[c] \in Seq(Requests(c)) /\ ans[c] \in Seq(Responses) /\ ui[c] \in Panels(c)
  BY ClientParts
<1>2. PICK R, S, A, T, p, q, f : /\ R = req[c] /\ S = req'[c] /\ A = ans[c] /\ T = ans'[c]
                                 /\ p = ui[c] /\ q = ui'[c] /\ f = fs
  OBVIOUS
<1>3. ASSUME NEW a, Took(c, a)
      PROVE  /\ Local(c) /\ \A i \in DOMAIN T : \E j \in DOMAIN A : T[i] = A[j]
             /\ 1 \in DOMAIN A /\ A[1] = a
             /\ c \notin mixed' \cup hasty' =>
                  /\ fs' = f /\ Patient(R, A, p, f) /\ EntersOnce(R, A, p)
  <2>1. /\ Local(c) /\ A \in Seq(Responses) /\ A # <<>> /\ a = Head(A) /\ T = Tail(A)
    BY <1>1, <1>2, <1>3 DEF Took
  <2>2. /\ 1 \in DOMAIN A /\ A[1] = a
        /\ \A i \in DOMAIN T : \E j \in DOMAIN A : T[i] = A[j]
    BY <2>1, Shrunk
  <2>3. c \notin mixed' \cup hasty' =>
          fs' = f /\ Patient(R, A, p, f) /\ EntersOnce(R, A, p)
    BY <1>2, <2>1 DEF Local, Marks, Patience, Views, View
  <2> QED
    BY <2>1, <2>2, <2>3
<1>4. ASSUME NEW a, Took(c, a), q.cur = p.cur, q.fileOn => p.fileOn,
             c \notin mixed' \cup hasty' => (q.item = NoName => ~q.fileOn),
             \A i \in DOMAIN S : \/ i \in DOMAIN R /\ S[i] = R[i]
                                 \/ S[i].kind = "list" /\ S[i].path = q.cur /\ ~q.fileOn
      PROVE  Patience'
  <2>1. SUFFICES ASSUME c \notin mixed' \cup hasty' PROVE Patient(req'[c], ans'[c], ui'[c], fs')
    BY <1>3, <1>4, PatienceLocal
  <2>2. fs' = f /\ Patient(R, A, p, f) /\ \A i \in DOMAIN T : \E j \in DOMAIN A : T[i] = A[j]
    BY <1>3, <1>4, <2>1
  <2>3. \A i \in DOMAIN S : \/ i \in DOMAIN R /\ S[i] = R[i]
                            \/ /\ S[i].kind \notin Clicked
                               /\ S[i].kind = "list" => S[i].path = q.cur /\ ~q.fileOn
    BY <1>4 DEF Clicked
  <2>4. Patient(S, T, q, f)
    BY <1>4, <2>1, <2>2, <2>3, PatientMore
  <2> QED
    BY <1>2, <2>2, <2>4
<1>5. CASE TakeChanged(c)
  <2>1. PICK a : /\ Took(c, a)
                 /\ IF a.ok THEN /\ req'[c] = Append(req[c], ListRequest(ui[c].cur))
                                 /\ ui'[c] = Off(ui[c])
                    ELSE req' = req /\ ui' = ui
    BY <1>5, TakeChangedIs
  <2>2. CASE a.ok
    <3>1. PICK r : r = ListRequest(ui[c].cur)
      OBVIOUS
    <3>2. q.cur = p.cur /\ ~q.fileOn
      BY <1>1, <1>2, <2>1, <2>2 DEF Off, Panels
    <3>3. r.kind = "list" /\ r.path = q.cur /\ r \in Requests(c)
      BY <1>1, <1>2, <3>1, <3>2, PanelFields DEF ListRequest, Requests
    <3>4. \A i \in DOMAIN S : (i \in DOMAIN R /\ S[i] = R[i]) \/ S[i] = r
      <4>1. R \in Seq(Requests(c)) /\ S = Append(R, r)
        BY <1>1, <1>2, <2>1, <2>2, <3>1
      <4> QED
        BY <3>3, <4>1, Grown
    <3> QED
      BY <1>4, <2>1, <3>2, <3>3, <3>4
  <2>3. CASE ~a.ok
    <3>1. q = p /\ S = R
      BY <1>2, <2>1, <2>3
    <3>2. c \notin mixed' \cup hasty' => (q.item = NoName => ~q.fileOn)
      BY <1>3, <2>1, <3>1 DEF Patient, ButtonsOff
    <3> QED
      BY <1>4, <2>1, <3>1, <3>2
  <2> QED
    BY <2>2, <2>3
<1>6. CASE TakeList(c)
  <2>1. PICK a : /\ Took(c, a) /\ a.kind = "list" /\ req' = req
                 /\ ui'[c].cur = ui[c].cur /\ ui'[c].fileOn = ui[c].fileOn
    BY <1>6, TakeListIs
  <2>2. S = R /\ q.cur = p.cur /\ q.fileOn = p.fileOn
    BY <1>2, <2>1
  <2>3. c \notin mixed' \cup hasty' => ~q.fileOn
    BY <1>3, <2>1, <2>2 DEF Patient, ButtonsOff
  <2> QED
    BY <1>4, <2>1, <2>2, <2>3
<1>7. CASE TakeEntered(c)
  <2>1. PICK a : /\ Took(c, a) /\ a.kind = "entered" /\ req' = req
                 /\ IF a.ok THEN ui'[c].fileOn = ui[c].fileOn ELSE ui' = ui
    BY <1>7, TakeEnteredIs
  <2>2. CASE a.ok
    <3>1. SUFFICES ASSUME c \notin mixed' \cup hasty' PROVE Patient(req'[c], ans'[c], ui'[c], fs')
      BY <1>3, <2>1, PatienceLocal
    <3>2. /\ fs' = f /\ Patient(R, A, p, f) /\ 1 \in DOMAIN A /\ A[1] = a
          /\ EntersOnce(R, A, p)
      BY <1>3, <2>1, <3>1
    <3>3. \A j \in DOMAIN R : R[j].kind # "list"
      BY <2>1, <3>2 DEF EntersOnce
    <3>4. Patient(R, T, q, f)
      <4>1. q.fileOn <=> p.fileOn
        BY <1>2, <2>1, <2>2
      <4> QED
        BY <2>1, <2>2, <3>2, <3>3, <4>1, PatientEnters
    <3> QED
      BY <1>2, <2>1, <3>2, <3>4
  <2>3. CASE ~a.ok
    <3>1. q = p /\ S = R
      BY <1>2, <2>1, <2>3
    <3>2. c \notin mixed' \cup hasty' => (q.item = NoName => ~q.fileOn)
      BY <1>3, <2>1, <3>1 DEF Patient, ButtonsOff
    <3> QED
      BY <1>4, <2>1, <3>1, <3>2
  <2> QED
    BY <2>2, <2>3
<1>8. CASE TakeBox(c)
  <2>1. PICK a : Took(c, a) /\ req' = req /\ ui' = ui
    BY <1>8, TakeBoxIs
  <2>2. q = p /\ S = R
    BY <1>2, <2>1
  <2>3. c \notin mixed' \cup hasty' => (q.item = NoName => ~q.fileOn)
    BY <1>3, <2>1, <2>2 DEF Patient, ButtonsOff
  <2> QED
    BY <1>4, <2>1, <2>2, <2>3
<1> QED
  BY <1>5, <1>6, <1>7, <1>8 DEF Receive

\* Of two trees that differ only below the root of d, c sees the same.
LEMMA ElsewhereThere ==
  ASSUME Types, Types', NEW c \in Users, NEW d \in Users, c # d, OnlyIn(d, fs, fs'), NEW p \in Paths(c)
  PROVE  /\ p \in DOMAIN fs' <=> p \in DOMAIN fs
         /\ p \in DOMAIN fs => fs'[p] = fs[p]
<1>1. IsTree(fs) /\ IsTree(fs')
  BY DEF Types, Disk, IsTree
<1>2. PICK f, g : f = fs /\ g = fs'
  OBVIOUS
<1>3. IsTree(f) /\ IsTree(g) /\ OnlyIn(d, f, g)
  BY <1>1, <1>2
<1>4. /\ p \in DOMAIN g <=> p \in DOMAIN f
      /\ p \in DOMAIN f => g[p] = f[p]
  BY <1>3, ElsewhereSame
<1> QED
  BY <1>2, <1>4

\* Whatever is served keeps the patient as they are, if a list or a directory is
\* only sent to one who may not use his buttons for files.
LEMMA PatienceServed ==
  ASSUME Types, Types', Patience, NEW c \in Users, NEW r, NEW tell, Served(c, r, tell), OnlyIn(c, fs, fs'),
         \A u \in Users \cap DOMAIN tell :
           /\ tell[u] \in Responses
           /\ tell[u].kind \in {"list", "entered"} => u = c
           /\ c \notin mixed \cup hasty /\ (tell[u].kind = "list" \/ (tell[u].kind = "entered" /\ tell[u].ok))
                => ~ui[c].fileOn
  PROVE  Patience'
<1>1. SUFFICES ASSUME NEW u \in Users \ (mixed \cup hasty) PROVE Patient(req'[u], ans'[u], ui'[u], fs')
  BY DEF Served, Patience
<1>2. /\ Defined /\ req[c] # <<>>
      /\ req'[c] = Tail(req[c]) /\ (u # c => req'[u] = req[u])
      /\ ans'[u] = IF u \in DOMAIN tell THEN Append(ans[u], tell[u]) ELSE ans[u]
      /\ ui' = ui
  BY DEF Served
<1>3. Patient(req[u], ans[u], ui[u], fs)
  BY <1>2 DEF Patience
<1>4. req[u] \in Seq(Requests(u)) /\ ans[u] \in Seq(Responses)
  BY ClientParts
<1>5. PICK R, A, T, p, f, g : R = req[u] /\ A = ans[u] /\ T = ans'[u] /\ p = ui[u] /\ f = fs /\ g = fs'
  OBVIOUS
<1>6. \A i \in DOMAIN T : (\E j \in DOMAIN A : T[i] = A[j]) \/ (u \in DOMAIN tell /\ T[i] = tell[u])
  <2>1. CASE u \in DOMAIN tell
    <3>1. tell[u] \in Responses /\ A \in Seq(Responses) /\ T = Append(A, tell[u])
      BY <1>2, <1>4, <1>5, <2>1
    <3> QED
      BY <2>1, <3>1, Grown
  <2>2. CASE u \notin DOMAIN tell
    BY <1>2, <1>5, <2>2
  <2> QED
    BY <2>1, <2>2
<1>7. CASE u = c
  <2>1. R \in Seq(Requests(u)) /\ R # <<>> /\ req'[u] = Tail(R)
    BY <1>2, <1>4, <1>5, <1>7
  <2>2. \A i \in DOMAIN T : (\E j \in DOMAIN A : T[i] = A[j])
                            \/ (T[i].kind = "list" \/ (T[i].kind = "entered" /\ T[i].ok) => ~p.fileOn)
    BY <1>5, <1>6, <1>7
  <2>3. Patient(R, A, p, f)
    BY <1>3, <1>5
  <2>4. Patient(Tail(R), T, p, g)
    BY <2>1, <2>2, <2>3, PatientServed
  <2> QED
    BY <1>2, <1>5, <2>1, <2>4
<1>8. CASE u # c
  <2>1. \A i \in DOMAIN T : (\E j \in DOMAIN A : T[i] = A[j]) \/ T[i].kind \notin {"list", "entered"}
    BY <1>6, <1>8
  <2>2. ASSUME NEW i \in DOMAIN R, R[i].kind \in {"delete", "rename", "enter"}, R[i].path \in DOMAIN f
        PROVE  R[i].path \in DOMAIN g /\ g[R[i].path] = f[R[i].path]
    <3>1. PICK s : s = R[i]
      OBVIOUS
    <3>2. s \in Requests(u)
      BY <1>4, <1>5, <3>1
    <3>3. s.path \in Paths(u)
      BY <2>2, <3>1, <3>2, RequestFields, InnerPath
    <3> QED
      BY <1>5, <1>8, <2>2, <3>1, <3>3, ElsewhereThere
  <2>3. Patient(R, A, p, f)
    BY <1>3, <1>5
  <2>4. Patient(R, T, p, g)
    BY <2>1, <2>2, <2>3, PatientBystander
  <2> QED
    BY <1>2, <1>5, <1>8, <2>4
<1> QED
  BY <1>7, <1>8

LEMMA PatienceServe ==
  ASSUME Types, Types', Patience, NEW c \in Users, Serve(c)
  PROVE  Patience'
<1>1. /\ Told \in Responses /\ Told.kind = "told"
      /\ \A b \in BOOLEAN : Changed(b) \in Responses /\ Changed(b).kind = "changed"
  BY NewAnswers
<1>2. req[c] \in Seq(Requests(c))
  BY ClientParts
<1>3. ASSUME NEW d \in Users, NEW r, NEW a \in Responses, Served(c, r, To(d, a)), OnlyIn(c, fs, fs'),
             a.kind \in {"list", "entered"} => d = c,
             c \notin mixed \cup hasty /\ (a.kind = "list" \/ (a.kind = "entered" /\ a.ok)) => ~ui[c].fileOn
      PROVE  Patience'
  <2>1. PICK tell : tell = To(d, a)
    OBVIOUS
  <2>2. DOMAIN tell = {d} /\ tell[d] = a
    BY <2>1, ToIs
  <2>3. Served(c, r, tell)
    BY <1>3, <2>1
  <2>4. \A u \in Users \cap DOMAIN tell :
           /\ tell[u] \in Responses
           /\ tell[u].kind \in {"list", "entered"} => u = c
           /\ c \notin mixed \cup hasty /\ (tell[u].kind = "list" \/ (tell[u].kind = "entered" /\ tell[u].ok))
                => ~ui[c].fileOn
    BY <1>3, <2>2
  <2> QED
    BY <1>3, <2>3, <2>4, PatienceServed
<1>4. ASSUME NEW r, NEW tell, Served(c, r, tell)
      PROVE  /\ 1 \in DOMAIN req[c] /\ req[c][1] = r
             /\ c \notin mixed \cup hasty => /\ MeansIt(req[c], ui[c], fs)
                                             /\ ButtonsOff(req[c], ans[c], ui[c])
  <2>1. Defined /\ req[c] # <<>> /\ r = Head(req[c])
    BY <1>4 DEF Served
  <2> QED
    BY <1>2, <2>1, Shrunk DEF Patience, Patient
<1>5. CASE ServeList(c)
  <2>1. PICK r : /\ r.kind = "list" /\ fs' = fs
                 /\ IF DirIn(fs, r.path)
                    THEN Served(c, r, To(c, [kind |-> "list", list |-> ListOf(fs, r.path)]))
                    ELSE undef' = "missing"
    BY <1>5, ServeListIs
  <2>2. CASE DirIn(fs, r.path)
    <3>1. PICK a : a = [kind |-> "list", list |-> ListOf(fs, r.path)]
      OBVIOUS
    <3>2. a \in Responses /\ a.kind = "list"
      BY <2>2, <3>1, Listed, NewAnswers DEF DirIn, Types
    <3>3. Served(c, r, To(c, a))
      BY <2>1, <2>2, <3>1
    <3>4. c \notin mixed \cup hasty => ~ui[c].fileOn
      BY <1>4, <2>1, <3>3 DEF ButtonsOff
    <3> QED
      BY <1>3, <2>1, <3>2, <3>3, <3>4, OnlySame
  <2>3. CASE ~DirIn(fs, r.path)
    BY <2>1, <2>3 DEF Patience, Defined
  <2> QED
    BY <2>2, <2>3
<1>6. CASE ServeEnter(c)
  <2>1. PICK r : /\ r.kind = "enter" /\ fs' = fs
                 /\ IF r.path \in DOMAIN fs
                    THEN \E a : /\ Served(c, r, To(c, a)) /\ a \in Responses /\ a.kind = "entered"
                                /\ a.ok <=> DirIn(fs, r.path)
                    ELSE undef' = "missing"
    BY <1>6, ServeEnterIs
  <2>2. CASE r.path \in DOMAIN fs
    <3>1. PICK a : /\ Served(c, r, To(c, a)) /\ a \in Responses /\ a.kind = "entered"
                   /\ a.ok <=> DirIn(fs, r.path)
      BY <2>1, <2>2
    <3>2. c \notin mixed \cup hasty /\ a.ok => ~ui[c].fileOn
      BY <1>4, <2>1, <3>1 DEF MeansIt, DirIn
    <3> QED
      BY <1>3, <2>1, <3>1, <3>2, OnlySame
  <2>3. CASE r.path \notin DOMAIN fs
    BY <2>1, <2>3 DEF Patience, Defined
  <2> QED
    BY <2>2, <2>3
<1>7. ASSUME NEW r, NEW a \in Responses, Served(c, r, To(c, a)), OnlyIn(c, fs, fs'),
             a.kind \in {"told", "changed"}
      PROVE  Patience'
  BY <1>3, <1>7
<1>8. CASE ServeCreate(c)
  BY <1>1, <1>7, <1>8, ServeCreateIs DEF Grows
<1>9. CASE ServeDelete(c)
  <2>1. PICK r : OnlyIn(c, fs, fs') /\ Served(c, r, To(c, Changed(r.path \in DOMAIN fs)))
    BY <1>9, ServeDeleteIs
  <2>2. (r.path \in DOMAIN fs) \in BOOLEAN
    OBVIOUS
  <2>3. PICK a : a = Changed(r.path \in DOMAIN fs)
    OBVIOUS
  <2>4. a \in Responses /\ a.kind = "changed"
    BY <1>1, <2>2, <2>3
  <2> QED
    BY <1>7, <2>1, <2>3, <2>4
<1>10. CASE ServeRename(c)
  <2>1. PICK r, ok : ok \in BOOLEAN /\ OnlyIn(c, fs, fs') /\ Served(c, r, To(c, Changed(ok)))
    BY <1>10, ServeRenameIs DEF Moves
  <2> QED
    BY <1>1, <1>7, <2>1
<1>11. CASE ServeMove(c)
  <2>1. PICK r : OnlyIn(c, fs, fs') /\ Served(c, r, To(c, Told))
    BY <1>11, ServeMoveIs DEF Moves
  <2> QED
    BY <1>1, <1>7, <2>1
<1>12. CASE ServeShare(c)
  <2>1. PICK r, a : r.to \in Users /\ fs' = fs /\ Served(c, r, To(r.to, a)) /\ a \in Notes
    BY <1>12, ServeShareIs
  <2>2. a \in Responses /\ a.kind = "note"
    BY <2>1, NoteFields DEF Responses
  <2> QED
    BY <1>3, <2>1, <2>2, OnlySame
<1>13. ASSUME NEW r, Served(c, r, [u \in {c, r.from} |-> Told]), OnlyIn(c, fs, fs')
       PROVE  Patience'
  <2>1. PICK tell : tell = [u \in {c, r.from} |-> Told]
    OBVIOUS
  <2>2. \A u \in Users \cap DOMAIN tell : tell[u] \in Responses /\ tell[u].kind = "told"
    BY <1>1, <2>1
  <2>3. Served(c, r, tell)
    BY <1>13, <2>1
  <2> QED
    BY <1>13, <2>2, <2>3, PatienceServed
<1>14. CASE ServeAgree(c)
  BY <1>13, <1>14, ServeAgreeIs DEF Grows
<1>15. CASE ServeRefuse(c)
  BY <1>13, <1>15, ServeRefuseIs, OnlySame
<1> QED
  BY <1>5, <1>6, <1>8, <1>9, <1>10, <1>11, <1>12, <1>14, <1>15 DEF Serve

LEMMA PatienceStep == Types /\ Views /\ Patience /\ [Next]_vars => Patience'
<1> SUFFICES ASSUME Types, Views, Patience, [Next]_vars PROVE Patience'
  OBVIOUS
<1>1. CASE Next
  <2>1. PICK c \in Users : User(c) \/ Receive(c) \/ Serve(c)
    BY <1>1 DEF Next
  <2>2. Types'
    BY TypesStep
  <2> QED
    BY <2>1, <2>2, PatienceUser, PatienceReceive, PatienceServe
<1>2. CASE UNCHANGED vars
  BY <1>2 DEF Patience, Defined, vars, panels, history
<1> QED
  BY <1>1, <1>2

LEMMA InitPatience == Init => Patience
<1> SUFFICES ASSUME Init, NEW c \in Users PROVE Patient(req[c], ans[c], ui[c], fs)
  BY DEF Patience
<1>1. req[c] = <<>> /\ ans[c] = <<>> /\ ~ui[c].fileOn
  BY InitIs
<1> QED
  BY <1>1 DEF Patient, AsksOnce, MeansIt, ButtonsOff

-----------------------------------------------------------------------------
(* Where he is.                                                            *)

LEMMA LocatedSame ==
  ASSUME NEW A, NEW T, NEW p, NEW q, NEW f, Located(A, p, f), q.cur = p.cur, q.enter = p.enter,
         \A i \in DOMAIN T : \E j \in DOMAIN A : T[i] = A[j]
  PROVE  Located(T, q, f)
BY DEF Located

LEMMA LocatedThere ==
  ASSUME NEW A, NEW T, NEW p, NEW f, NEW g, Located(A, p, f),
         \A i \in DOMAIN T : (\E j \in DOMAIN A : T[i] = A[j]) \/ T[i].kind # "entered",
         DirIn(f, p.cur) => DirIn(g, p.cur),
         \A i \in DOMAIN A : A[i].kind = "entered" /\ DirIn(f, Append(p.cur, p.enter)) =>
           DirIn(g, Append(p.cur, p.enter))
  PROVE  Located(T, p, g)
<1>1. ASSUME NEW i \in DOMAIN T, T[i].kind = "entered", T[i].ok PROVE DirIn(g, Append(p.cur, p.enter))
  <2>1. PICK j \in DOMAIN A : T[i] = A[j]
    BY <1>1
  <2> QED
    BY <1>1, <2>1 DEF Located
<1> QED
  BY <1>1 DEF Located

LEMMA LocationsLocal ==
  ASSUME Locations, NEW c \in Users, Local(c),
         c \notin mixed' \cup hasty' \cup cut' => Located(ans'[c], ui'[c], fs')
  PROVE  Locations'
<1>1. ASSUME NEW u \in Users \ (mixed' \cup hasty' \cup cut') PROVE Located(ans'[u], ui'[u], fs')
  <2>1. CASE u = c
    BY <1>1, <2>1
  <2>2. CASE u # c
    <3>1. /\ ans'[u] = ans[u] /\ ui'[u] = ui[u] /\ fs' = fs
          /\ u \notin mixed \cup hasty \cup cut /\ Defined
      BY <1>1, <2>2 DEF Local, Marks
    <3> QED
      BY <3>1 DEF Locations
  <2> QED
    BY <2>1, <2>2
<1> QED
  BY <1>1 DEF Locations

\* After a click of his: nothing is under way that could take him elsewhere.
LEMMA LocationsClicked ==
  ASSUME Types, Views, Patience, Locations, NEW c \in Users, Local(c), Waits(c), ans' = ans,
         c \notin cut' /\ DirIn(fs, ui[c].cur) => DirIn(fs, ui'[c].cur)
  PROVE  Locations'
<1>1. SUFFICES ASSUME c \notin mixed' \cup hasty' \cup cut' PROVE Located(ans'[c], ui'[c], fs')
  BY LocationsLocal
<1>2. fs' = fs /\ ans[c] = <<>>
  BY <1>1, Sees
<1>3. Located(ans[c], ui[c], fs)
  BY <1>1 DEF Local, Marks, Locations
<1> QED
  BY <1>1, <1>2, <1>3 DEF Located

LEMMA LocationsUser ==
  ASSUME Types, Types', Views, Patience, Locations, NEW c \in Users, User(c)
  PROVE  Locations'
<1>1. ui[c] \in Panels(c) /\ ui[c].cur \in Paths(c)
  BY ClientParts, PanelFields
<1>2. Off(ui[c]).cur = ui[c].cur /\ Off(ui[c]).enter = ui[c].enter
  BY <1>1 DEF Off, Panels
<1>3. ASSUME NEW r, Asked(c, r), ui'[c].cur = ui[c].cur PROVE Locations'
  BY <1>3, LocationsClicked DEF Asked
<1>4. ASSUME Picked(c), SamePlace(ui[c], ui'[c]) PROVE Locations'
  BY <1>4, LocationsClicked DEF Picked, SamePlace
<1>5. ASSUME NEW b, NEW r, Closed(c, b, r), ui'[c].cur = ui[c].cur, ui'[c].enter = ui[c].enter
      PROVE  Locations'
  <2>1. Local(c) /\ ans' = ans
    BY <1>5 DEF Closed
  <2>2. SUFFICES ASSUME c \notin mixed' \cup hasty' \cup cut' PROVE Located(ans'[c], ui'[c], fs')
    BY <2>1, LocationsLocal
  <2>3. Located(ans[c], ui[c], fs) /\ fs' = fs
    BY <2>1, <2>2 DEF Local, Marks, Locations
  <2> QED
    BY <1>5, <2>1, <2>3 DEF Located
<1>6. CASE ClickItem(c)
  BY <1>4, <1>6, ClickItemIs
<1>7. CASE ClickFlush(c)
  BY <1>2, <1>3, <1>7, ClickFlushIs
<1>8. CASE ClickCreate(c)
  BY <1>3, <1>8, ClickCreateIs
<1>9. CASE ClickDelete(c)
  BY <1>3, <1>9, ClickDeleteIs
<1>10. CASE ClickRename(c)
  BY <1>3, <1>10, ClickRenameIs
<1>11. CASE DoubleClick(c)
  BY <1>3, <1>11, DoubleClickIs
<1>12. CASE ClickReturn(c)
  <2>1. /\ Asked(c, ListRequest(Parent(ui[c].cur))) /\ ui'[c].cur = Parent(ui[c].cur)
        /\ ~(Len(ui[c].cur) > 1) => c \in cut'
    BY <1>12, ClickReturnIs
  <2>2. ASSUME c \notin cut', DirIn(fs, ui[c].cur) PROVE DirIn(fs, ui'[c].cur)
    <3>1. PICK p : p = ui[c].cur
      OBVIOUS
    <3>2. p \in DOMAIN fs /\ Len(p) > 1 /\ IsTree(fs)
      BY <2>1, <2>2, <3>1 DEF DirIn, Types, Disk
    <3>3. Len(p) \in Nat
      BY <3>2, TreePath
    <3>4. Len(p) - 1 \in 1..(Len(p) - 1)
      BY <3>2, <3>3
    <3>5. PICK q : q = SubSeq(p, 1, Len(p) - 1)
      OBVIOUS
    <3>6. q \in DOMAIN fs /\ fs[q] = Dir
      BY <3>2, <3>4, <3>5 DEF IsTree
    <3>7. ui'[c].cur = q
      BY <1>1, <2>1, <3>1, <3>2, <3>5, ParentPath
    <3> QED
      BY <3>6, <3>7 DEF DirIn
  <2> QED
    BY <2>1, <2>2, LocationsClicked DEF Asked
<1>13. CASE PickMove(c)
  BY <1>4, <1>13, PickMoveIs
<1>14. CASE ConfirmMove(c)
  BY <1>3, <1>14, ConfirmMoveIs DEF SamePlace
<1>15. CASE PickShare(c)
  BY <1>4, <1>15, PickShareIs
<1>16. CASE ConfirmShare(c)
  BY <1>3, <1>16, ConfirmShareIs DEF SamePlace
<1>17. CASE CloseTold(c)
  BY <1>2, <1>5, <1>17, CloseToldIs
<1>18. CASE AnswerNote(c)
  BY <1>5, <1>18, AnswerNoteIs
<1> QED
  BY <1>6, <1>7, <1>8, <1>9, <1>10, <1>11, <1>12, <1>13, <1>14, <1>15, <1>16, <1>17, <1>18 DEF User

LEMMA LocationsReceive ==
  ASSUME Types, Types', Views, Locations, NEW c \in Users, Receive(c)
  PROVE  Locations'
<1>1. ans[c] \in Seq(Responses) /\ ui[c] \in Panels(c)
  BY ClientParts
<1>2. Off(ui[c]).cur = ui[c].cur /\ Off(ui[c]).enter = ui[c].enter
  BY <1>1 DEF Off, Panels
<1>3. PICK A, T, p, q, f : A = ans[c] /\ T = ans'[c] /\ p = ui[c] /\ q = ui'[c] /\ f = fs
  OBVIOUS
<1>4. ASSUME NEW a, Took(c, a)
      PROVE  /\ Local(c) /\ A \in Seq(Responses) /\ A # <<>> /\ a = Head(A) /\ T = Tail(A)
             /\ 1 \in DOMAIN A /\ A[1] = a
             /\ \A i \in DOMAIN T : i \in Nat /\ i + 1 \in DOMAIN A /\ T[i] = A[i + 1]
             /\ c \notin mixed' \cup hasty' \cup cut' =>
                  fs' = f /\ Located(A, p, f) /\ EntersOnce(req[c], A, p)
  <2>1. /\ Local(c) /\ A \in Seq(Responses) /\ A # <<>> /\ a = Head(A) /\ T = Tail(A)
    BY <1>1, <1>3, <1>4 DEF Took
  <2>2. c \notin mixed' \cup hasty' \cup cut' =>
          fs' = f /\ Located(A, p, f) /\ EntersOnce(req[c], A, p)
    BY <1>3, <2>1 DEF Local, Marks, Locations, Views, View
  <2> QED
    BY <2>1, <2>2, Shrunk
<1>5. ASSUME NEW a, Took(c, a), q.cur = p.cur, q.enter = p.enter PROVE Locations'
  <2>1. SUFFICES ASSUME c \notin mixed' \cup hasty' \cup cut' PROVE Located(ans'[c], ui'[c], fs')
    BY <1>4, <1>5, LocationsLocal
  <2>2. fs' = f /\ Located(A, p, f) /\ \A i \in DOMAIN T : \E j \in DOMAIN A : T[i] = A[j]
    BY <1>4, <1>5, <2>1
  <2>3. Located(T, q, f)
    BY <1>5, <2>2, LocatedSame
  <2> QED
    BY <1>3, <2>2, <2>3
<1>6. CASE TakeChanged(c)
  <2>1. PICK a : /\ Took(c, a) /\ (a.ok => ui'[c] = Off(ui[c])) /\ (~a.ok => ui' = ui)
    BY <1>6, TakeChangedIs
  <2> QED
    BY <1>2, <1>3, <1>5, <2>1
<1>7. CASE TakeList(c)
  BY <1>3, <1>5, <1>7, TakeListIs
<1>8. CASE TakeEntered(c)
  <2>1. PICK a : /\ Took(c, a) /\ a.kind = "entered"
                 /\ a.ok => ui'[c].cur = Append(ui[c].cur, ui[c].enter) /\ ui'[c].enter = ui[c].enter
                 /\ ~a.ok => ui' = ui
    BY <1>8, TakeEnteredIs
  <2>2. CASE a.ok
    <3>1. SUFFICES ASSUME c \notin mixed' \cup hasty' \cup cut' PROVE Located(ans'[c], ui'[c], fs')
      BY <1>4, <2>1, LocationsLocal
    <3>2. /\ fs' = f /\ Located(A, p, f) /\ 1 \in DOMAIN A /\ A[1] = a /\ EntersOnce(req[c], A, p)
          /\ \A i \in DOMAIN T : i \in Nat /\ i + 1 \in DOMAIN A /\ T[i] = A[i + 1]
      BY <1>4, <2>1, <3>1
    <3>3. DirIn(f, q.cur)
      BY <1>3, <2>1, <2>2, <3>2 DEF Located
    <3>4. ASSUME NEW i \in DOMAIN T PROVE T[i].kind # "entered"
      <4>1. i + 1 \in DOMAIN A /\ T[i] = A[i + 1] /\ (i = 0 \/ i + 1 > 1)
        BY <3>2
      <4>2. i # 0
        BY <1>4, <2>1, NoElements, Shrunk
      <4> QED
        BY <2>1, <3>2, <4>1, <4>2 DEF EntersOnce
    <3>5. Located(T, q, f)
      BY <3>3, <3>4 DEF Located
    <3> QED
      BY <1>3, <3>2, <3>5
  <2>3. CASE ~a.ok
    BY <1>3, <1>5, <2>1, <2>3
  <2> QED
    BY <2>2, <2>3
<1>9. CASE TakeBox(c)
  BY <1>3, <1>5, <1>9, TakeBoxIs
<1> QED
  BY <1>6, <1>7, <1>8, <1>9 DEF Receive

LEMMA LocationsServed ==
  ASSUME Types, Types', Locations, NEW c \in Users, NEW r, NEW tell, Served(c, r, tell), OnlyIn(c, fs, fs'),
         \A u \in Users \cap DOMAIN tell : tell[u] \in Responses /\ (tell[u].kind = "entered" => u = c),
         c \notin mixed \cup hasty \cup cut => Located(ans'[c], ui[c], fs')
  PROVE  Locations'
<1>1. SUFFICES ASSUME NEW u \in Users \ (mixed \cup hasty \cup cut) PROVE Located(ans'[u], ui'[u], fs')
  BY DEF Served, Locations
<1>2. /\ Defined /\ ui' = ui
      /\ ans'[u] = IF u \in DOMAIN tell THEN Append(ans[u], tell[u]) ELSE ans[u]
  BY DEF Served
<1>3. CASE u = c
  BY <1>1, <1>2, <1>3
<1>4. CASE u # c
  <2>1. PICK A, T, p, f, g : A = ans[u] /\ T = ans'[u] /\ p = ui[u] /\ f = fs /\ g = fs'
    OBVIOUS
  <2>2. A \in Seq(Responses) /\ p.cur \in Paths(u) /\ (EnteringIn(req[u], A) => p.enter \in Names)
    BY <2>1, ClientParts, PanelFields
  <2>3. \A i \in DOMAIN T : (\E j \in DOMAIN A : T[i] = A[j]) \/ T[i].kind # "entered"
    <3>1. CASE u \in DOMAIN tell
      <4>1. tell[u] \in Responses /\ T = Append(A, tell[u]) /\ tell[u].kind # "entered"
        BY <1>2, <1>4, <2>1, <3>1
      <4> QED
        BY <2>2, <4>1, Grown
    <3>2. CASE u \notin DOMAIN tell
      BY <1>2, <2>1, <3>2
    <3> QED
      BY <3>1, <3>2
  <2>4. Located(A, p, f)
    BY <1>2, <2>1 DEF Locations
  <2>5. DirIn(f, p.cur) => DirIn(g, p.cur)
    BY <1>4, <2>1, <2>2, ElsewhereThere DEF DirIn
  <2>6. ASSUME NEW i \in DOMAIN A, A[i].kind = "entered", DirIn(f, Append(p.cur, p.enter))
        PROVE  DirIn(g, Append(p.cur, p.enter))
    <3>1. p.enter \in Names
      BY <2>2, <2>6 DEF EnteringIn
    <3>2. Append(p.cur, p.enter) \in Paths(u)
      BY <2>2, <3>1, LongerPath
    <3> QED
      BY <1>4, <2>1, <2>6, <3>2, ElsewhereThere DEF DirIn
  <2>7. Located(T, p, g)
    BY <2>3, <2>4, <2>5, <2>6, LocatedThere
  <2> QED
    BY <1>2, <2>1, <2>7
<1> QED
  BY <1>3, <1>4

\* What a longer path is about is not where he is.
LEMMA NotAbove ==
  ASSUME NEW c \in Users, NEW p \in Paths(c), NEW q \in Inner(c), Len(q) = Len(p) + 1
  PROVE  ~IsPrefix(q, p)
<1>1. p \in Seq(Components) /\ q \in Seq(Components) /\ Len(p) \in Nat
  BY InnerPath DEF Paths
<1> QED
  BY <1>1, PrefixPoints

\* Nor is a file.
LEMMA FileNotAbove ==
  ASSUME NEW c \in Users, NEW f, IsTree(f), NEW p \in DOMAIN f, f[p] = Dir, NEW q \in Inner(c), f[q] # Dir
  PROVE  ~IsPrefix(q, p)
<1>1. q \in Seq(Components) /\ q # <<>>
  BY InnerPath
<1> QED
  BY <1>1, TreePrefix

LEMMA LocationsServe ==
  ASSUME Types, Types', Views, Patience, Locations, NEW c \in Users, Serve(c)
  PROVE  Locations'
<1>1. /\ Told \in Responses /\ Told.kind = "told"
      /\ \A b \in BOOLEAN : Changed(b) \in Responses /\ Changed(b).kind = "changed"
  BY NewAnswers
<1>2. /\ req[c] \in Seq(Requests(c)) /\ ans[c] \in Seq(Responses) /\ ui[c].cur \in Paths(c)
  BY ClientParts, PanelFields
<1>3. PICK R, A, T, p, f, g : R = req[c] /\ A = ans[c] /\ T = ans'[c] /\ p = ui[c] /\ f = fs /\ g = fs'
  OBVIOUS
<1>4. IsTree(f)
  BY <1>3 DEF Types, Disk
<1>5. ASSUME NEW r, NEW tell, Served(c, r, tell), c \notin mixed \cup hasty \cup cut
      PROVE  /\ 1 \in DOMAIN R /\ R[1] = r /\ r \in Requests(c)
             /\ AsksOnce(R, A, p) /\ MeansIt(R, p, f) /\ Located(A, p, f) /\ EntersOnce(R, A, p)
  <2>1. Defined /\ req[c] # <<>> /\ r = Head(req[c]) /\ r \in Requests(c)
    BY <1>5 DEF Served
  <2>2. 1 \in DOMAIN R /\ R[1] = r
    BY <1>2, <1>3, <2>1, Shrunk
  <2> QED
    BY <1>3, <1>5, <2>1, <2>2 DEF Patience, Patient, Locations, Views, View
\* The answer is not to an enter; what is there stays, as far as he is in it.
<1>6. ASSUME NEW r, NEW tell, Served(c, r, tell), OnlyIn(c, f, g),
             \A u \in Users \cap DOMAIN tell : tell[u] \in Responses /\ tell[u].kind # "entered",
             c \notin mixed \cup hasty \cup cut =>
               /\ DirIn(f, p.cur) => DirIn(g, p.cur)
               /\ r.kind \in Clicked \/ (\A x : DirIn(f, x) => DirIn(g, x))
      PROVE  Locations'
  <2>1. SUFFICES ASSUME c \notin mixed \cup hasty \cup cut PROVE Located(ans'[c], ui[c], fs')
    BY <1>3, <1>6, LocationsServed
  <2>2. /\ 1 \in DOMAIN R /\ R[1] = r /\ AsksOnce(R, A, p) /\ Located(A, p, f)
    BY <1>5, <1>6, <2>1
  <2>3. T = IF c \in DOMAIN tell THEN Append(A, tell[c]) ELSE A
    BY <1>3, <1>6 DEF Served
  <2>4. \A i \in DOMAIN T : (\E j \in DOMAIN A : T[i] = A[j]) \/ T[i].kind # "entered"
    <3>1. CASE c \in DOMAIN tell
      <4>1. A \in Seq(Responses) /\ tell[c] \in Responses /\ T = Append(A, tell[c]) /\ tell[c].kind # "entered"
        BY <1>2, <1>3, <1>6, <2>3, <3>1
      <4> QED
        BY <4>1, Grown
    <3>2. CASE c \notin DOMAIN tell
      BY <2>3, <3>2
    <3> QED
      BY <3>1, <3>2
  <2>5. DirIn(f, p.cur) => DirIn(g, p.cur)
    BY <1>6, <2>1
  <2>6. \A i \in DOMAIN A : A[i].kind = "entered" /\ DirIn(f, Append(p.cur, p.enter)) =>
          DirIn(g, Append(p.cur, p.enter))
    BY <1>6, <2>1, <2>2 DEF AsksOnce
  <2>7. Located(T, p, g)
    BY <2>2, <2>4, <2>5, <2>6, LocatedThere
  <2> QED
    BY <1>3, <2>7
<1>7. ASSUME NEW r, NEW d \in Users, NEW a \in Responses, Served(c, r, To(d, a)), OnlyIn(c, f, g), a.kind # "entered",
             c \notin mixed \cup hasty \cup cut =>
               /\ DirIn(f, p.cur) => DirIn(g, p.cur)
               /\ r.kind \in Clicked \/ (\A x : DirIn(f, x) => DirIn(g, x))
      PROVE  Locations'
  <2>1. PICK tell : tell = To(d, a)
    OBVIOUS
  <2>2. DOMAIN tell = {d} /\ tell[d] = a
    BY <2>1, ToIs
  <2>3. \A u \in Users \cap DOMAIN tell : tell[u] \in Responses /\ tell[u].kind # "entered"
    BY <1>7, <2>2
  <2> QED
    BY <1>6, <1>7, <2>1, <2>3
<1>8. CASE ServeList(c)
  <2>1. PICK r : /\ r.kind = "list" /\ fs' = fs
                 /\ IF DirIn(fs, r.path)
                    THEN Served(c, r, To(c, [kind |-> "list", list |-> ListOf(fs, r.path)]))
                    ELSE undef' = "missing"
    BY <1>8, ServeListIs
  <2>2. CASE DirIn(fs, r.path)
    <3>1. PICK a : a = [kind |-> "list", list |-> ListOf(fs, r.path)]
      OBVIOUS
    <3>2. a \in Responses /\ a.kind = "list"
      BY <2>2, <3>1, Listed, NewAnswers DEF DirIn, Types
    <3>3. Served(c, r, To(c, a)) /\ g = f
      BY <1>3, <2>1, <2>2, <3>1
    <3> QED
      BY <1>7, <3>2, <3>3, OnlySame
  <2>3. CASE ~DirIn(fs, r.path)
    BY <2>1, <2>3 DEF Locations, Defined
  <2> QED
    BY <2>2, <2>3
<1>9. CASE ServeEnter(c)
  <2>1. PICK r : /\ r.kind = "enter" /\ fs' = fs
                 /\ IF r.path \in DOMAIN fs
                    THEN \E a : /\ Served(c, r, To(c, a)) /\ a \in Responses /\ a.kind = "entered"
                                /\ a.ok <=> DirIn(fs, r.path)
                    ELSE undef' = "missing"
    BY <1>9, ServeEnterIs
  <2>2. CASE r.path \in DOMAIN fs
    <3>1. PICK a : /\ Served(c, r, To(c, a)) /\ a \in Responses /\ a.kind = "entered"
                   /\ a.ok <=> DirIn(fs, r.path)
      BY <2>1, <2>2
    <3>2. PICK tell : tell = To(c, a)
      OBVIOUS
    <3>3. DOMAIN tell = {c} /\ tell[c] = a /\ Served(c, r, tell)
      BY <3>1, <3>2, ToIs
    <3>4. \A u \in Users \cap DOMAIN tell : tell[u] \in Responses /\ (tell[u].kind = "entered" => u = c)
      BY <3>1, <3>3
    <3>5. ASSUME c \notin mixed \cup hasty \cup cut PROVE Located(ans'[c], ui[c], fs')
      <4>1. /\ 1 \in DOMAIN R /\ R[1] = r /\ EntersOnce(R, A, p) /\ Located(A, p, f)
        BY <1>5, <3>3, <3>5
      <4>2. r.path = Append(p.cur, p.enter)
        BY <2>1, <4>1 DEF EntersOnce
      <4>3. T = Append(A, a) /\ A \in Seq(Responses) /\ a \in Responses
        BY <1>2, <1>3, <3>1, <3>3 DEF Served
      <4>4. \A i \in DOMAIN T : (\E j \in DOMAIN A : T[i] = A[j]) \/ T[i] = a
        BY <4>3, Grown
      <4>5. a.ok => DirIn(f, Append(p.cur, p.enter))
        BY <1>3, <3>1, <4>2
      <4>6. Located(T, p, f)
        BY <4>1, <4>4, <4>5 DEF Located
      <4> QED
        BY <1>3, <2>1, <4>6
    <3> QED
      BY <2>1, <3>3, <3>4, <3>5, OnlySame, LocationsServed
  <2>3. CASE r.path \notin DOMAIN fs
    BY <2>1, <2>3 DEF Locations, Defined
  <2> QED
    BY <2>2, <2>3
<1>10. ASSUME Grows(c, f, g) PROVE OnlyIn(c, f, g) /\ \A x : DirIn(f, x) => DirIn(g, x)
  BY <1>10 DEF Grows, DirIn
<1>11. CASE ServeCreate(c)
  <2>1. PICK r : Grows(c, f, g) /\ Served(c, r, To(c, Changed(TRUE)))
    BY <1>3, <1>11, ServeCreateIs
  <2> QED
    BY <1>1, <1>7, <1>10, <2>1
\* What he is in stays when something that is not above it is changed.
<1>12. ASSUME NEW r, NEW tell, Served(c, r, tell), r.kind \in {"delete", "rename"},
              \A q \in DOMAIN f : (q \in DOMAIN g /\ g[q] = f[q]) \/ IsPrefix(r.path, q)
       PROVE  c \notin mixed \cup hasty \cup cut => (DirIn(f, p.cur) => DirIn(g, p.cur))
  <2>1. SUFFICES ASSUME c \notin mixed \cup hasty \cup cut, DirIn(f, p.cur) PROVE DirIn(g, p.cur)
    OBVIOUS
  <2>2. 1 \in DOMAIN R /\ R[1] = r /\ MeansIt(R, p, f) /\ r \in Requests(c)
    BY <1>5, <1>12, <2>1
  <2>3. Len(r.path) = Len(p.cur) + 1
    BY <1>12, <2>2 DEF MeansIt
  <2>4. r.path \in Inner(c) /\ p.cur \in Paths(c)
    BY <1>2, <1>3, <1>12, <2>2, RequestFields
  <2>5. ~IsPrefix(r.path, p.cur)
    BY <2>3, <2>4, NotAbove
  <2> QED
    BY <1>12, <2>1, <2>5 DEF DirIn
<1>13. CASE ServeDelete(c)
  <2>1. PICK r : /\ r.kind = "delete" /\ OnlyIn(c, fs, fs') /\ Served(c, r, To(c, Changed(r.path \in DOMAIN fs)))
                 /\ \A q \in DOMAIN fs : (q \in DOMAIN fs' /\ fs'[q] = fs[q]) \/ IsPrefix(r.path, q)
    BY <1>13, ServeDeleteIs
  <2>2. (r.path \in DOMAIN fs) \in BOOLEAN
    OBVIOUS
  <2>3. PICK a : a = Changed(r.path \in DOMAIN fs)
    OBVIOUS
  <2>4. a \in Responses /\ a.kind = "changed" /\ Served(c, r, To(c, a))
    BY <1>1, <2>1, <2>2, <2>3
  <2>5. c \notin mixed \cup hasty \cup cut => (DirIn(f, p.cur) => DirIn(g, p.cur))
    BY <1>3, <1>12, <2>1, <2>4
  <2> QED
    BY <1>3, <1>7, <2>1, <2>4, <2>5 DEF Clicked
<1>14. CASE ServeRename(c)
  <2>1. PICK r, ok : r.kind = "rename" /\ ok \in BOOLEAN /\ Moves(c, r.path, fs, fs') /\ Served(c, r, To(c, Changed(ok)))
    BY <1>14, ServeRenameIs
  <2>2. OnlyIn(c, f, g) /\ \A q \in DOMAIN f : (q \in DOMAIN g /\ g[q] = f[q]) \/ IsPrefix(r.path, q)
    BY <1>3, <2>1 DEF Moves
  <2>3. c \notin mixed \cup hasty \cup cut => (DirIn(f, p.cur) => DirIn(g, p.cur))
    BY <1>12, <2>1, <2>2
  <2> QED
    BY <1>1, <1>7, <2>1, <2>2, <2>3 DEF Clicked
<1>15. CASE ServeMove(c)
  <2>1. PICK r : /\ r.kind = "move" /\ Moves(c, r.path, fs, fs') /\ Served(c, r, To(c, Told))
                 /\ fs' = fs \/ (r.path \in DOMAIN fs /\ fs[r.path] # Dir)
    BY <1>15, ServeMoveIs
  <2>2. OnlyIn(c, f, g) /\ \A q \in DOMAIN f : (q \in DOMAIN g /\ g[q] = f[q]) \/ IsPrefix(r.path, q)
    BY <1>3, <2>1 DEF Moves
  <2>3. r.path \in Inner(c)
    BY <2>1, RequestFields DEF Served
  <2>4. DirIn(f, p.cur) => DirIn(g, p.cur)
    <3>1. CASE fs' = fs
      BY <1>3, <3>1
    <3>2. ASSUME f[r.path] # Dir, DirIn(f, p.cur) PROVE DirIn(g, p.cur)
      <4>1. p.cur \in DOMAIN f /\ f[p.cur] = Dir
        BY <3>2 DEF DirIn
      <4>2. ~IsPrefix(r.path, p.cur)
        BY <1>4, <2>3, <3>2, <4>1, FileNotAbove
      <4> QED
        BY <2>2, <4>1, <4>2 DEF DirIn
    <3> QED
      BY <1>3, <2>1, <3>1, <3>2
  <2> QED
    BY <1>1, <1>7, <2>1, <2>2, <2>4 DEF Clicked
<1>16. CASE ServeShare(c)
  <2>1. PICK r, a : r.to \in Users /\ fs' = fs /\ Served(c, r, To(r.to, a)) /\ a \in Notes
    BY <1>16, ServeShareIs
  <2>2. a \in Responses /\ a.kind = "note"
    BY <2>1, NoteFields DEF Responses
  <2> QED
    BY <1>3, <1>7, <2>1, <2>2, OnlySame
<1>17. ASSUME NEW r, Served(c, r, [u \in {c, r.from} |-> Told]), OnlyIn(c, f, g), \A x : DirIn(f, x) => DirIn(g, x)
       PROVE  Locations'
  <2>1. PICK tell : tell = [u \in {c, r.from} |-> Told]
    OBVIOUS
  <2>2. \A u \in Users \cap DOMAIN tell : tell[u] \in Responses /\ tell[u].kind # "entered"
    BY <1>1, <2>1
  <2>3. Served(c, r, tell)
    BY <1>17, <2>1
  <2> QED
    BY <1>6, <1>17, <2>2, <2>3
<1>18. CASE ServeAgree(c)
  <2>1. PICK r : Grows(c, f, g) /\ Served(c, r, [u \in {c, r.from} |-> Told])
    BY <1>3, <1>18, ServeAgreeIs
  <2> QED
    BY <1>10, <1>17, <2>1
<1>19. CASE ServeRefuse(c)
  <2>1. PICK r : g = f /\ Served(c, r, [u \in {c, r.from} |-> Told])
    BY <1>3, <1>19, ServeRefuseIs
  <2> QED
    BY <1>17, <2>1, OnlySame
<1> QED
  BY <1>8, <1>9, <1>11, <1>13, <1>14, <1>15, <1>16, <1>18, <1>19 DEF Serve

LEMMA LocationsStep == Types /\ Views /\ Patience /\ Locations /\ [Next]_vars => Locations'
<1> SUFFICES ASSUME Types, Views, Patience, Locations, [Next]_vars PROVE Locations'
  OBVIOUS
<1>1. CASE Next
  <2>1. PICK c \in Users : User(c) \/ Receive(c) \/ Serve(c)
    BY <1>1 DEF Next
  <2>2. Types'
    BY TypesStep
  <2> QED
    BY <2>1, <2>2, LocationsUser, LocationsReceive, LocationsServe
<1>2. CASE UNCHANGED vars
  BY <1>2 DEF Locations, Defined, vars, panels, history
<1> QED
  BY <1>1, <1>2

LEMMA InitLocations == Init => Locations
<1> SUFFICES ASSUME Init, NEW c \in Users PROVE Located(ans[c], ui[c], fs)
  BY DEF Locations
<1>1. ans[c] = <<>> /\ ui[c].cur = <<c>>
  BY InitIs
<1>2. IsTree(fs)
  BY InitTypes DEF Types, Disk
<1> QED
  BY <1>1, <1>2, RootIs DEF Located, DirIn

-----------------------------------------------------------------------------
(* Nothing missing is used.                                                *)

LEMMA MissingUser ==
  ASSUME Types, Views, Patience, NEW c \in Users, User(c)
  PROVE  Defined /\ (undef' = "missing" => c \in mixed' \cup hasty')
<1>1. ASSUME Local(c), undef' = undef PROVE Defined /\ (undef' = "missing" => c \in mixed' \cup hasty')
  BY <1>1 DEF Local, Defined
<1>2. ASSUME NEW r, Asked(c, r) PROVE Local(c) /\ undef' = undef
  BY <1>2 DEF Asked
<1>3. ASSUME NEW b, NEW r, Closed(c, b, r) PROVE Local(c) /\ undef' = undef
  BY <1>3 DEF Closed
<1>4. CASE ClickItem(c)
  BY <1>1, <1>4, ClickItemIs DEF Picked
<1>5. CASE ClickFlush(c)
  BY <1>1, <1>2, <1>5, ClickFlushIs
<1>6. CASE ClickCreate(c)
  BY <1>1, <1>2, <1>6, ClickCreateIs
<1>7. CASE ClickDelete(c)
  BY <1>1, <1>2, <1>7, ClickDeleteIs
<1>8. CASE ClickRename(c)
  BY <1>1, <1>2, <1>8, ClickRenameIs
<1>9. CASE DoubleClick(c)
  BY <1>1, <1>2, <1>9, DoubleClickIs
<1>10. CASE ClickReturn(c)
  BY <1>1, <1>2, <1>10, ClickReturnIs
<1>11. CASE PickMove(c)
  BY <1>1, <1>11, PickMoveIs DEF Picked
<1>12. CASE ConfirmMove(c)
  BY <1>1, <1>2, <1>12, ConfirmMoveIs
<1>13. CASE PickShare(c)
  <2>1. /\ Local(c) /\ Waits(c) /\ ui[c].fileOn
        /\ ui[c].item # NoName => undef' = undef
    BY <1>13, PickShareIs DEF Picked
  <2>2. CASE ui[c].item # NoName
    BY <1>1, <2>1, <2>2
  <2>3. CASE ui[c].item = NoName
    <3>1. c \in mixed' \cup hasty'
      BY <2>1, <2>3, Sees
    <3> QED
      BY <2>1, <3>1 DEF Local
  <2> QED
    BY <2>2, <2>3
<1>14. CASE ConfirmShare(c)
  BY <1>1, <1>2, <1>14, ConfirmShareIs
<1>15. CASE CloseTold(c)
  BY <1>1, <1>3, <1>15, CloseToldIs
<1>16. CASE AnswerNote(c)
  BY <1>1, <1>3, <1>16, AnswerNoteIs
<1> QED
  BY <1>4, <1>5, <1>6, <1>7, <1>8, <1>9, <1>10, <1>11, <1>12, <1>13, <1>14, <1>15, <1>16 DEF User

LEMMA MissingReceive ==
  ASSUME Types, NEW c \in Users, Receive(c)
  PROVE  Defined /\ undef' # "missing"
<1>1. PICK a : Took(c, a)
  BY TakeChangedIs, TakeListIs, TakeEnteredIs, TakeBoxIs DEF Receive
<1> QED
  BY <1>1 DEF Took, Local, Defined

LEMMA MissingServe ==
  ASSUME Types, Views, Patience, Locations, NEW c \in Users, Serve(c)
  PROVE  Defined /\ (undef' = "missing" => c \in mixed \cup hasty \cup cut)
<1>1. req[c] \in Seq(Requests(c))
  BY ClientParts
<1>2. PICK R, A, p, f : R = req[c] /\ A = ans[c] /\ p = ui[c] /\ f = fs
  OBVIOUS
<1>3. ASSUME NEW r, NEW tell, Served(c, r, tell), c \notin mixed \cup hasty \cup cut
      PROVE  /\ 1 \in DOMAIN R /\ R[1] = r
             /\ AsksOnce(R, A, p) /\ MeansIt(R, p, f) /\ Located(A, p, f)
  <2>1. Defined /\ req[c] # <<>> /\ r = Head(req[c])
    BY <1>3 DEF Served
  <2>2. 1 \in DOMAIN R /\ R[1] = r
    BY <1>1, <1>2, <2>1, Shrunk
  <2> QED
    BY <1>2, <1>3, <2>1, <2>2 DEF Patience, Patient, Locations
<1>4. ASSUME NEW r, NEW tell, Served(c, r, tell) PROVE Defined /\ undef = "no"
  BY <1>4 DEF Served, Defined
<1>5. CASE ServeList(c)
  <2>1. PICK r, tell : /\ r.kind = "list" /\ Served(c, r, tell)
                       /\ DirIn(f, r.path) => undef' = undef
    BY <1>2, <1>5, ServeListIs
  <2>2. ASSUME c \notin mixed \cup hasty \cup cut PROVE DirIn(f, r.path)
    <3>1. r.path = p.cur /\ DirIn(f, p.cur)
      BY <1>3, <2>1, <2>2 DEF AsksOnce, Located
    <3> QED
      BY <3>1
  <2> QED
    BY <1>4, <2>1, <2>2
<1>6. CASE ServeEnter(c)
  <2>1. PICK r, tell : /\ r.kind = "enter" /\ Served(c, r, tell)
                       /\ r.path \in DOMAIN f => undef' = undef
    BY <1>2, <1>6, ServeEnterIs
  <2>2. ASSUME c \notin mixed \cup hasty \cup cut PROVE r.path \in DOMAIN f
    BY <1>3, <2>1, <2>2 DEF MeansIt
  <2> QED
    BY <1>4, <2>1, <2>2
<1>7. ASSUME NEW r, NEW tell, Served(c, r, tell), undef' = undef
      PROVE  Defined /\ (undef' = "missing" => c \in mixed \cup hasty \cup cut)
  BY <1>4, <1>7
<1>8. CASE ServeCreate(c)
  BY <1>7, <1>8, ServeCreateIs
<1>9. CASE ServeDelete(c)
  BY <1>7, <1>9, ServeDeleteIs
<1>10. CASE ServeRename(c)
  BY <1>7, <1>10, ServeRenameIs
<1>11. CASE ServeMove(c)
  BY <1>7, <1>11, ServeMoveIs
<1>12. CASE ServeShare(c)
  BY <1>7, <1>12, ServeShareIs
<1>13. CASE ServeAgree(c)
  BY <1>7, <1>13, ServeAgreeIs
<1>14. CASE ServeRefuse(c)
  BY <1>4, <1>14, ServeRefuseIs
<1> QED
  BY <1>5, <1>6, <1>8, <1>9, <1>10, <1>11, <1>12, <1>13, <1>14 DEF Serve

LEMMA MissingStep ==
  Types /\ Views /\ Patience /\ Locations /\ NothingMissingIsUsed /\ [Next]_vars => NothingMissingIsUsed'
<1> SUFFICES ASSUME Types, Views, Patience, Locations, NothingMissingIsUsed, [Next]_vars
             PROVE  NothingMissingIsUsed'
  OBVIOUS
<1>1. CASE Next
  <2>1. PICK c \in Users : User(c) \/ Receive(c) \/ Serve(c)
    BY <1>1 DEF Next
  <2>2. CASE User(c)
    BY <2>2, MissingUser DEF NothingMissingIsUsed
  <2>3. CASE Receive(c)
    BY <2>3, MissingReceive DEF NothingMissingIsUsed
  <2>4. CASE Serve(c)
    <3>1. undef' = "missing" => c \in mixed \cup hasty \cup cut
      BY <2>4, MissingServe
    <3>2. UNCHANGED <<hasty, mixed, cut>>
      BY <2>4 DEF Serve, ServeList, ServeEnter, ServeCreate, ServeDelete, ServeRename, ServeMove,
                  ServeShare, ServeAgree, ServeRefuse, Answers
    <3> QED
      BY <3>1, <3>2 DEF NothingMissingIsUsed
  <2> QED
    BY <2>1, <2>2, <2>3, <2>4
<1>2. CASE UNCHANGED vars
  BY <1>2 DEF NothingMissingIsUsed, vars, panels, history
<1> QED
  BY <1>1, <1>2

\* Nothing that is not there is listed, entered or picked to share, unless someone
\* clicked before an answer due to him, pressed Return in his root, or was asked
\* for a list while he entered a directory (book.cpp, mytcpsocket.cpp).
THEOREM WhatIsUsedIsThere == Spec => []NothingMissingIsUsed
<1>1. Init => NothingMissingIsUsed
  BY DEF Init, NothingMissingIsUsed
<1> QED
  BY <1>1, InitTypes, InitViews, InitPatience, InitLocations, TypesStep, ViewsStep, PatienceStep,
     LocationsStep, MissingStep, PTL DEF Spec

-----------------------------------------------------------------------------
(* What was picked: offers, and what becomes of them.                      *)

\* An offer of c about the same as m is among the requests R, the answers A and
\* the boxes B of all users.
Among(s, c, m) == \E i \in OffersIn(s, c) : s[i].path = m.path /\ s[i].meant = m.meant
Known(c, R, A, B, m) == \E u \in Users : Among(R[u], c, m) \/ Among(A[u], c, m) \/ Among(B[u], c, m)
OldOffers(c, R, A, B, s) == \A i \in OffersIn(s, c) : Known(c, R, A, B, s[i])
NoNewOffers(c, R, A, B, S, T, C) ==
  \A u \in Users : OldOffers(c, R, A, B, S[u]) /\ OldOffers(c, R, A, B, T[u]) /\ OldOffers(c, R, A, B, C[u])

LEMMA OffersAreOld ==
  ASSUME NEW c, NEW R, NEW A, NEW B, NEW u \in Users
  PROVE  OldOffers(c, R, A, B, R[u]) /\ OldOffers(c, R, A, B, A[u]) /\ OldOffers(c, R, A, B, B[u])
BY DEF OldOffers, Known, Among

LEMMA OldOffersIn ==
  ASSUME NEW c, NEW R, NEW A, NEW B, NEW s, NEW t, OldOffers(c, R, A, B, s),
         \A i \in DOMAIN t : \/ \E j \in DOMAIN s : t[i] = s[j]
                             \/ t[i].kind \notin {"share", "agree", "note"}
                             \/ t[i].from # c
                             \/ Known(c, R, A, B, t[i])
  PROVE  OldOffers(c, R, A, B, t)
<1>1. ASSUME NEW i \in OffersIn(t, c) PROVE Known(c, R, A, B, t[i])
  <2>1. i \in DOMAIN t /\ t[i].kind \in {"share", "agree", "note"} /\ t[i].from = c
    BY DEF OffersIn
  <2>2. CASE Known(c, R, A, B, t[i])
    BY <2>2
  <2>3. CASE ~Known(c, R, A, B, t[i])
    <3>1. PICK j \in DOMAIN s : t[i] = s[j]
      BY <2>1, <2>3
    <3>2. j \in OffersIn(s, c)
      BY <2>1, <3>1 DEF OffersIn
    <3> QED
      BY <3>1, <3>2 DEF OldOffers
  <2> QED
    BY <2>2, <2>3
<1> QED
  BY <1>1 DEF OldOffers

LEMMA NoneOffered ==
  ASSUME NEW c, NEW R, NEW A, NEW B, NEW S, NEW T, NEW C, NoNewOffers(c, R, A, B, S, T, C),
         ~Offering(c, R, A, B)
  PROVE  /\ ~Offering(c, S, T, C)
         /\ \A u \in Users : \A f : OfferHolds(S[u], c, f) /\ OfferHolds(T[u], c, f) /\ OfferHolds(C[u], c, f)
<1>1. \A m : ~Known(c, R, A, B, m)
  BY DEF Known, Among, Offering
<1>2. \A u \in Users : OffersIn(S[u], c) = {} /\ OffersIn(T[u], c) = {} /\ OffersIn(C[u], c) = {}
  BY <1>1 DEF NoNewOffers, OldOffers
<1> QED
  BY <1>2 DEF Offering, OfferHolds

\* On a disk where what c may name and is on f is there still.
Remains(c, f, g) == \A p \in Paths(c) : p \in DOMAIN f => p \in DOMAIN g /\ g[p] = f[p]

\* What c has picked or offered, it may name.
OfferPaths(s, c) == \A i \in OffersIn(s, c) : s[i].path \in Paths(c)
NamesIt(c, R, A, B, p) ==
  /\ p.moving # NoPath => p.moving.path \in Paths(c)
  /\ p.sharing # NoName => Append(p.cur, p.sharing.name) \in Paths(c)
  /\ \A i \in DOMAIN R[c] : R[c][i].kind = "move" => R[c][i].path \in Paths(c)
  /\ \A u \in Users : OfferPaths(R[u], c) /\ OfferPaths(A[u], c) /\ OfferPaths(B[u], c)

LEMMA PicksAreNamed ==
  ASSUME Types, NEW c \in Users
  PROVE  NamesIt(c, req, ans, box, ui[c])
<1>1. /\ ui[c] \in Panels(c) /\ ui[c].cur \in Paths(c)
      /\ ui[c].moving # NoPath => ui[c].moving.path \in Inner(c)
      /\ ui[c].sharing # NoName => ui[c].sharing.name \in Names
  BY ClientParts, PanelFields
<1>2. ui[c].moving # NoPath => ui[c].moving.path \in Paths(c)
  BY <1>1, InnerPath
<1>3. ui[c].sharing # NoName => Append(ui[c].cur, ui[c].sharing.name) \in Paths(c)
  BY <1>1, LongerPath
<1>4. ASSUME NEW i \in DOMAIN req[c], req[c][i].kind = "move" PROVE req[c][i].path \in Paths(c)
  <2>1. req[c] \in Seq(Requests(c))
    BY ClientParts
  <2>2. req[c][i] \in Requests(c)
    BY <2>1
  <2> QED
    BY <1>4, <2>2, RequestFields, InnerPath
<1>5. ASSUME NEW u \in Users
      PROVE  OfferPaths(req[u], c) /\ OfferPaths(ans[u], c) /\ OfferPaths(box[u], c)
  <2>1. req[u] \in Seq(Requests(u)) /\ ans[u] \in Seq(Responses) /\ box[u] \in Seq(Boxes)
    BY ClientParts
  <2>2. ASSUME NEW i \in OffersIn(req[u], c) PROVE req[u][i].path \in Paths(c)
    <3>1. PICK r : r = req[u][i]
      OBVIOUS
    <3>2. r \in Requests(u) /\ r.kind \in {"share", "agree", "note"} /\ r.from = c
      BY <2>1, <3>1 DEF OffersIn
    <3>3. r.path \in Inner(c)
      BY <3>2, RequestFields
    <3> QED
      BY <3>1, <3>3, InnerPath
  <2>3. ASSUME NEW i \in OffersIn(ans[u], c) PROVE ans[u][i].path \in Paths(c)
    <3>1. PICK r : r = ans[u][i]
      OBVIOUS
    <3>2. r \in Responses /\ r.kind \in {"share", "agree", "note"} /\ r.from = c
      BY <2>1, <3>1 DEF OffersIn
    <3>3. r \in Notes
      BY <3>2, AnswerFields
    <3> QED
      BY <3>1, <3>2, <3>3, NoteFields, InnerPath
  <2>4. ASSUME NEW i \in OffersIn(box[u], c) PROVE box[u][i].path \in Paths(c)
    <3>1. PICK r : r = box[u][i]
      OBVIOUS
    <3>2. r \in Boxes /\ r.kind \in {"share", "agree", "note"} /\ r.from = c
      BY <2>1, <3>1 DEF OffersIn
    <3>3. r \in Notes
      BY <3>2, BoxFields
    <3> QED
      BY <3>1, <3>2, <3>3, NoteFields, InnerPath
  <2> QED
    BY <2>2, <2>3, <2>4 DEF OfferPaths
<1> QED
  BY <1>2, <1>3, <1>4, <1>5 DEF NamesIt

LEMMA OffersHold ==
  ASSUME NEW c \in Users, NEW R, NEW A, NEW B, NEW S, NEW T, NEW C, NoNewOffers(c, R, A, B, S, T, C),
         NEW f, NEW g, Remains(c, f, g),
         \A u \in Users : OfferPaths(R[u], c) /\ OfferPaths(A[u], c) /\ OfferPaths(B[u], c),
         \A u \in Users : OfferHolds(R[u], c, f) /\ OfferHolds(A[u], c, f) /\ OfferHolds(B[u], c, f)
  PROVE  \A u \in Users : OfferHolds(S[u], c, g) /\ OfferHolds(T[u], c, g) /\ OfferHolds(C[u], c, g)
<1>1. ASSUME NEW s, NEW m, Among(s, c, m), OfferPaths(s, c), OfferHolds(s, c, f)
      PROVE  Holds(g, m.path, m.meant)
  <2>1. PICK i \in OffersIn(s, c) : s[i].path = m.path /\ s[i].meant = m.meant
    BY <1>1 DEF Among
  <2>2. m.path \in Paths(c) /\ Holds(f, m.path, m.meant)
    BY <1>1, <2>1 DEF OfferPaths, OfferHolds
  <2> QED
    BY <2>2 DEF Remains, Holds
<1>2. ASSUME NEW m, Known(c, R, A, B, m) PROVE Holds(g, m.path, m.meant)
  <2>1. PICK u \in Users : Among(R[u], c, m) \/ Among(A[u], c, m) \/ Among(B[u], c, m)
    BY <1>2 DEF Known
  <2> QED
    BY <1>1, <2>1
<1> QED
  BY <1>2 DEF NoNewOffers, OldOffers, OfferHolds

\* What was picked and offered stays, and nothing to move is asked for.
LEMMA PicksKept ==
  ASSUME NEW c \in Users, NEW R, NEW A, NEW B, NEW S, NEW T, NEW C, NEW p, NEW q, NEW f, NEW g,
         Picks(c, R, A, B, p, f), NamesIt(c, R, A, B, p), NoNewOffers(c, R, A, B, S, T, C), Remains(c, f, g),
         q.moving = p.moving, q.sharing = p.sharing,
         p.sharing # NoName => q.cur = p.cur /\ (EnteringIn(S[c], T[c]) => EnteringIn(R[c], A[c])),
         \A i \in DOMAIN S[c] : S[c][i].kind \in Moving => \E j \in DOMAIN R[c] : S[c][i] = R[c][j]
  PROVE  Picks(c, S, T, C, q, g)
<1>1. q.moving # NoPath => Holds(g, q.moving.path, q.moving.meant)
  BY DEF Picks, NamesIt, Remains, Holds
<1>2. q.sharing # NoName => Holds(g, Append(q.cur, q.sharing.name), q.sharing.meant) /\ ~EnteringIn(S[c], T[c])
  BY DEF Picks, NamesIt, Remains, Holds
<1>3. ASSUME NEW i \in DOMAIN S[c], S[c][i].kind \in Moving
      PROVE  /\ q.moving = NoPath /\ q.sharing = NoName /\ ~Offering(c, S, T, C)
             /\ S[c][i].kind = "move" => Holds(g, S[c][i].path, S[c][i].meant)
  <2>1. PICK j \in DOMAIN R[c] : S[c][i] = R[c][j]
    BY <1>3
  <2>2. /\ p.moving = NoPath /\ p.sharing = NoName /\ ~Offering(c, R, A, B)
        /\ R[c][j].kind = "move" => Holds(f, R[c][j].path, R[c][j].meant) /\ R[c][j].path \in Paths(c)
    BY <1>3, <2>1 DEF Picks, NamesIt
  <2>3. ~Offering(c, S, T, C)
    BY <2>2, NoneOffered
  <2> QED
    BY <2>1, <2>2, <2>3 DEF Remains, Holds
<1>4. \A u \in Users : OfferHolds(S[u], c, g) /\ OfferHolds(T[u], c, g) /\ OfferHolds(C[u], c, g)
  BY OffersHold DEF Picks, NamesIt
<1> QED
  BY <1>1, <1>2, <1>3, <1>4 DEF Picks, Moving

-----------------------------------------------------------------------------
(* No step makes an offer but that of a share.                             *)

LEMMA NotNewLocal ==
  ASSUME NEW d \in Users, NEW e, Local(d),
         OldOffers(e, req, ans, box, req'[d]), OldOffers(e, req, ans, box, ans'[d]),
         OldOffers(e, req, ans, box, box'[d])
  PROVE  NoNewOffers(e, req, ans, box, req', ans', box')
<1>1. PICK R, A, B, S, T, C : R = req /\ A = ans /\ B = box /\ S = req' /\ T = ans' /\ C = box'
  OBVIOUS
<1>2. ASSUME NEW u \in Users
      PROVE  OldOffers(e, R, A, B, S[u]) /\ OldOffers(e, R, A, B, T[u]) /\ OldOffers(e, R, A, B, C[u])
  <2>1. CASE u = d
    BY <1>1, <2>1
  <2>2. CASE u # d
    <3>1. S[u] = R[u] /\ T[u] = A[u] /\ C[u] = B[u]
      BY <1>1, <2>2 DEF Local
    <3> QED
      BY <3>1, OffersAreOld
  <2> QED
    BY <2>1, <2>2
<1>3. NoNewOffers(e, R, A, B, S, T, C)
  BY <1>2 DEF NoNewOffers
<1> QED
  BY <1>1, <1>3

\* A request r of d is appended.
LEMMA NotNewRequest ==
  ASSUME Types, NEW d \in Users, NEW e, NEW r \in Requests(d), req'[d] = Append(req[d], r),
         \/ r.kind \notin {"share", "agree", "note"} \/ r.from # e \/ Known(e, req, ans, box, r)
  PROVE  OldOffers(e, req, ans, box, req'[d])
<1>1. PICK R, A, B, S : R = req /\ A = ans /\ B = box /\ S = req'[d]
  OBVIOUS
<1>2. R[d] \in Seq(Requests(d)) /\ S = Append(R[d], r)
  BY <1>1, ClientParts
<1>3. \A i \in DOMAIN S : (\E j \in DOMAIN R[d] : S[i] = R[d][j]) \/ S[i] = r
  BY <1>2, Grown
<1>4. OldOffers(e, R, A, B, R[d])
  BY OffersAreOld
<1>5. r.kind \notin {"share", "agree", "note"} \/ r.from # e \/ Known(e, R, A, B, r)
  BY <1>1
<1>6. OldOffers(e, R, A, B, S)
  BY <1>3, <1>4, <1>5, OldOffersIn
<1> QED
  BY <1>1, <1>6

LEMMA NotNewSame ==
  ASSUME NEW d \in Users, NEW e
  PROVE  /\ OldOffers(e, req, ans, box, req[d]) /\ OldOffers(e, req, ans, box, ans[d])
         /\ OldOffers(e, req, ans, box, box[d])
<1>1. PICK R, A, B : R = req /\ A = ans /\ B = box
  OBVIOUS
<1> QED
  BY <1>1, OffersAreOld

LEMMA NotNewTail ==
  ASSUME NEW e, NEW X, NEW s \in Seq(X), s # <<>>, NEW t, t = Tail(s), OldOffers(e, req, ans, box, s)
  PROVE  OldOffers(e, req, ans, box, t)
<1>1. \A i \in DOMAIN t : \E j \in DOMAIN s : t[i] = s[j]
  BY Shrunk
<1>2. PICK R, A, B : R = req /\ A = ans /\ B = box
  OBVIOUS
<1>3. OldOffers(e, R, A, B, s)
  BY <1>2
<1>4. OldOffers(e, R, A, B, t)
  BY <1>1, <1>3, OldOffersIn
<1> QED
  BY <1>2, <1>4

LEMMA NotNewPicked ==
  ASSUME NEW d \in Users, NEW e, Picked(d)
  PROVE  NoNewOffers(e, req, ans, box, req', ans', box')
BY NotNewSame, NotNewLocal DEF Picked

LEMMA NotNewAsked ==
  ASSUME Types, NEW d \in Users, NEW e, NEW r, Asked(d, r),
         r.kind \notin {"share", "agree", "note"} \/ r.from # e
  PROVE  NoNewOffers(e, req, ans, box, req', ans', box')
<1>1. Local(d) /\ r \in Requests(d) /\ req'[d] = Append(req[d], r) /\ ans' = ans /\ box' = box
  BY DEF Asked
<1>2. OldOffers(e, req, ans, box, req'[d])
  BY <1>1, NotNewRequest
<1> QED
  BY <1>1, <1>2, NotNewSame, NotNewLocal

LEMMA NotNewClosed ==
  ASSUME Types, NEW d \in Users, NEW e, NEW b, NEW r, Closed(d, b, r),
         \/ r.kind \notin {"share", "agree", "note"}
         \/ b.kind = "note" /\ r.from = b.from /\ r.path = b.path /\ r.meant = b.meant
  PROVE  NoNewOffers(e, req, ans, box, req', ans', box')
<1>1. /\ Local(d) /\ r \in Requests(d) /\ req'[d] = Append(req[d], r) /\ ans' = ans
      /\ box[d] # <<>> /\ b = Head(box[d]) /\ box'[d] = Tail(box[d]) /\ box[d] \in Seq(Boxes)
  BY ClientParts DEF Closed
<1>2. \/ r.kind \notin {"share", "agree", "note"} \/ r.from # e \/ Known(e, req, ans, box, r)
  <2>1. PICK s : s = box[d]
    OBVIOUS
  <2>2. 1 \in DOMAIN s /\ s[1] = b
    BY <1>1, <2>1, Shrunk
  <2>3. ASSUME b.kind = "note", r.from = b.from, r.path = b.path, r.meant = b.meant, r.from = e
        PROVE  Known(e, req, ans, box, r)
    <3>1. 1 \in OffersIn(s, e)
      BY <2>2, <2>3 DEF OffersIn
    <3>2. Among(s, e, r)
      BY <2>2, <2>3, <3>1 DEF Among
    <3> QED
      BY <2>1, <3>2 DEF Known
  <2> QED
    BY <2>3
<1>3. OldOffers(e, req, ans, box, req'[d])
  BY <1>1, <1>2, NotNewRequest
<1>4. OldOffers(e, req, ans, box, box'[d])
  <2>1. OldOffers(e, req, ans, box, box[d])
    BY NotNewSame
  <2> QED
    BY <1>1, <2>1, NotNewTail
<1> QED
  BY <1>1, <1>3, <1>4, NotNewSame, NotNewLocal

\* The answer a is taken; the list may be asked for, or a box be opened.
LEMMA NotNewTook ==
  ASSUME Types, NEW d \in Users, NEW e, NEW a, Took(d, a),
         req' = req \/ req'[d] = Append(req[d], ListRequest(ui[d].cur)),
         box' = box \/ box'[d] = <<a>> \o box[d], a \in Boxes \/ box' = box
  PROVE  NoNewOffers(e, req, ans, box, req', ans', box')
<1>1. /\ Local(d) /\ ans[d] \in Seq(Responses) /\ ans[d] # <<>> /\ a = Head(ans[d]) /\ ans'[d] = Tail(ans[d])
      /\ box[d] \in Seq(Boxes) /\ ui[d].cur \in Paths(d)
  BY ClientParts, PanelFields DEF Took
<1>2. OldOffers(e, req, ans, box, req'[d])
  <2>1. CASE req' = req
    BY <2>1, NotNewSame
  <2>2. CASE req'[d] = Append(req[d], ListRequest(ui[d].cur))
    <3>1. PICK r : r = ListRequest(ui[d].cur)
      OBVIOUS
    <3>2. r.kind = "list" /\ r \in Requests(d)
      BY <1>1, <3>1 DEF ListRequest, Requests
    <3> QED
      BY <2>2, <3>1, <3>2, NotNewRequest
  <2> QED
    BY <2>1, <2>2
<1>3. OldOffers(e, req, ans, box, ans'[d])
  <2>1. OldOffers(e, req, ans, box, ans[d])
    BY NotNewSame
  <2> QED
    BY <1>1, <2>1, NotNewTail
<1>4. OldOffers(e, req, ans, box, box'[d])
  <2>1. CASE box' = box
    BY <2>1, NotNewSame
  <2>2. CASE box' # box
    <3>1. PICK R, A, B, C : R = req /\ A = ans /\ B = box /\ C = box'[d]
      OBVIOUS
    <3>2. B[d] \in Seq(Boxes) /\ a \in Boxes /\ C = <<a>> \o B[d]
      BY <1>1, <2>2, <3>1
    <3>3. \A i \in DOMAIN C : i = 1 \/ (i - 1 \in DOMAIN B[d] /\ C[i] = B[d][i - 1])
      BY <3>2, Pushed
    <3>4. C[1] = a
      BY <3>2, Pushed
    <3>5. a.kind \notin {"share", "agree", "note"} \/ a.from # e \/ Known(e, R, A, B, a)
      <4>1. PICK s : s = A[d]
        OBVIOUS
      <4>2. 1 \in DOMAIN s /\ s[1] = a
        BY <1>1, <3>1, <4>1, Shrunk
      <4>3. ASSUME a.kind \in {"share", "agree", "note"}, a.from = e
            PROVE  Known(e, R, A, B, a)
        <5>1. 1 \in OffersIn(s, e)
          BY <4>2, <4>3 DEF OffersIn
        <5>2. Among(s, e, a)
          BY <4>2, <5>1 DEF Among
        <5> QED
          BY <4>1, <5>2 DEF Known
      <4> QED
        BY <4>3
    <3>6. OldOffers(e, R, A, B, B[d])
      BY OffersAreOld
    <3>7. OldOffers(e, R, A, B, C)
      <4>1. ASSUME NEW i \in DOMAIN C PROVE C[i] = a \/ \E j \in DOMAIN B[d] : C[i] = B[d][j]
        BY <3>3, <3>4
      <4> QED
        BY <3>5, <3>6, <4>1, OldOffersIn
    <3> QED
      BY <3>1, <3>7
  <2> QED
    BY <2>1, <2>2
<1> QED
  BY <1>1, <1>2, <1>3, <1>4, NotNewLocal

LEMMA NotNewServed ==
  ASSUME Types, NEW d \in Users, NEW e, NEW r, NEW tell, Served(d, r, tell),
         \A u \in Users \cap DOMAIN tell :
           /\ tell[u] \in Responses
           /\ \/ tell[u].kind \notin {"share", "agree", "note"}
              \/ r.kind = "share" /\ tell[u].from = r.from /\ tell[u].path = r.path /\ tell[u].meant = r.meant
  PROVE  NoNewOffers(e, req, ans, box, req', ans', box')
<1>1. PICK R, A, B, S, T, C : R = req /\ A = ans /\ B = box /\ S = req' /\ T = ans' /\ C = box'
  OBVIOUS
<1>2. R[d] # <<>> /\ r = Head(R[d]) /\ S[d] = Tail(R[d]) /\ C = B
  BY <1>1 DEF Served
<1>3. ASSUME NEW m, r.kind = "share", m.from = r.from, m.path = r.path, m.meant = r.meant, m.from = e
      PROVE  Known(e, R, A, B, m)
  <2>1. PICK s : s = R[d]
    OBVIOUS
  <2>2. s \in Seq(Requests(d))
    BY <1>1, <2>1, ClientParts
  <2>3. 1 \in DOMAIN s /\ s[1] = r
    BY <1>2, <2>1, <2>2, Shrunk
  <2>4. 1 \in OffersIn(s, e)
    BY <1>3, <2>3 DEF OffersIn
  <2>5. Among(s, e, m)
    BY <1>3, <2>3, <2>4 DEF Among
  <2> QED
    BY <2>1, <2>5 DEF Known
<1>4. ASSUME NEW u \in Users
      PROVE  OldOffers(e, R, A, B, S[u]) /\ OldOffers(e, R, A, B, T[u]) /\ OldOffers(e, R, A, B, C[u])
  <2>1. /\ R[u] \in Seq(Requests(u)) /\ A[u] \in Seq(Responses)
        /\ OldOffers(e, R, A, B, R[u]) /\ OldOffers(e, R, A, B, A[u]) /\ OldOffers(e, R, A, B, B[u])
    BY <1>1, ClientParts, OffersAreOld
  <2>2. OldOffers(e, R, A, B, S[u])
    <3>1. CASE u = d
      BY <1>1, <1>2, <2>1, <3>1, NotNewTail
    <3>2. CASE u # d
      BY <1>1, <2>1, <3>2 DEF Served
    <3> QED
      BY <3>1, <3>2
  <2>3. OldOffers(e, R, A, B, T[u])
    <3>1. CASE u \in DOMAIN tell
      <4>1. PICK m : m = tell[u]
        OBVIOUS
      <4>2. /\ T[u] = Append(A[u], m) /\ m \in Responses
            /\ \/ m.kind \notin {"share", "agree", "note"}
               \/ r.kind = "share" /\ m.from = r.from /\ m.path = r.path /\ m.meant = r.meant
        BY <1>1, <3>1, <4>1 DEF Served
      <4>3. m.kind \notin {"share", "agree", "note"} \/ m.from # e \/ Known(e, R, A, B, m)
        BY <1>3, <4>2
      <4>4. PICK s, t : s = A[u] /\ t = T[u]
        OBVIOUS
      <4>5. \A i \in DOMAIN t : (\E j \in DOMAIN s : t[i] = s[j]) \/ t[i] = m
        BY <2>1, <4>2, <4>4, Grown
      <4>6. OldOffers(e, R, A, B, s)
        BY <2>1, <4>4
      <4>7. OldOffers(e, R, A, B, t)
        BY <4>3, <4>5, <4>6, OldOffersIn
      <4> QED
        BY <4>4, <4>7
    <3>2. CASE u \notin DOMAIN tell
      <4>1. T[u] = A[u]
        BY <1>1, <3>2 DEF Served
      <4> QED
        BY <2>1, <4>1
    <3> QED
      BY <3>1, <3>2
  <2> QED
    BY <1>2, <2>1, <2>2, <2>3
<1>5. NoNewOffers(e, R, A, B, S, T, C)
  BY <1>4 DEF NoNewOffers
<1> QED
  BY <1>1, <1>5

-----------------------------------------------------------------------------
(* What was picked: the steps of users.                                    *)

LEMMA PicksLocal ==
  ASSUME Types, PicksHold, NEW d \in Users, Local(d),
         \A e \in Users \ {d} : NoNewOffers(e, req, ans, box, req', ans', box'),
         d \notin mixed' \cup hasty' \cup stale' => Picks(d, req', ans', box', ui'[d], fs')
  PROVE  PicksHold'
<1>1. ASSUME NEW e \in Users \ (mixed' \cup hasty' \cup stale') PROVE Picks(e, req', ans', box', ui'[e], fs')
  <2>1. CASE e = d
    BY <1>1, <2>1
  <2>2. CASE e # d
    <3>1. /\ req'[e] = req[e] /\ ans'[e] = ans[e] /\ ui'[e] = ui[e] /\ fs' = fs
          /\ e \notin mixed \cup hasty \cup stale /\ Defined
      BY <1>1, <2>2 DEF Local, Marks
    <3>2. PICK R, A, B, S, T, C, p, f :
            /\ R = req /\ A = ans /\ B = box /\ S = req' /\ T = ans' /\ C = box' /\ p = ui[e] /\ f = fs
      OBVIOUS
    <3>3. Picks(e, R, A, B, p, f) /\ NamesIt(e, R, A, B, p) /\ NoNewOffers(e, R, A, B, S, T, C)
      BY <2>2, <3>1, <3>2, PicksAreNamed DEF PicksHold
    <3>4. S[e] = R[e] /\ T[e] = A[e] /\ Remains(e, f, f)
      BY <3>1, <3>2 DEF Remains
    <3>5. Picks(e, S, T, C, p, f)
      BY <3>3, <3>4, PicksKept
    <3> QED
      BY <3>1, <3>2, <3>5
  <2> QED
    BY <2>1, <2>2
<1> QED
  BY <1>1 DEF PicksHold

\* The panel's picks stay, and nothing is asked for by clicking on them.
LEMMA PicksMore ==
  ASSUME Types, PicksHold, NEW d \in Users, Local(d),
         \A e \in Users : NoNewOffers(e, req, ans, box, req', ans', box'),
         ui'[d].moving = ui[d].moving, ui'[d].sharing = ui[d].sharing,
         d \notin mixed' \cup hasty' \cup stale' /\ ui[d].sharing # NoName =>
           ui'[d].cur = ui[d].cur /\ (EnteringIn(req'[d], ans'[d]) => EnteringIn(req[d], ans[d])),
         \A i \in DOMAIN req'[d] : req'[d][i].kind \in Moving => \E j \in DOMAIN req[d] : req'[d][i] = req[d][j]
  PROVE  PicksHold'
<1>1. SUFFICES ASSUME d \notin mixed' \cup hasty' \cup stale' PROVE Picks(d, req', ans', box', ui'[d], fs')
  BY PicksLocal
<1>2. PICK R, A, B, S, T, C, p, q, f :
        /\ R = req /\ A = ans /\ B = box /\ S = req' /\ T = ans' /\ C = box'
        /\ p = ui[d] /\ q = ui'[d] /\ f = fs
  OBVIOUS
<1>3. Defined /\ d \notin mixed \cup hasty \cup stale /\ fs' = f
  BY <1>1, <1>2 DEF Local, Marks
<1>4. Picks(d, R, A, B, p, f) /\ NamesIt(d, R, A, B, p) /\ NoNewOffers(d, R, A, B, S, T, C)
  BY <1>2, <1>3, PicksAreNamed DEF PicksHold
<1>5. Remains(d, f, f)
  BY DEF Remains
<1>6. /\ q.moving = p.moving /\ q.sharing = p.sharing
      /\ p.sharing # NoName => q.cur = p.cur /\ (EnteringIn(S[d], T[d]) => EnteringIn(R[d], A[d]))
      /\ \A i \in DOMAIN S[d] : S[d][i].kind \in Moving => \E j \in DOMAIN R[d] : S[d][i] = R[d][j]
  BY <1>1, <1>2
<1>7. Picks(d, S, T, C, q, f)
  BY <1>4, <1>5, <1>6, PicksKept
<1> QED
  BY <1>2, <1>3, <1>7

\* The request r is appended, which is not by clicking on what was picked.
LEMMA PicksAlso ==
  ASSUME Types, PicksHold, NEW d \in Users, Local(d),
         \A e \in Users : NoNewOffers(e, req, ans, box, req', ans', box'),
         NEW r \in Requests(d), req'[d] = Append(req[d], r), r.kind \notin Moving,
         EnteringIn(req[d], ans'[d]) => EnteringIn(req[d], ans[d]),
         ui'[d].moving = ui[d].moving, ui'[d].sharing = ui[d].sharing,
         d \notin mixed' \cup hasty' \cup stale' /\ ui[d].sharing # NoName =>
           ui'[d].cur = ui[d].cur /\ r.kind # "enter"
  PROVE  PicksHold'
<1>1. PICK R, S : R = req[d] /\ S = req'[d]
  OBVIOUS
<1>2. R \in Seq(Requests(d)) /\ S = Append(R, r)
  BY <1>1, ClientParts
<1>3. \A i \in DOMAIN S : (\E j \in DOMAIN R : S[i] = R[j]) \/ S[i] = r
  BY <1>2, Grown
<1>4. \A i \in DOMAIN S : S[i].kind \in Moving => \E j \in DOMAIN R : S[i] = R[j]
  BY <1>3
<1>5. r.kind # "enter" => (EnteringIn(S, ans'[d]) => EnteringIn(R, ans'[d]))
  BY <1>3 DEF EnteringIn
<1> QED
  BY <1>1, <1>4, <1>5, PicksMore

\* Who clicks and is patient has nothing under way; what he picks to move or to
\* share is there.
LEMMA PicksClicked ==
  ASSUME Types, Views, Patience, PicksHold, NEW d \in Users, Picked(d), ui'[d].cur = ui[d].cur,
         \A x \in {ui'[d].moving} : x # NoPath /\ x # ui[d].moving
           /\ d \notin mixed' \cup hasty' => Holds(fs, x.path, x.meant),
         \A x \in {ui'[d].sharing} : x # NoName /\ x # ui[d].sharing
           /\ d \notin mixed' \cup hasty' => Holds(fs, Append(ui[d].cur, x.name), x.meant)
  PROVE  PicksHold'
<1>1. Local(d) /\ Waits(d) /\ req' = req /\ ans' = ans /\ box' = box
  BY DEF Picked
<1>2. SUFFICES ASSUME d \notin mixed' \cup hasty' \cup stale' PROVE Picks(d, req', ans', box', ui'[d], fs')
  BY <1>1, NotNewPicked, PicksLocal
<1>3. PICK R, A, B, p, q, f : R = req /\ A = ans /\ B = box /\ p = ui[d] /\ q = ui'[d] /\ f = fs
  OBVIOUS
<1>4. fs' = fs /\ R[d] = <<>> /\ A[d] = <<>>
  BY <1>1, <1>2, <1>3, Sees
<1>5. Defined /\ d \notin mixed \cup hasty \cup stale
  BY <1>1, <1>2 DEF Local, Marks
<1>6. Picks(d, R, A, B, p, f)
  BY <1>3, <1>5 DEF PicksHold
<1>7. q.moving # NoPath => Holds(f, q.moving.path, q.moving.meant)
  BY <1>2, <1>3, <1>6 DEF Picks
<1>8. q.sharing # NoName => Holds(f, Append(q.cur, q.sharing.name), q.sharing.meant)
  BY <1>2, <1>3, <1>6 DEF Picks
<1>9. ~EnteringIn(R[d], A[d]) /\ DOMAIN R[d] = {}
  BY <1>4 DEF EnteringIn
<1>10. Picks(d, R, A, B, q, f)
  BY <1>6, <1>7, <1>8, <1>9 DEF Picks
<1> QED
  BY <1>1, <1>3, <1>4, <1>10

LEMMA OfferedIs ==
  ASSUME Types, NEW c \in Users, ~Offered(c)
  PROVE  ui[c].sharing = NoName /\ ~Offering(c, req, ans, box)
<1>1. ASSUME NEW u \in Users PROVE OffersIn(req[u], c) = {} /\ OffersIn(ans[u], c) = {} /\ OffersIn(box[u], c) = {}
  <2>1. req[u] \in Seq(Requests(u)) /\ ans[u] \in Seq(Responses) /\ box[u] \in Seq(Boxes)
    BY ClientParts
  <2>2. \A i \in DOMAIN req[u] : req[u][i].kind # "note"
    <3>1. ASSUME NEW i \in DOMAIN req[u] PROVE req[u][i].kind # "note"
      <4>1. PICK r : r = req[u][i]
        OBVIOUS
      <4>2. r \in Requests(u)
        BY <2>1, <4>1
      <4> QED
        BY <4>1, <4>2, RequestFields
    <3> QED
      BY <3>1
  <2>3. \A i \in DOMAIN ans[u] : ans[u][i].kind \notin {"share", "agree"}
    <3>1. ASSUME NEW i \in DOMAIN ans[u] PROVE ans[u][i].kind \notin {"share", "agree"}
      <4>1. PICK r : r = ans[u][i]
        OBVIOUS
      <4>2. r \in Responses
        BY <2>1, <4>1
      <4> QED
        BY <4>1, <4>2, AnswerFields
    <3> QED
      BY <3>1
  <2>4. \A i \in DOMAIN box[u] : box[u][i].kind \notin {"share", "agree"}
    <3>1. ASSUME NEW i \in DOMAIN box[u] PROVE box[u][i].kind \notin {"share", "agree"}
      <4>1. PICK r : r = box[u][i]
        OBVIOUS
      <4>2. r \in Boxes
        BY <2>1, <4>1
      <4> QED
        BY <4>1, <4>2, BoxFields
    <3> QED
      BY <3>1
  <2> QED
    BY <2>2, <2>3, <2>4 DEF Offered, OffersIn
<1> QED
  BY <1>1 DEF Offered, Offering

\* A request about what was picked, or shown, is all there is of his.
LEMMA PicksUsed ==
  ASSUME Types, Views, Patience, PicksHold, NEW d \in Users, NEW r, Asked(d, r), r.kind \in Moving,
         ui'[d].sharing = ui[d].sharing, d \notin stale' => ~Offered(d) /\ ui'[d].moving = NoPath,
         r.kind = "move" => ui[d].moving # NoPath /\ r.path = ui[d].moving.path /\ r.meant = ui[d].moving.meant
  PROVE  PicksHold'
<1>1. Local(d) /\ Waits(d) /\ r \in Requests(d) /\ req'[d] = Append(req[d], r) /\ ans' = ans /\ box' = box
  BY DEF Asked
<1>2. \A e \in Users : NoNewOffers(e, req, ans, box, req', ans', box')
  <2>1. r.kind \notin {"share", "agree", "note"}
    BY DEF Moving
  <2> QED
    BY <2>1, NotNewAsked
<1>3. SUFFICES ASSUME d \notin mixed' \cup hasty' \cup stale' PROVE Picks(d, req', ans', box', ui'[d], fs')
  BY <1>1, <1>2, PicksLocal
<1>4. PICK R, A, B, S, T, C, p, q, f :
        /\ R = req /\ A = ans /\ B = box /\ S = req' /\ T = ans' /\ C = box'
        /\ p = ui[d] /\ q = ui'[d] /\ f = fs
  OBVIOUS
<1>5. /\ fs' = f /\ S[d] = Append(<<>>, r) /\ Defined /\ d \notin mixed \cup hasty \cup stale
  BY <1>1, <1>3, <1>4, Sees DEF Local, Marks
<1>6. Picks(d, R, A, B, p, f) /\ NoNewOffers(d, R, A, B, S, T, C)
  BY <1>2, <1>4, <1>5 DEF PicksHold
<1>7. q.moving = NoPath /\ q.sharing = NoName /\ ~Offering(d, R, A, B)
  BY <1>3, <1>4, OfferedIs
<1>8. /\ ~Offering(d, S, T, C)
      /\ \A u \in Users : OfferHolds(S[u], d, f) /\ OfferHolds(T[u], d, f) /\ OfferHolds(C[u], d, f)
  BY <1>6, <1>7, NoneOffered
<1>9. \A i \in DOMAIN S[d] : S[d][i] = r
  <2>1. PICK s : s = S[d]
    OBVIOUS
  <2>2. s = Append(<<>>, r) /\ r \in Requests(d)
    BY <1>1, <1>5, <2>1
  <2> QED
    BY <2>1, <2>2, OnlyOne
<1>10. r.kind = "move" => Holds(f, r.path, r.meant)
  BY <1>4, <1>6 DEF Picks
<1>11. Picks(d, S, T, C, q, f)
  BY <1>7, <1>8, <1>9, <1>10 DEF Picks
<1> QED
  BY <1>4, <1>5, <1>11

\* What was picked is offered.
LEMMA PicksShared ==
  ASSUME Types, Types', Views, Patience, PicksHold, NEW d \in Users, NEW r, Asked(d, r),
         r.kind = "share", r.from = d, ui[d].sharing # NoName,
         r.path = Append(ui[d].cur, ui[d].sharing.name), r.meant = ui[d].sharing.meant,
         ui'[d].sharing = NoName, ui'[d].moving = ui[d].moving
  PROVE  PicksHold'
<1>1. Local(d) /\ Waits(d) /\ r \in Requests(d) /\ req'[d] = Append(req[d], r) /\ ans' = ans /\ box' = box
  BY DEF Asked
<1>2. \A e \in Users \ {d} : NoNewOffers(e, req, ans, box, req', ans', box')
  BY NotNewAsked
<1>3. SUFFICES ASSUME d \notin mixed' \cup hasty' \cup stale' PROVE Picks(d, req', ans', box', ui'[d], fs')
  BY <1>1, <1>2, PicksLocal
<1>4. PICK R, A, B, S, p, q, f :
        R = req /\ A = ans /\ B = box /\ S = req' /\ p = ui[d] /\ q = ui'[d] /\ f = fs
  OBVIOUS
<1>5. /\ fs' = f /\ S[d] = Append(<<>>, r) /\ R[d] = <<>> /\ Defined /\ d \notin mixed \cup hasty \cup stale
  BY <1>1, <1>3, <1>4, Sees DEF Local, Marks
<1>6. Picks(d, R, A, B, p, f)
  BY <1>4, <1>5 DEF PicksHold
<1>7. \A i \in DOMAIN S[d] : S[d][i] = r
  <2>1. PICK s : s = S[d]
    OBVIOUS
  <2>2. s = Append(<<>>, r) /\ r \in Requests(d)
    BY <1>1, <1>5, <2>1
  <2> QED
    BY <2>1, <2>2, OnlyOne
<1>8. Holds(f, r.path, r.meant)
  BY <1>4, <1>6 DEF Picks
<1>9. ASSUME NEW u \in Users PROVE OfferHolds(S[u], d, f)
  <2>1. CASE u = d
    BY <1>7, <1>8, <2>1 DEF OfferHolds, OffersIn
  <2>2. CASE u # d
    <3>1. S[u] = R[u]
      BY <1>1, <1>4, <2>2 DEF Local
    <3> QED
      BY <1>6, <3>1 DEF Picks
  <2> QED
    BY <2>1, <2>2
<1>10. \A i \in DOMAIN S[d] : S[d][i].kind \notin Moving
  BY <1>7 DEF Moving
<1>11. q.moving # NoPath => Holds(f, q.moving.path, q.moving.meant)
  BY <1>4, <1>6 DEF Picks
<1>12. Picks(d, S, A, B, q, f)
  BY <1>4, <1>6, <1>9, <1>10, <1>11 DEF Picks, Moving
<1> QED
  BY <1>1, <1>4, <1>5, <1>12

LEMMA PicksUser ==
  ASSUME Types, Types', Views, Patience, PicksHold, NEW c \in Users, User(c)
  PROVE  PicksHold'
<1>1. ui[c] \in Panels(c)
  BY ClientParts
<1>2. Off(ui[c]).cur = ui[c].cur /\ Off(ui[c]).moving = ui[c].moving /\ Off(ui[c]).sharing = ui[c].sharing
  BY <1>1 DEF Off, Panels
\* Not about what was picked.
<1>3. ASSUME NEW r, Asked(c, r), r.kind \in {"list", "enter", "create"},
             ui'[c].moving = ui[c].moving, ui'[c].sharing = ui[c].sharing,
             c \notin stale' /\ ui[c].sharing # NoName => ui'[c].cur = ui[c].cur /\ r.kind # "enter"
      PROVE  PicksHold'
  <2>1. Local(c) /\ r \in Requests(c) /\ req'[c] = Append(req[c], r) /\ ans' = ans
    BY <1>3 DEF Asked
  <2>2. \A e \in Users : NoNewOffers(e, req, ans, box, req', ans', box')
    BY <1>3, NotNewAsked
  <2>3. r.kind \notin Moving
    BY <1>3 DEF Moving
  <2> QED
    BY <1>3, <2>1, <2>2, <2>3, PicksAlso
<1>4. CASE ClickItem(c)
  <2>1. /\ Picked(c) /\ ui'[c].cur = ui[c].cur
        /\ ui'[c].moving = ui[c].moving /\ ui'[c].sharing = ui[c].sharing
    BY <1>4, ClickItemIs DEF SamePlace
  <2> QED
    BY <2>1, PicksClicked
<1>5. CASE ClickFlush(c)
  <2>1. PICK r : Asked(c, r) /\ r = ListRequest(ui[c].cur) /\ ui'[c] = Off(ui[c])
    BY <1>5, ClickFlushIs
  <2> QED
    BY <1>2, <1>3, <2>1 DEF ListRequest
<1>6. CASE ClickCreate(c)
  <2>1. PICK r : Asked(c, r) /\ ui'[c] = ui[c] /\ r.kind = "create"
    BY <1>6, ClickCreateIs
  <2> QED
    BY <1>3, <2>1
<1>7. CASE ClickDelete(c)
  <2>1. PICK r : /\ Asked(c, r) /\ ui'[c] = ui[c] /\ r = DeleteRequest(ui[c])
                 /\ Offered(c) \/ ui[c].moving # NoPath => c \in stale'
    BY <1>7, ClickDeleteIs
  <2>2. r.kind = "delete"
    BY <2>1 DEF DeleteRequest
  <2> QED
    BY <2>1, <2>2, PicksUsed DEF Moving
<1>8. CASE ClickRename(c)
  <2>1. PICK r, n : /\ Asked(c, r) /\ ui'[c] = ui[c] /\ r = RenameRequest(ui[c], n)
                    /\ Offered(c) \/ ui[c].moving # NoPath => c \in stale'
    BY <1>8, ClickRenameIs
  <2>2. r.kind = "rename"
    BY <2>1 DEF RenameRequest
  <2> QED
    BY <2>1, <2>2, PicksUsed DEF Moving
<1>9. CASE DoubleClick(c)
  <2>1. PICK n \in DOMAIN ui[c].shown :
          /\ Asked(c, EnterRequest(ui[c], n))
          /\ ui'[c].moving = ui[c].moving /\ ui'[c].sharing = ui[c].sharing /\ (Offered(c) => c \in stale')
    BY <1>9, DoubleClickIs
  <2>2. PICK r : r = EnterRequest(ui[c], n)
    OBVIOUS
  <2>3. r.kind = "enter" /\ Asked(c, r)
    BY <2>1, <2>2 DEF EnterRequest
  <2>4. c \notin stale' => ui[c].sharing = NoName
    BY <2>1, OfferedIs
  <2> QED
    BY <1>3, <2>1, <2>3, <2>4
<1>10. CASE ClickReturn(c)
  <2>1. PICK r : /\ Asked(c, r) /\ r = ListRequest(Parent(ui[c].cur))
                 /\ ui'[c].moving = ui[c].moving /\ ui'[c].sharing = ui[c].sharing /\ (Offered(c) => c \in stale')
    BY <1>10, ClickReturnIs
  <2>2. r.kind = "list"
    BY <2>1 DEF ListRequest
  <2>3. c \notin stale' => ui[c].sharing = NoName
    BY <2>1, OfferedIs
  <2> QED
    BY <1>3, <2>1, <2>2, <2>3
<1>11. CASE PickMove(c)
  <2>1. /\ Picked(c) /\ ui'[c].cur = ui[c].cur /\ ui[c].item # NoName /\ ui'[c].sharing = ui[c].sharing
        /\ ui'[c].moving.path = Append(ui[c].cur, ui[c].item)
        /\ ui'[c].moving.meant = ui[c].shown[ui[c].item]
    BY <1>11, PickMoveIs DEF SamePlace
  <2>2. ASSUME c \notin mixed' \cup hasty'
        PROVE  Holds(fs, ui'[c].moving.path, ui'[c].moving.meant)
    <3>1. ui[c].item \in DOMAIN ui[c].shown
      BY <2>1, ItemIs
    <3>2. Local(c) /\ Waits(c)
      BY <2>1 DEF Picked
    <3> QED
      BY <2>1, <2>2, <3>1, <3>2, Sees DEF Holds
  <2> QED
    BY <2>1, <2>2, PicksClicked
<1>12. CASE ConfirmMove(c)
  <2>1. PICK r : /\ Asked(c, r) /\ r = MoveRequest(ui[c]) /\ ui[c].moving # NoPath
                 /\ ui'[c].moving = NoPath /\ ui'[c].sharing = ui[c].sharing /\ (Offered(c) => c \in stale')
    BY <1>12, ConfirmMoveIs
  <2>2. r.kind = "move" /\ r.path = ui[c].moving.path /\ r.meant = ui[c].moving.meant
    BY <2>1 DEF MoveRequest
  <2> QED
    BY <2>1, <2>2, PicksUsed DEF Moving
<1>13. CASE PickShare(c)
  <2>1. /\ Picked(c) /\ ui'[c].cur = ui[c].cur /\ ui'[c].moving = ui[c].moving
        /\ IF ui[c].item = NoName THEN undef' = "missing"
           ELSE /\ ui'[c].sharing.name = ui[c].item
                /\ ui'[c].sharing.meant = ui[c].shown[ui[c].item]
    BY <1>13, PickShareIs DEF SamePlace
  <2>2. CASE ui[c].item = NoName
    BY <2>1, <2>2 DEF PicksHold, Defined
  <2>3. CASE ui[c].item # NoName
    <3>1. ASSUME c \notin mixed' \cup hasty'
          PROVE  Holds(fs, Append(ui[c].cur, ui'[c].sharing.name), ui'[c].sharing.meant)
      <4>1. ui[c].item \in DOMAIN ui[c].shown
        BY <2>3, ItemIs
      <4>2. Local(c) /\ Waits(c)
        BY <2>1 DEF Picked
      <4>3. PICK n : n = ui[c].item
        OBVIOUS
      <4>4. Append(ui[c].cur, n) \in DOMAIN fs /\ fs[Append(ui[c].cur, n)] = ui[c].shown[n]
        BY <3>1, <4>1, <4>2, <4>3, Sees
      <4> QED
        BY <2>1, <2>3, <4>3, <4>4 DEF Holds
    <3> QED
      BY <2>1, <3>1, PicksClicked
  <2> QED
    BY <2>2, <2>3
<1>14. CASE ConfirmShare(c)
  <2>1. PICK r, friend : /\ Asked(c, r) /\ r = ShareRequest(c, friend, ui[c]) /\ ui[c].sharing # NoName
                         /\ ui'[c].sharing = NoName /\ ui'[c].moving = ui[c].moving
    BY <1>14, ConfirmShareIs
  <2>2. /\ r.kind = "share" /\ r.from = c /\ r.path = Append(ui[c].cur, ui[c].sharing.name)
        /\ r.meant = ui[c].sharing.meant
    BY <2>1 DEF ShareRequest
  <2> QED
    BY <2>1, <2>2, PicksShared
<1>15. ASSUME NEW b, NEW r, Closed(c, b, r), ui'[c].cur = ui[c].cur,
              ui'[c].moving = ui[c].moving, ui'[c].sharing = ui[c].sharing,
              r.kind \notin Moving, r.kind # "enter",
              \/ r.kind \notin {"share", "agree", "note"}
              \/ b.kind = "note" /\ r.from = b.from /\ r.path = b.path /\ r.meant = b.meant
       PROVE  PicksHold'
  <2>1. Local(c) /\ r \in Requests(c) /\ req'[c] = Append(req[c], r) /\ ans' = ans
    BY <1>15 DEF Closed
  <2>2. \A e \in Users : NoNewOffers(e, req, ans, box, req', ans', box')
    BY <1>15, NotNewClosed
  <2> QED
    BY <1>15, <2>1, <2>2, PicksAlso
<1>16. CASE CloseTold(c)
  <2>1. PICK b, r : Closed(c, b, r) /\ r = ListRequest(ui[c].cur) /\ ui'[c] = Off(ui[c])
    BY <1>16, CloseToldIs
  <2>2. r.kind = "list"
    BY <2>1 DEF ListRequest
  <2> QED
    BY <1>2, <1>15, <2>1, <2>2 DEF Moving
<1>17. CASE AnswerNote(c)
  <2>1. PICK b, r : /\ Closed(c, b, r) /\ ui' = ui /\ b.kind = "note" /\ r.kind \in {"agree", "refuse"}
                    /\ r.from = b.from /\ r.path = b.path /\ r.meant = b.meant
    BY <1>17, AnswerNoteIs
  <2> QED
    BY <1>15, <2>1 DEF Moving
<1> QED
  BY <1>4, <1>5, <1>6, <1>7, <1>8, <1>9, <1>10, <1>11, <1>12, <1>13, <1>14, <1>16, <1>17 DEF User

-----------------------------------------------------------------------------
(* What was picked: answers, and requests served.                          *)

LEMMA PicksReceive ==
  ASSUME Types, PicksHold, NEW c \in Users, Receive(c)
  PROVE  PicksHold'
<1>1. ui[c] \in Panels(c) /\ ui[c].cur \in Paths(c) /\ ans[c] \in Seq(Responses) /\ req[c] \in Seq(Requests(c))
  BY ClientParts, PanelFields
<1>2. Off(ui[c]).cur = ui[c].cur /\ Off(ui[c]).moving = ui[c].moving /\ Off(ui[c]).sharing = ui[c].sharing
  BY <1>1 DEF Off, Panels
<1>3. ASSUME NEW a, Took(c, a)
      PROVE  /\ Local(c) /\ (EnteringIn(req[c], ans'[c]) => EnteringIn(req[c], ans[c]))
             /\ a.kind = "entered" => EnteringIn(req[c], ans[c])
  <2>1. Local(c) /\ ans[c] # <<>> /\ a = Head(ans[c]) /\ ans'[c] = Tail(ans[c])
    BY <1>3 DEF Took
  <2>2. PICK A : A = ans[c]
    OBVIOUS
  <2>3. 1 \in DOMAIN A /\ A[1] = a
    BY <1>1, <2>1, <2>2, Shrunk
  <2> QED
    BY <1>1, <2>1, <2>2, <2>3, LessEntering DEF EnteringIn
<1>4. ASSUME NEW a, Took(c, a), req' = req,
             box' = box \/ (box'[c] = <<a>> \o box[c] /\ a \in Boxes),
             ui'[c].moving = ui[c].moving, ui'[c].sharing = ui[c].sharing,
             ui'[c].cur = ui[c].cur \/ a.kind = "entered"
      PROVE  PicksHold'
  <2>1. \A e \in Users : NoNewOffers(e, req, ans, box, req', ans', box')
    BY <1>4, NotNewTook
  <2>2. /\ Local(c) /\ (EnteringIn(req[c], ans'[c]) => EnteringIn(req[c], ans[c]))
        /\ a.kind = "entered" => EnteringIn(req[c], ans[c])
    BY <1>3, <1>4
  <2>3. ASSUME c \notin mixed' \cup hasty' \cup stale', ui[c].sharing # NoName PROVE ui'[c].cur = ui[c].cur
    <3>1. Defined /\ c \notin mixed \cup hasty \cup stale
      BY <2>2, <2>3 DEF Local, Marks
    <3>2. ~EnteringIn(req[c], ans[c])
      BY <2>3, <3>1 DEF PicksHold, Picks
    <3> QED
      BY <1>4, <2>2, <3>2
  <2>4. /\ EnteringIn(req'[c], ans'[c]) => EnteringIn(req[c], ans[c])
        /\ \A i \in DOMAIN req'[c] : \E j \in DOMAIN req[c] : req'[c][i] = req[c][j]
    BY <1>4, <2>2
  <2> QED
    BY <1>4, <2>1, <2>2, <2>3, <2>4, PicksMore
<1>5. CASE TakeChanged(c)
  <2>1. PICK a : /\ Took(c, a) /\ box' = box
                 /\ IF a.ok THEN /\ req'[c] = Append(req[c], ListRequest(ui[c].cur)) /\ ui'[c] = Off(ui[c])
                    ELSE req' = req /\ ui' = ui
    BY <1>5, TakeChangedIs
  <2>2. CASE a.ok
    <3>1. PICK r : r = ListRequest(ui[c].cur)
      OBVIOUS
    <3>2. r.kind = "list" /\ r \in Requests(c)
      BY <1>1, <3>1 DEF ListRequest, Requests
    <3>3. \A e \in Users : NoNewOffers(e, req, ans, box, req', ans', box')
      BY <2>1, <2>2, NotNewTook
    <3>4. Local(c) /\ (EnteringIn(req[c], ans'[c]) => EnteringIn(req[c], ans[c]))
      BY <1>3, <2>1
    <3>5. r.kind \notin Moving /\ r.kind # "enter" /\ req'[c] = Append(req[c], r)
      BY <2>1, <2>2, <3>1, <3>2 DEF Moving
    <3> QED
      BY <1>2, <2>1, <2>2, <3>2, <3>3, <3>4, <3>5, PicksAlso
  <2>3. CASE ~a.ok
    BY <1>4, <2>1, <2>3
  <2> QED
    BY <2>2, <2>3
<1>6. CASE TakeList(c)
  BY <1>4, <1>6, TakeListIs
<1>7. CASE TakeEntered(c)
  <2>1. PICK a : /\ Took(c, a) /\ a.kind = "entered" /\ box' = box /\ req' = req
                 /\ ui'[c].moving = ui[c].moving /\ ui'[c].sharing = ui[c].sharing
    BY <1>7, TakeEnteredIs
  <2> QED
    BY <1>4, <2>1
<1>8. CASE TakeBox(c)
  BY <1>4, <1>8, TakeBoxIs
<1> QED
  BY <1>5, <1>6, <1>7, <1>8 DEF Receive

\* His first request is served: one that changes what is there when nothing of
\* his is picked or offered, the others leave it as it is.
LEMMA PicksOwn ==
  ASSUME NEW c \in Users, NEW R, NEW A, NEW B, NEW S, NEW T, NEW C, NEW p, NEW f, NEW g,
         Picks(c, R, A, B, p, f), NamesIt(c, R, A, B, p), NoNewOffers(c, R, A, B, S, T, C),
         AsksOnce(R[c], A[c], p), R[c] \in Seq(Requests(c)), R[c] # <<>>, S[c] = Tail(R[c]),
         Remains(c, f, g) \/ R[c][1].kind \in Moving,
         \A i \in DOMAIN T[c] : T[c][i].kind = "entered" =>
           (\E j \in DOMAIN A[c] : T[c][i] = A[c][j]) \/ R[c][1].kind = "enter"
  PROVE  Picks(c, S, T, C, p, g)
<1>1. PICK s, t : s = R[c] /\ t = S[c]
  OBVIOUS
<1>2. /\ 1 \in DOMAIN s
      /\ \A i \in DOMAIN t : i \in Nat \ {0} /\ i + 1 \in DOMAIN s /\ t[i] = s[i + 1]
  BY <1>1, Shrunk
<1>3. CASE R[c][1].kind \in Moving
  <2>1. p.moving = NoPath /\ p.sharing = NoName /\ ~Offering(c, R, A, B)
    BY <1>1, <1>2, <1>3 DEF Picks
  <2>2. \A u \in Users : OfferHolds(S[u], c, g) /\ OfferHolds(T[u], c, g) /\ OfferHolds(C[u], c, g)
    BY <2>1, NoneOffered
  <2>3. ASSUME NEW i \in DOMAIN t PROVE t[i].kind \notin Moving
    <3>1. i + 1 \in DOMAIN s /\ t[i] = s[i + 1] /\ i + 1 # 1
      BY <1>2
    <3> QED
      BY <1>1, <3>1 DEF AsksOnce, Clicked, Moving
  <2> QED
    BY <1>1, <2>1, <2>2, <2>3 DEF Picks, Moving
<1>4. CASE R[c][1].kind \notin Moving
  <2>1. \A i \in DOMAIN S[c] : \E j \in DOMAIN R[c] : S[c][i] = R[c][j]
    BY <1>1, <1>2
  <2>2. EnteringIn(S[c], T[c]) => EnteringIn(R[c], A[c])
    BY <1>1, <1>2, <2>1 DEF EnteringIn
  <2> QED
    BY <1>4, <2>1, <2>2, PicksKept
<1> QED
  BY <1>3, <1>4

LEMMA PicksServed ==
  ASSUME Types, Types', Patience, PicksHold, NEW c \in Users, NEW r, NEW tell, Served(c, r, tell),
         OnlyIn(c, fs, fs'), (\A x \in DOMAIN fs : x \in DOMAIN fs' /\ fs'[x] = fs[x]) \/ r.kind \in Moving,
         \A u \in Users \cap DOMAIN tell :
           /\ tell[u] \in Responses
           /\ \/ tell[u].kind \notin {"share", "agree", "note"}
              \/ r.kind = "share" /\ tell[u].from = r.from /\ tell[u].path = r.path /\ tell[u].meant = r.meant
           /\ tell[u].kind = "entered" => u = c /\ r.kind = "enter"
  PROVE  PicksHold'
<1>1. SUFFICES ASSUME NEW e \in Users \ (mixed \cup hasty \cup stale) PROVE Picks(e, req', ans', box', ui'[e], fs')
  BY DEF Served, PicksHold
<1>2. PICK R, A, B, S, T, C, p, f, g :
        /\ R = req /\ A = ans /\ B = box /\ S = req' /\ T = ans' /\ C = box' /\ p = ui[e] /\ f = fs /\ g = fs'
  OBVIOUS
<1>3. /\ Defined /\ ui'[e] = p /\ R[c] # <<>> /\ r = R[c][1]
      /\ S[c] = Tail(R[c]) /\ (e # c => S[e] = R[e])
      /\ T[e] = IF e \in DOMAIN tell THEN Append(A[e], tell[e]) ELSE A[e]
  BY <1>2 DEF Served
<1>4. /\ Picks(e, R, A, B, p, f) /\ NamesIt(e, R, A, B, p)
      /\ R[e] \in Seq(Requests(e)) /\ A[e] \in Seq(Responses)
  BY <1>1, <1>2, <1>3, PicksAreNamed, ClientParts DEF PicksHold
<1>5. NoNewOffers(e, R, A, B, S, T, C)
  BY <1>2, NotNewServed
<1>6. \A i \in DOMAIN T[e] : (\E j \in DOMAIN A[e] : T[e][i] = A[e][j]) \/ (e \in DOMAIN tell /\ T[e][i] = tell[e])
  <2>1. CASE e \in DOMAIN tell
    <3>1. PICK s, t : s = A[e] /\ t = T[e]
      OBVIOUS
    <3>2. tell[e] \in Responses /\ s \in Seq(Responses) /\ t = Append(s, tell[e])
      BY <1>3, <1>4, <2>1, <3>1
    <3>3. \A i \in DOMAIN t : (\E j \in DOMAIN s : t[i] = s[j]) \/ t[i] = tell[e]
      BY <3>2, Grown
    <3> QED
      BY <2>1, <3>1, <3>3
  <2>2. CASE e \notin DOMAIN tell
    BY <1>3, <2>2
  <2> QED
    BY <2>1, <2>2
<1>7. CASE e = c
  <2>1. AsksOnce(R[e], A[e], p)
    BY <1>1, <1>2, <1>3 DEF Patience, Patient
  <2>2. Remains(e, f, g) \/ r.kind \in Moving
    BY <1>2 DEF Remains
  <2>3. \A i \in DOMAIN T[e] : T[e][i].kind = "entered" =>
          (\E j \in DOMAIN A[e] : T[e][i] = A[e][j]) \/ r.kind = "enter"
    BY <1>1, <1>6, <1>7
  <2>4. /\ R[e] # <<>> /\ S[e] = Tail(R[e])
        /\ Remains(e, f, g) \/ R[e][1].kind \in Moving
        /\ \A i \in DOMAIN T[e] : T[e][i].kind = "entered" =>
             (\E j \in DOMAIN A[e] : T[e][i] = A[e][j]) \/ R[e][1].kind = "enter"
    BY <1>3, <1>7, <2>2, <2>3
  <2>5. e \in Users
    BY <1>1
  <2>6. Picks(e, S, T, C, p, g)
    BY <1>4, <1>5, <2>1, <2>4, <2>5, PicksOwn
  <2> QED
    BY <1>2, <1>3, <2>6
<1>8. CASE e # c
  <2>1. Remains(e, f, g)
    BY <1>2, <1>8, ElsewhereThere DEF Remains
  <2>2. \A i \in DOMAIN T[e] : T[e][i].kind = "entered" => \E j \in DOMAIN A[e] : T[e][i] = A[e][j]
    BY <1>6, <1>8
  <2>3. EnteringIn(S[e], T[e]) => EnteringIn(R[e], A[e])
    BY <1>3, <1>8, <2>2 DEF EnteringIn
  <2>4. \A i \in DOMAIN S[e] : \E j \in DOMAIN R[e] : S[e][i] = R[e][j]
    BY <1>3, <1>8
  <2>5. Picks(e, S, T, C, p, g)
    BY <1>4, <1>5, <2>1, <2>3, <2>4, PicksKept
  <2> QED
    BY <1>2, <1>3, <2>5
<1> QED
  BY <1>7, <1>8

LEMMA PicksServe ==
  ASSUME Types, Types', Patience, PicksHold, NEW c \in Users, Serve(c)
  PROVE  PicksHold'
<1>1. /\ Told \in Responses /\ Told.kind = "told"
      /\ \A b \in BOOLEAN : Changed(b) \in Responses /\ Changed(b).kind = "changed"
  BY NewAnswers
<1>2. ASSUME NEW r, NEW d \in Users, NEW a \in Responses, Served(c, r, To(d, a)), OnlyIn(c, fs, fs'),
             (\A x \in DOMAIN fs : x \in DOMAIN fs' /\ fs'[x] = fs[x]) \/ r.kind \in Moving,
             \/ a.kind \notin {"share", "agree", "note"}
             \/ r.kind = "share" /\ a.from = r.from /\ a.path = r.path /\ a.meant = r.meant,
             a.kind = "entered" => d = c /\ r.kind = "enter"
      PROVE  PicksHold'
  <2>1. PICK tell : tell = To(d, a)
    OBVIOUS
  <2>2. DOMAIN tell = {d} /\ tell[d] = a
    BY <2>1, ToIs
  <2>3. Served(c, r, tell)
    BY <1>2, <2>1
  <2>4. \A u \in Users \cap DOMAIN tell :
          /\ tell[u] \in Responses
          /\ \/ tell[u].kind \notin {"share", "agree", "note"}
             \/ r.kind = "share" /\ tell[u].from = r.from /\ tell[u].path = r.path /\ tell[u].meant = r.meant
          /\ tell[u].kind = "entered" => u = c /\ r.kind = "enter"
    BY <1>2, <2>2
  <2> QED
    BY <1>2, <2>3, <2>4, PicksServed
<1>3. CASE ServeList(c)
  <2>1. PICK r : /\ fs' = fs
                 /\ IF DirIn(fs, r.path)
                    THEN Served(c, r, To(c, [kind |-> "list", list |-> ListOf(fs, r.path)]))
                    ELSE undef' = "missing"
    BY <1>3, ServeListIs
  <2>2. CASE DirIn(fs, r.path)
    <3>1. PICK a : a = [kind |-> "list", list |-> ListOf(fs, r.path)]
      OBVIOUS
    <3>2. a \in Responses /\ a.kind = "list"
      BY <2>2, <3>1, Listed, NewAnswers DEF DirIn, Types
    <3>3. Served(c, r, To(c, a))
      BY <2>1, <2>2, <3>1
    <3> QED
      BY <1>2, <2>1, <3>2, <3>3, OnlySame
  <2>3. CASE ~DirIn(fs, r.path)
    BY <2>1, <2>3 DEF PicksHold, Defined
  <2> QED
    BY <2>2, <2>3
<1>4. CASE ServeEnter(c)
  <2>1. PICK r : /\ r.kind = "enter" /\ fs' = fs
                 /\ IF r.path \in DOMAIN fs
                    THEN \E a : Served(c, r, To(c, a)) /\ a \in Responses /\ a.kind = "entered"
                    ELSE undef' = "missing"
    BY <1>4, ServeEnterIs
  <2>2. CASE r.path \in DOMAIN fs
    <3>1. PICK a : Served(c, r, To(c, a)) /\ a \in Responses /\ a.kind = "entered"
      BY <2>1, <2>2
    <3> QED
      BY <1>2, <2>1, <3>1, OnlySame
  <2>3. CASE r.path \notin DOMAIN fs
    BY <2>1, <2>3 DEF PicksHold, Defined
  <2> QED
    BY <2>2, <2>3
<1>5. CASE ServeCreate(c)
  BY <1>1, <1>2, <1>5, ServeCreateIs DEF Grows
<1>6. CASE ServeDelete(c)
  <2>1. PICK r : r.kind = "delete" /\ OnlyIn(c, fs, fs') /\ Served(c, r, To(c, Changed(r.path \in DOMAIN fs)))
    BY <1>6, ServeDeleteIs
  <2>2. (r.path \in DOMAIN fs) \in BOOLEAN
    OBVIOUS
  <2>3. PICK a : a = Changed(r.path \in DOMAIN fs)
    OBVIOUS
  <2>4. a \in Responses /\ a.kind = "changed" /\ Served(c, r, To(c, a))
    BY <1>1, <2>1, <2>2, <2>3
  <2> QED
    BY <1>2, <2>1, <2>4 DEF Moving
<1>7. CASE ServeRename(c)
  <2>1. PICK r, ok : /\ r.kind = "rename" /\ ok \in BOOLEAN /\ OnlyIn(c, fs, fs')
                     /\ Served(c, r, To(c, Changed(ok)))
    BY <1>7, ServeRenameIs DEF Moves
  <2> QED
    BY <1>1, <1>2, <2>1 DEF Moving
<1>8. CASE ServeMove(c)
  <2>1. PICK r : r.kind = "move" /\ OnlyIn(c, fs, fs') /\ Served(c, r, To(c, Told))
    BY <1>8, ServeMoveIs DEF Moves
  <2> QED
    BY <1>1, <1>2, <2>1 DEF Moving
<1>9. CASE ServeShare(c)
  <2>1. PICK r, a : /\ r.kind = "share" /\ r.from = c /\ r.to \in Users /\ fs' = fs
                    /\ Served(c, r, To(r.to, a)) /\ a \in Notes
                    /\ a.from = c /\ a.path = r.path /\ a.meant = r.meant
    BY <1>9, ServeShareIs
  <2>2. a \in Responses /\ a.kind = "note"
    BY <2>1, NoteFields DEF Responses
  <2> QED
    BY <1>2, <2>1, <2>2, OnlySame
<1>10. ASSUME NEW r, Served(c, r, [u \in {c, r.from} |-> Told]), OnlyIn(c, fs, fs'),
              \A x \in DOMAIN fs : x \in DOMAIN fs' /\ fs'[x] = fs[x]
       PROVE  PicksHold'
  <2>1. PICK tell : tell = [u \in {c, r.from} |-> Told]
    OBVIOUS
  <2>2. \A u \in Users \cap DOMAIN tell : tell[u] \in Responses /\ tell[u].kind = "told"
    BY <1>1, <2>1
  <2>3. Served(c, r, tell)
    BY <1>10, <2>1
  <2> QED
    BY <1>10, <2>2, <2>3, PicksServed
<1>11. CASE ServeAgree(c)
  BY <1>10, <1>11, ServeAgreeIs DEF Grows
<1>12. CASE ServeRefuse(c)
  BY <1>10, <1>12, ServeRefuseIs, OnlySame
<1> QED
  BY <1>3, <1>4, <1>5, <1>6, <1>7, <1>8, <1>9, <1>11, <1>12 DEF Serve

LEMMA PicksStep == Types /\ Views /\ Patience /\ PicksHold /\ [Next]_vars => PicksHold'
<1> SUFFICES ASSUME Types, Views, Patience, PicksHold, [Next]_vars PROVE PicksHold'
  OBVIOUS
<1>1. CASE Next
  <2>1. PICK c \in Users : User(c) \/ Receive(c) \/ Serve(c)
    BY <1>1 DEF Next
  <2>2. Types'
    BY TypesStep
  <2> QED
    BY <2>1, <2>2, PicksUser, PicksReceive, PicksServe
<1>2. CASE UNCHANGED vars
  BY <1>2 DEF PicksHold, Defined, vars, panels, history
<1> QED
  BY <1>1, <1>2

LEMMA InitPicks == Init => PicksHold
<1> SUFFICES ASSUME Init, NEW c \in Users PROVE Picks(c, req, ans, box, ui[c], fs)
  BY DEF PicksHold
<1>1. /\ ui[c].moving = NoPath /\ ui[c].sharing = NoName
      /\ \A u \in Users : req[u] = <<>> /\ ans[u] = <<>> /\ box[u] = <<>>
  BY InitIs
<1> QED
  BY <1>1 DEF Picks, OfferHolds, OffersIn

-----------------------------------------------------------------------------
(* Requests meet what they mean.                                           *)

LEMMA MeetsMeant ==
  ASSUME Types, NEW c, NEW r, NEW who \in Users, Meets(c, r, who),
         who \notin hasty \cup stale \cup mixed => Holds(fs, r.path, r.meant)
  PROVE  wrong' \subseteq wrong \cup hasty \cup stale \cup mixed
<1>1. CASE who \in hasty \cup stale \cup mixed
  BY <1>1, MeetsIs
<1>2. CASE who \notin hasty \cup stale \cup mixed
  BY <1>2, MeetsIs
<1> QED
  BY <1>1, <1>2

LEMMA WrongServe ==
  ASSUME Types, Patience, PicksHold, NEW c \in Users, Serve(c)
  PROVE  wrong' \subseteq wrong \cup hasty \cup stale \cup mixed
<1>1. req[c] \in Seq(Requests(c))
  BY ClientParts
<1>2. PICK R, f : R = req[c] /\ f = fs
  OBVIOUS
<1>3. ASSUME NEW r, NEW tell, Served(c, r, tell)
      PROVE  Defined /\ 1 \in DOMAIN R /\ R[1] = r
  <2>1. Defined /\ R # <<>> /\ r = Head(R)
    BY <1>2, <1>3 DEF Served
  <2> QED
    BY <1>1, <1>2, <2>1, Shrunk
<1>4. ASSUME wrong' = wrong PROVE wrong' \subseteq wrong \cup hasty \cup stale \cup mixed
  BY <1>4
<1>5. CASE ServeList(c)
  BY <1>4, <1>5, ServeListIs
<1>6. CASE ServeEnter(c)
  BY <1>4, <1>6, ServeEnterIs
<1>7. CASE ServeCreate(c)
  BY <1>4, <1>7, ServeCreateIs
<1>8. CASE ServeShare(c)
  BY <1>4, <1>8, ServeShareIs
<1>9. CASE ServeRefuse(c)
  BY <1>4, <1>9, ServeRefuseIs
\* His own: what he saw, or what he had picked.
<1>10. ASSUME NEW r, NEW tell, Served(c, r, tell), Meets(c, r, c), r.kind \in Moving
       PROVE  wrong' \subseteq wrong \cup hasty \cup stale \cup mixed
  <2>1. ASSUME c \notin hasty \cup stale \cup mixed PROVE Holds(f, r.path, r.meant)
    <3>1. Defined /\ 1 \in DOMAIN R /\ R[1] = r
      BY <1>3, <1>10
    <3>2. MeansIt(R, ui[c], f)
      BY <1>2, <2>1, <3>1 DEF Patience, Patient
    <3>3. Picks(c, req, ans, box, ui[c], fs)
      BY <2>1, <3>1 DEF PicksHold
    <3>4. CASE r.kind = "move"
      BY <1>2, <3>1, <3>3, <3>4 DEF Picks
    <3>5. CASE r.kind \in {"delete", "rename"}
      BY <3>1, <3>2, <3>5 DEF MeansIt, Holds
    <3> QED
      BY <1>10, <3>4, <3>5 DEF Moving
  <2> QED
    BY <1>2, <1>10, <2>1, MeetsMeant
<1>11. CASE ServeDelete(c)
  <2>1. PICK r : r.kind = "delete" /\ Served(c, r, To(c, Changed(r.path \in DOMAIN fs))) /\ Meets(c, r, c)
    BY <1>11, ServeDeleteIs
  <2>2. r.kind \in Moving
    BY <2>1 DEF Moving
  <2>3. PICK tell : tell = To(c, Changed(r.path \in DOMAIN fs))
    OBVIOUS
  <2> QED
    BY <1>10, <2>1, <2>2, <2>3
<1>12. CASE ServeRename(c)
  <2>1. PICK r, tell : r.kind = "rename" /\ Served(c, r, tell) /\ Meets(c, r, c)
    BY <1>12, ServeRenameIs
  <2> QED
    BY <1>10, <2>1 DEF Moving
<1>13. CASE ServeMove(c)
  <2>1. PICK r, tell : r.kind = "move" /\ Served(c, r, tell) /\ Meets(c, r, c)
    BY <1>13, ServeMoveIs
  <2> QED
    BY <1>10, <2>1 DEF Moving
\* What a friend had offered.
<1>14. CASE ServeAgree(c)
  <2>1. PICK r, tell : r.kind = "agree" /\ r.from \in Users /\ Served(c, r, tell) /\ Meets(c, r, r.from)
    BY <1>14, ServeAgreeIs
  <2>2. ASSUME r.from \notin hasty \cup stale \cup mixed PROVE Holds(f, r.path, r.meant)
    <3>1. Defined /\ 1 \in DOMAIN R /\ R[1] = r
      BY <1>3, <2>1
    <3>2. Picks(r.from, req, ans, box, ui[r.from], fs)
      BY <2>1, <2>2, <3>1 DEF PicksHold
    <3>3. OfferHolds(R, r.from, f)
      BY <1>2, <3>2 DEF Picks
    <3>4. 1 \in OffersIn(R, r.from)
      BY <2>1, <3>1 DEF OffersIn
    <3> QED
      BY <3>1, <3>3, <3>4 DEF OfferHolds
  <2> QED
    BY <1>2, <2>1, <2>2, MeetsMeant
<1> QED
  BY <1>5, <1>6, <1>7, <1>8, <1>9, <1>11, <1>12, <1>13, <1>14 DEF Serve

LEMMA MarkedStays ==
  ASSUME NEW c \in Users, User(c) \/ Receive(c)
  PROVE  /\ wrong' = wrong
         /\ hasty \subseteq hasty' /\ stale \subseteq stale' /\ mixed \subseteq mixed'
<1>1. ASSUME NEW k, Closes(c, k) PROVE UNCHANGED <<hasty, stale, wrong>>
  BY <1>1 DEF Closes
<1>2. ASSUME NEW a, Takes(c, a) PROVE UNCHANGED <<hasty, stale, wrong>>
  BY <1>2 DEF Takes
<1>3. ASSUME NEW r, Sends(c, r) PROVE mixed \subseteq mixed'
  BY <1>3 DEF Sends
<1>4. ASSUME NEW p, FlushFile(c, p) PROVE mixed \subseteq mixed'
  BY <1>4 DEF FlushFile, Sends
<1>5. ASSUME Uses(c) PROVE hasty \subseteq hasty' /\ wrong' = wrong
  BY <1>5 DEF Uses
<1>6. ASSUME NEW always, Spoils(c, always) PROVE stale \subseteq stale'
  BY <1>6 DEF Spoils
<1>7. CASE Receive(c)
  BY <1>2, <1>4, <1>7 DEF Receive, TakeChanged, TakeList, TakeEntered, TakeBox
<1>8. CASE CloseTold(c) \/ AnswerNote(c)
  BY <1>1, <1>3, <1>4, <1>8 DEF CloseTold, AnswerNote
<1>9. CASE ClickItem(c) \/ ClickFlush(c) \/ ClickCreate(c) \/ PickMove(c) \/ PickShare(c) \/ ConfirmShare(c)
  BY <1>3, <1>4, <1>5, <1>9
     DEF ClickItem, ClickFlush, ClickCreate, PickMove, PickShare, ConfirmShare, Clicks
<1>10. CASE ClickDelete(c) \/ ClickRename(c) \/ DoubleClick(c) \/ ClickReturn(c) \/ ConfirmMove(c)
  BY <1>3, <1>4, <1>5, <1>6, <1>10
     DEF ClickDelete, ClickRename, DoubleClick, ClickReturn, ConfirmMove, Clicks
<1> QED
  BY <1>7, <1>8, <1>9, <1>10 DEF User

LEMMA WrongStep ==
  Types /\ Patience /\ PicksHold /\ ActsOnWhatIsShown /\ [Next]_vars => ActsOnWhatIsShown'
<1> SUFFICES ASSUME Types, Patience, PicksHold, ActsOnWhatIsShown, [Next]_vars PROVE ActsOnWhatIsShown'
  OBVIOUS
<1>1. CASE Next
  <2>1. PICK c \in Users : User(c) \/ Receive(c) \/ Serve(c)
    BY <1>1 DEF Next
  <2>2. CASE User(c) \/ Receive(c)
    BY <2>2, MarkedStays DEF ActsOnWhatIsShown
  <2>3. CASE Serve(c)
    <3>1. wrong' \subseteq wrong \cup hasty \cup stale \cup mixed
      BY <2>3, WrongServe
    <3>2. UNCHANGED <<hasty, mixed, stale>>
      BY <2>3 DEF Serve, ServeList, ServeEnter, ServeCreate, ServeDelete, ServeRename, ServeMove,
                  ServeShare, ServeAgree, ServeRefuse, Answers
    <3> QED
      BY <3>1, <3>2 DEF ActsOnWhatIsShown
  <2> QED
    BY <2>1, <2>2, <2>3
<1>2. CASE UNCHANGED vars
  BY <1>2 DEF ActsOnWhatIsShown, vars, panels, history
<1> QED
  BY <1>1, <1>2

\* What is deleted, renamed, moved or given to a friend is what the user saw when
\* he chose it, unless he clicked before an answer due to him, changed what he had
\* picked or offered, or was asked for a list while he entered a directory
\* (book.cpp, sharefile.cpp, mytcpsocket.cpp).
THEOREM ShownIsMeant == Spec => []ActsOnWhatIsShown
<1>1. Init => ActsOnWhatIsShown
  BY DEF Init, ActsOnWhatIsShown
<1> QED
  BY <1>1, InitTypes, InitViews, InitPatience, InitPicks, TypesStep, ViewsStep, PatienceStep,
     PicksStep, WrongStep, PTL DEF Spec
=============================================================================
