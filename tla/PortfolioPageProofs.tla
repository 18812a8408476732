------------------------ MODULE PortfolioPageProofs ------------------------
(* Machine-checked proofs about PortfolioPage: about PortfolioPanel, for     *)
(* every set of products, contents and tabs, and about VersionHistory, for   *)
(* every sequence of versions, length of lists and pages; any number of      *)
(* calls in flight, writes, turns and failures.                              *)
EXTENDS PortfolioPage, Sequences, FiniteSetTheorems, TLAPS

USE PanelAssumption

-----------------------------------------------------------------------------
(* The panel: its inductive invariant *)

FetchCall  == [op : {"fetch"}, then : {"none", "modal"}, got : Lists \cup {None}, at : Nat, late : BOOLEAN]
CheckCall  == [op : {"check"}, then : {"none", "snap"}, live : BOOLEAN, got : {None, "yes", "no"},
               at : Nat, late : BOOLEAN]
SaveCall   == [op : {"save"}, id : Id \cup {New}, v : Complete]
DeleteCall == [op : {"delete"}, id : Id]
SnapCall   == [op : {"snapshot", "versions"}, live : BOOLEAN]
ACall      == FetchCall \cup CheckCall \cup SaveCall \cup DeleteCall \cup SnapCall

Read == {"fetch", "check"}

\* The reads of cs that were served.
Reads(cs) == {c \in cs : c.op \in Read /\ c.got # None}

\* The reads that were served stand in one row; the others are not in it.
InPlace(cs) ==
  /\ IsFiniteSet(Reads(cs))
  /\ \A c, d \in Reads(cs) : c.at = d.at => c = d
  /\ \A c \in Reads(cs) : c.at \in 1 .. Cardinality(Reads(cs))
  /\ \A c \in cs : (c.op \in Read /\ c.got = None) => c.at = 0 /\ ~c.late

\* What the reads of a kind will leave is right (it is in Good): one of them is
\* still to be served, or the last of those that tell anything is right, or
\* what is known is right and none of them will spoil it.
Fresh(cs, op, Good, known) ==
  \/ \E c \in cs : c.op = op /\ c.got = None
  \/ \E e \in Reads(cs) :
       /\ e.op = op /\ e.got \in Good /\ ~e.late
       /\ \A d \in Reads(cs) : d.op = op => d.late \/ d.got \in Good \/ d.at < e.at
  \/ known /\ \A d \in Reads(cs) : d.op = op => d.late \/ d.got \in Good

PanelTypes ==
  /\ rows \in [Id -> Content \cup {None, Gone}] /\ newest \in Lists \cup {None}
  /\ turn \in {"none", "streamed", "cut"}
  /\ shown \in Lists
  /\ loading \in BOOLEAN /\ error \in BOOLEAN /\ hasChanges \in BOOLEAN
  /\ byHand \in BOOLEAN /\ excused \in BOOLEAN
  /\ tab \in Tab /\ card \in [Id -> {"view", "confirm", "hidden"}]
  /\ modal \in [on : Id \cup {None, New}, saving : BOOLEAN]
  /\ snap \in [open : BOOLEAN, saving : BOOLEAN]
  /\ turns \in 0 .. MaxTurns /\ acts \in 0 .. MaxActs /\ faults \in 0 .. MaxFaults

CallsInv == calls \subseteq ACall /\ InPlace(calls)

\* A turn that is cut is excused.
TurnInv == turn = "cut" => excused

\* The list will be the portfolio.
FetchInv ==
  (turn = "none" /\ ~error /\ ~excused) => Fresh(calls, "fetch", {Listing}, shown = Listing)

Right == IF newest = NextVersion THEN {"yes", "no"} ELSE {"yes"}

\* The button will be off only when the last version holds the portfolio.
CheckInv ==
  (turn = "none" /\ ~excused /\ ~byHand)
    => Fresh(calls, "check", Right, hasChanges \/ newest = NextVersion)

\* The save under way, or the refetch that ends it.
Saving(cs) == {c \in cs : c.op = "save" \/ (c.op = "fetch" /\ c.then = "modal")}

SavingInv ==
  /\ \A c, d \in Saving(calls) : c = d
  /\ Saving(calls) # {} => modal.saving

PanelInv ==
  /\ PanelTypes /\ CallsInv /\ TurnInv /\ FetchInv /\ CheckInv
  /\ SavingInv /\ HiddenCardIsDeleted

-----------------------------------------------------------------------------
(* The panel: reads that land *)

\* What becomes of the call d when the read c has landed; a call that outlives
\* the empty panel is told apart by live, which no one here looks at.
Moved(cs, c, d, e) ==
  /\ e \in ACall /\ e.op = d.op
  /\ d.op \in {"save", "delete"} => e = d
  /\ d.op = "fetch" => e.then = d.then
  /\ d.op \in Read =>
       /\ e.got = d.got
       /\ e.at = IF d \in Reads(cs) /\ c.at > 0 /\ d.at > c.at THEN d.at - 1 ELSE d.at
       /\ e.late = (d.late \/ (d \in Reads(cs) /\ d.op = c.op /\ d.at < c.at))

\* The calls when c has landed: every other one, moved.
Landed(cs, c, F, ds) ==
  /\ cs \subseteq ACall /\ InPlace(cs) /\ c \in cs /\ c.op \in Read
  /\ \A d \in cs \ {c} : Moved(cs, c, d, F[d])
  /\ ds = {F[d] : d \in cs \ {c}}

\* The fields of a read.
LEMMA ReadFields ==
  ASSUME NEW c \in ACall, c.op \in Read
  PROVE  /\ c.at \in Nat /\ c.late \in BOOLEAN
         /\ c.op = "fetch" => c \in FetchCall
         /\ c.op = "check" => c \in CheckCall
  BY DEF ACall, FetchCall, CheckCall, SaveCall, DeleteCall, SnapCall, Read

\* The row closes up.
LEMMA LandedPlaces ==
  ASSUME NEW cs, NEW c, NEW F, NEW ds, Landed(cs, c, F, ds)
  PROVE  /\ ds \subseteq ACall /\ InPlace(ds)
         /\ Reads(ds) = {F[d] : d \in Reads(cs) \ {c}}
<1> DEFINE S == Reads(cs) \ {c}
           T == Reads(ds)
           n == Cardinality(Reads(cs))
<1>1. \A d \in S : d \in cs \ {c} /\ d.op \in Read /\ d.got # None /\ d.at \in 1 .. n
  BY DEF Reads, Landed, InPlace
<1>2. ds \subseteq ACall
  BY DEF Landed, Moved
<1>3. T = {F[d] : d \in S}
  <2>1. \A d \in cs \ {c} : F[d].op = d.op /\ (d.op \in Read => F[d].got = d.got)
    BY DEF Landed, Moved
  <2> QED BY <2>1 DEF Landed, Reads
<1>4. IsFiniteSet(Reads(cs)) /\ n \in Nat
  BY FS_CardinalityType DEF Landed, InPlace
<1>5. IsFiniteSet(S) /\ Cardinality(S) = IF c \in Reads(cs) THEN n - 1 ELSE n
  BY <1>4, FS_RemoveElement
<1>6. c \in Reads(cs) \/ c.at = 0
  BY DEF Landed, InPlace, Reads
<1>7. c \in Reads(cs) => c.at \in 1 .. n /\ \A d \in S : d.at # c.at
  BY DEF Landed, InPlace
<1>8. \A d \in S : F[d].at = IF c.at > 0 /\ d.at > c.at THEN d.at - 1 ELSE d.at
  BY <1>1 DEF Landed, Moved
<1>9. \A d \in S : F[d].at \in 1 .. Cardinality(S)
  <2> SUFFICES ASSUME NEW d \in S PROVE F[d].at \in 1 .. Cardinality(S)
    OBVIOUS
  <2>1. CASE c \in Reads(cs)
    BY <1>1, <1>4, <1>5, <1>7, <1>8, <2>1
  <2>2. CASE c \notin Reads(cs)
    BY <1>1, <1>4, <1>5, <1>6, <1>8, <2>2
  <2> QED BY <2>1, <2>2
<1>10. \A d1, d2 \in S : F[d1].at = F[d2].at => d1 = d2
  <2> SUFFICES ASSUME NEW d1 \in S, NEW d2 \in S, F[d1].at = F[d2].at PROVE d1.at = d2.at
    BY DEF Landed, InPlace
  <2>1. d1.at \in Nat /\ d2.at \in Nat
    BY <1>1, <1>4
  <2>2. CASE c \in Reads(cs)
    BY <2>1, <1>4, <1>7, <1>8, <2>2
  <2>3. CASE c \notin Reads(cs)
    BY <2>1, <1>6, <1>8, <2>3
  <2> QED BY <2>2, <2>3
<1> DEFINE f == [d \in S |-> F[d]]
<1>11. f \in Surjection(S, T) /\ f \in Injection(S, T)
  <2>1. f \in [S -> T] /\ \A d \in S : f[d] = F[d]
    BY <1>3
  <2>2. \A t \in T : \E d \in S : f[d] = t
    BY <1>3
  <2>3. \A d1, d2 \in S : f[d1] = f[d2] => d1 = d2
    BY <1>10, <2>1
  <2> HIDE DEF f, S, T
  <2> QED BY <2>1, <2>2, <2>3 DEF Surjection, Injection, IsInjective
<1>12. IsFiniteSet(T) /\ Cardinality(T) = Cardinality(S)
  <2> HIDE DEF f, S, T
  <2> QED BY <1>5, <1>11, FS_Surjection
<1>13. \A e1, e2 \in T : e1.at = e2.at => e1 = e2
  BY <1>3, <1>10
<1>14. \A e \in T : e.at \in 1 .. Cardinality(T)
  BY <1>3, <1>9, <1>12
<1>15. \A e \in ds : (e.op \in Read /\ e.got = None) => e.at = 0 /\ ~e.late
  <2> SUFFICES ASSUME NEW d \in cs \ {c}, F[d].op \in Read, F[d].got = None
               PROVE  F[d].at = 0 /\ ~F[d].late
    BY DEF Landed
  <2>1. d.op \in Read /\ d.got = None /\ d \notin Reads(cs)
    BY DEF Landed, Moved, Reads
  <2>2. d.at = 0 /\ ~d.late
    BY <2>1 DEF Landed, InPlace
  <2> QED BY <2>1, <2>2 DEF Landed, Moved
<1> QED BY <1>2, <1>3, <1>12, <1>13, <1>14, <1>15 DEF InPlace

\* A read that is not late leaves the reads of every kind right.
LEMMA LandedFresh ==
  ASSUME NEW cs, NEW c, NEW F, NEW ds, Landed(cs, c, F, ds),
         NEW op \in Read, NEW Good, None \notin Good, NEW known \in BOOLEAN, NEW now \in BOOLEAN,
         Fresh(cs, op, Good, known),
         c.op = op => c \in Reads(cs) /\ ~c.late /\ (c.got \in Good => now),
         c.op # op => (known => now)
  PROVE  Fresh(ds, op, Good, now)
<1> DEFINE S == Reads(cs) \ {c}
<1>1. Reads(ds) = {F[d] : d \in S}
  BY LandedPlaces
<1>2. \A d \in S : /\ F[d].op = d.op /\ F[d].got = d.got
                   /\ F[d].at = IF c.at > 0 /\ d.at > c.at THEN d.at - 1 ELSE d.at
                   /\ F[d].late = (d.late \/ (d.op = c.op /\ d.at < c.at))
  BY DEF Landed, Moved, Reads
<1>3. \A d \in Reads(cs) : d.at \in Nat /\ d.late \in BOOLEAN
  BY ReadFields DEF Landed, Reads
<1>4. c.at \in Nat /\ c.late \in BOOLEAN
  BY ReadFields DEF Landed
<1>5. c \in Reads(cs) => \A d \in S : d.at # c.at
  BY DEF Landed, InPlace
<1>6. c \notin Reads(cs) => c.at = 0
  BY DEF Landed, InPlace, Reads
<1>7. \A d, e \in S : d.at < e.at => F[d].at < F[e].at
  BY <1>2, <1>3, <1>4, <1>5, <1>6
<1>8. CASE \E d \in cs : d.op = op /\ d.got = None
  <2>1. PICK d \in cs : d.op = op /\ d.got = None
    BY <1>8
  <2>2. d # c
    BY <2>1 DEF Reads
  <2>3. F[d] \in ds /\ F[d].op = op /\ F[d].got = None
    BY <2>1, <2>2 DEF Landed, Moved
  <2> QED BY <2>3 DEF Fresh
<1>9. CASE \E e \in Reads(cs) :
             /\ e.op = op /\ e.got \in Good /\ ~e.late
             /\ \A d \in Reads(cs) : d.op = op => d.late \/ d.got \in Good \/ d.at < e.at
  <2>1. PICK e \in Reads(cs) :
             /\ e.op = op /\ e.got \in Good /\ ~e.late
             /\ \A d \in Reads(cs) : d.op = op => d.late \/ d.got \in Good \/ d.at < e.at
    BY <1>9
  <2>2. CASE c.op = op /\ (e = c \/ c.at > e.at)
    <3>1. c.got \in Good /\ c \in Reads(cs)
      BY <1>3, <2>1, <2>2
    <3>2. \A d \in S : d.op = op => F[d].late \/ F[d].got \in Good
      <4> SUFFICES ASSUME NEW d \in S, d.op = op, F[d].got \notin Good PROVE F[d].late
        OBVIOUS
      <4>1. d.late \/ d.at < e.at
        BY <1>2, <2>1
      <4>2. d.late \/ d.at < c.at
        BY <1>3, <1>4, <2>1, <2>2, <4>1
      <4>3. F[d].late = (d.late \/ (d.op = c.op /\ d.at < c.at))
        BY <1>2
      <4>4. d.late \/ (d.op = c.op /\ d.at < c.at)
        BY <2>2, <4>2
      <4> QED BY <4>3, <4>4, Zenon
    <3>3. \A d \in Reads(ds) : d.op = op => d.late \/ d.got \in Good
      BY <1>1, <1>2, <3>2
    <3> QED BY <2>2, <3>1, <3>3 DEF Fresh
  <2>3. CASE e # c /\ (c.op # op \/ ~(c.at > e.at))
    <3>1. e \in S /\ F[e].op = op /\ F[e].got \in Good
      BY <1>2, <2>1, <2>3
    <3>2. ~F[e].late
      BY <1>2, <1>3, <1>4, <2>1, <2>3, <3>1
    <3>3. \A d \in S : d.op = op => F[d].late \/ F[d].got \in Good \/ F[d].at < F[e].at
      BY <1>2, <1>7, <2>1, <3>1
    <3> QED BY <1>1, <1>2, <3>1, <3>2, <3>3 DEF Fresh
  <2> QED BY <2>1, <2>2, <2>3
<1>10. CASE known /\ \A d \in Reads(cs) : d.op = op => d.late \/ d.got \in Good
  <2>1. \A d \in S : d.op = op => F[d].late \/ F[d].got \in Good
    BY <1>2, <1>10
  <2>2. now
    BY <1>10
  <2> QED BY <1>1, <1>2, <2>1, <2>2 DEF Fresh
<1> QED BY <1>8, <1>9, <1>10 DEF Fresh

\* One save is under way at most, and none when its refetch has landed.
LEMMA LandedSaving ==
  ASSUME NEW cs, NEW c, NEW F, NEW ds, Landed(cs, c, F, ds),
         \A a, b \in Saving(cs) : a = b
  PROVE  /\ \A a, b \in Saving(ds) : a = b
         /\ Saving(ds) # {} => Saving(cs) # {} /\ ~(c.op = "fetch" /\ c.then = "modal")
<1>1. \A d \in cs \ {c} : F[d].op = d.op /\ (d.op = "fetch" => F[d].then = d.then)
  BY DEF Landed, Moved
<1>2. Saving(ds) = {F[d] : d \in Saving(cs) \ {c}}
  BY <1>1 DEF Saving, Landed
<1>3. (c.op = "fetch" /\ c.then = "modal") => c \in Saving(cs)
  BY DEF Saving, Landed
<1> QED BY <1>2, <1>3

\* The calls that delete are where they were.
LEMMA LandedDeletes ==
  ASSUME NEW cs, NEW c, NEW F, NEW ds, Landed(cs, c, F, ds), NEW i
  PROVE  Delete(i) \in cs => Delete(i) \in ds
<1>1. c.op \in Read
  BY DEF Landed
<1>2. Delete(i).op = "delete"
  BY DEF Delete
<1>3. Delete(i) # c
  BY <1>1, <1>2 DEF Read
<1>4. Delete(i) \in cs => F[Delete(i)] = Delete(i)
  BY <1>2, <1>3 DEF Landed, Moved
<1> QED BY <1>3, <1>4 DEF Landed

\* What becomes of the answers under way when e is served.
StaysFresh(cs, ds, e) ==
  \A op \in Read : \A Good, known :
     IF op = e.op THEN e.got \in Good => Fresh(ds, op, Good, known)
                  ELSE Fresh(cs, op, Good, known) => Fresh(ds, op, Good, known)

\* A read is served: it stands last in the row, and tells what is right now.
LEMMA ServedReads ==
  ASSUME NEW cs, cs \subseteq ACall, InPlace(cs), NEW c \in cs, c.op \in Read, c.got = None,
         NEW e \in ACall, e.op = c.op, e.got # None, ~e.late, e.at = Cardinality(Reads(cs)) + 1,
         NEW ds, ds = (cs \ {c}) \cup {e}
  PROVE  ds \subseteq ACall /\ InPlace(ds) /\ StaysFresh(cs, ds, e)
<1>0. Cardinality(Reads(cs)) \in Nat
  BY FS_CardinalityType DEF InPlace
<1> PICK n \in Nat : n = Cardinality(Reads(cs))
  BY <1>0
<1>1. IsFiniteSet(Reads(cs)) /\ e.at = n + 1 /\ \A d \in Reads(cs) : d.at \in 1 .. n
  BY DEF InPlace
<1>2. Reads(ds) = Reads(cs) \cup {e}
  BY DEF Reads
<1>3. e \notin Reads(cs) /\ \A d \in Reads(cs) : d.at \in Nat /\ d.at < e.at
  BY <1>1
<1>4. IsFiniteSet(Reads(ds)) /\ Cardinality(Reads(ds)) = n + 1
  <2>1. /\ IsFiniteSet(Reads(cs) \cup {e})
        /\ Cardinality(Reads(cs) \cup {e}) = IF e \in Reads(cs) THEN Cardinality(Reads(cs)) ELSE Cardinality(Reads(cs)) + 1
    BY <1>1, FS_AddElement
  <2> QED BY <1>2, <1>3, <2>1, Zenon
<1>5. \A a, b \in Reads(ds) : a.at = b.at => a = b
  <2>1. \A a \in Reads(cs) : a.at # e.at
    BY <1>1, <1>3
  <2> QED BY <1>2, <2>1 DEF InPlace
<1>6. \A d \in Reads(ds) : d.at \in 1 .. Cardinality(Reads(ds))
  <2>1. \A d \in Reads(ds) : d.at \in 1 .. n + 1
    BY <1>1, <1>2
  <2> QED BY <1>4, <2>1
<1>7. InPlace(ds)
  BY <1>4, <1>5, <1>6 DEF InPlace
<1>8. ASSUME NEW op \in Read, NEW Good, NEW known, op = c.op, e.got \in Good
      PROVE  Fresh(ds, op, Good, known)
  <2>1. \A d \in Reads(ds) : d = e \/ d.at < e.at
    BY <1>2, <1>3
  <2> QED BY <1>2, <1>8, <2>1 DEF Fresh
<1>9. ASSUME NEW op \in Read, NEW Good, NEW known, op # c.op, Fresh(cs, op, Good, known)
      PROVE  Fresh(ds, op, Good, known)
  <2>1. \A d \in cs : d.op = op => d \in ds
    BY <1>9
  <2>2. \A d \in Reads(ds) : d.op = op => d \in Reads(cs)
    BY <1>2, <1>9
  <2> QED BY <1>2, <1>9, <2>1, <2>2 DEF Fresh
<1>10. StaysFresh(cs, ds, e)
  BY <1>8, <1>9 DEF StaysFresh
<1>11. ds \subseteq ACall
  OBVIOUS
<1> QED BY <1>7, <1>10, <1>11, Zenon

\* Calls that read nothing end, others begin: the reads stay as they were, and
\* one that is still to be served makes its kind right.
LEMMA KeptReads ==
  ASSUME NEW cs, cs \subseteq ACall, InPlace(cs), NEW Ended, \A c \in Ended : c.op \notin Read,
         NEW Begun, Begun \subseteq ACall,
         \A c \in Begun : c.op \in Read => c.got = None /\ c.at = 0 /\ ~c.late,
         NEW ds, ds = (cs \ Ended) \cup Begun
  PROVE  /\ ds \subseteq ACall /\ InPlace(ds)
         /\ \A op \in Read : \A Good, known : Fresh(cs, op, Good, known) => Fresh(ds, op, Good, known)
         /\ \A op \in Read : \A Good, known : (\E c \in Begun : c.op = op) => Fresh(ds, op, Good, known)
<1>1. Reads(ds) = Reads(cs)
  BY DEF Reads
<1>2. InPlace(ds)
  BY <1>1 DEF InPlace
<1>3. \A c \in cs : c.op \in Read => c \in ds
  OBVIOUS
<1> QED BY <1>1, <1>2, <1>3 DEF Fresh

\* What Overtaken and Detached do to a call.
Shift(c, d) ==
  IF d \in Served /\ d.op = c.op /\ d.at < c.at THEN [d EXCEPT !.late = TRUE]
  ELSE IF c.at > 0 /\ d \in Served /\ d.at > c.at THEN [d EXCEPT !.at = d.at - 1] ELSE d

Drop(d) == IF d.op \in {"snapshot", "versions", "check"} THEN [d EXCEPT !.live = FALSE] ELSE d

LEMMA ShiftMoves ==
  ASSUME CallsInv, NEW c \in calls, c.op \in Read, NEW d \in calls
  PROVE  Moved(calls, c, d, Shift(c, d))
<1>1. d \in ACall /\ c \in ACall /\ c.at \in Nat
  BY ReadFields DEF CallsInv
<1>2. Served = Reads(calls)
  BY DEF Served, Reads, Read
<1>3. CASE d \notin Served
  <2>1. Shift(c, d) = d
    BY <1>3 DEF Shift
  <2>2. d.op \in Read => d.late \in BOOLEAN
    BY <1>1, ReadFields
  <2> QED BY <1>1, <1>2, <1>3, <2>1, <2>2 DEF Moved
<1>4. CASE d \in Served
  <2>1. d.op \in Read /\ d.at \in Nat /\ d.late \in BOOLEAN /\ d \in FetchCall \cup CheckCall
    BY <1>1, <1>2, <1>4, ReadFields DEF Reads, Read
  <2>2. d.at \in 1 .. Cardinality(Served)
    BY <1>2, <1>4 DEF CallsInv, InPlace
  <2>3. CASE d.op = c.op /\ d.at < c.at
    <3>1. Shift(c, d) = [d EXCEPT !.late = TRUE]
      BY <1>4, <2>3 DEF Shift
    <3>2. [d EXCEPT !.late = TRUE] \in ACall
      BY <2>1 DEF ACall, FetchCall, CheckCall
    <3>3. LET e == [d EXCEPT !.late = TRUE] IN
            /\ e.op = d.op /\ e.got = d.got /\ e.at = d.at /\ e.late = TRUE
            /\ d.op = "fetch" => e.then = d.then
      BY <2>1 DEF FetchCall, CheckCall
    <3>4. (d.late \/ (d \in Reads(calls) /\ d.op = c.op /\ d.at < c.at)) = TRUE
      BY <1>2, <1>4, <2>3, Zenon
    <3>5. ~(d.at > c.at)
      BY <1>1, <2>1, <2>3
    <3>6. d.op \notin {"save", "delete"}
      BY <2>1 DEF Read
    <3> QED BY <3>1, <3>2, <3>3, <3>4, <3>5, <3>6 DEF Moved
  <2>4. CASE ~(d.op = c.op /\ d.at < c.at) /\ c.at > 0 /\ d.at > c.at
    <3>1. Shift(c, d) = [d EXCEPT !.at = d.at - 1]
      BY <1>4, <2>4 DEF Shift
    <3>2. d.at - 1 \in Nat
      BY <1>1, <2>1, <2>4
    <3>3. [d EXCEPT !.at = d.at - 1] \in ACall
      BY <2>1, <3>2 DEF ACall, FetchCall, CheckCall
    <3> QED BY <1>1, <1>2, <1>4, <2>1, <2>4, <3>1, <3>3 DEF Moved, FetchCall, CheckCall
  <2>5. CASE ~(d.op = c.op /\ d.at < c.at) /\ ~(c.at > 0 /\ d.at > c.at)
    <3>1. Shift(c, d) = d
      BY <2>5 DEF Shift
    <3> QED BY <1>1, <1>2, <2>1, <2>5, <3>1 DEF Moved
  <2> QED BY <2>3, <2>4, <2>5
<1> QED BY <1>3, <1>4

LEMMA DropMoves ==
  ASSUME NEW cs, NEW c, NEW d, NEW e, Moved(cs, c, d, e)
  PROVE  Moved(cs, c, d, Drop(e))
<1>1. e \in ACall
  BY DEF Moved
<1>2. CASE e.op \in {"snapshot", "versions", "check"}
  <2>1. e \in CheckCall \cup SnapCall
    BY <1>1, <1>2 DEF ACall, FetchCall, CheckCall, SaveCall, DeleteCall, SnapCall
  <2>2. Drop(e) = [e EXCEPT !.live = FALSE]
    BY <1>2 DEF Drop
  <2>3. [e EXCEPT !.live = FALSE] \in ACall
    BY <2>1 DEF ACall, CheckCall, SnapCall
  <2>4. CASE e \in CheckCall
    BY <2>2, <2>3, <2>4 DEF Moved, CheckCall, Read
  <2>5. CASE e \in SnapCall
    BY <2>2, <2>3, <2>5 DEF Moved, SnapCall, Read
  <2> QED BY <2>1, <2>4, <2>5
<1>3. CASE e.op \notin {"snapshot", "versions", "check"}
  BY <1>3 DEF Drop
<1> QED BY <1>2, <1>3

\* An answer lands, in the panel as it is or in one that goes from empty to full.
LEMMA Lands ==
  ASSUME CallsInv, NEW c \in calls, c.op \in Read,
         NEW ds, ds = Overtaken(c) \/ ds = Detached(Overtaken(c))
  PROVE  \E F : Landed(calls, c, F, ds)
<1>1. Overtaken(c) = {Shift(c, d) : d \in calls \ {c}}
  BY DEF Overtaken, Shift
<1>2. Detached(Overtaken(c)) = {Drop(Shift(c, d)) : d \in calls \ {c}}
  <2>1. Detached(Overtaken(c)) = {Drop(e) : e \in Overtaken(c)}
    BY DEF Detached, Drop
  <2> QED BY <1>1, <2>1
<1>3. CASE ds = Overtaken(c)
  <2> DEFINE F == [d \in calls \ {c} |-> Shift(c, d)]
  <2>1. \A d \in calls \ {c} : F[d] = Shift(c, d)
    OBVIOUS
  <2>2. ds = {F[d] : d \in calls \ {c}}
    BY <1>1, <1>3, <2>1
  <2> HIDE DEF F
  <2>3. Landed(calls, c, F, ds)
    BY <2>1, <2>2, ShiftMoves DEF Landed, CallsInv
  <2> QED BY <2>3
<1>4. CASE ds = Detached(Overtaken(c))
  <2> DEFINE F == [d \in calls \ {c} |-> Drop(Shift(c, d))]
  <2>1. \A d \in calls \ {c} : F[d] = Drop(Shift(c, d))
    OBVIOUS
  <2>2. ds = {F[d] : d \in calls \ {c}}
    BY <1>2, <1>4, <2>1
  <2> HIDE DEF F
  <2>3. \A d \in calls \ {c} : Moved(calls, c, d, F[d])
    BY <2>1, ShiftMoves, DropMoves
  <2>4. Landed(calls, c, F, ds)
    BY <2>2, <2>3 DEF Landed, CallsInv
  <2> QED BY <2>4
<1> QED BY <1>3, <1>4

-----------------------------------------------------------------------------
(* The panel: steps *)

LEMMA ListingType == Listing \in Lists /\ NextVersion \in Lists
<1>1. Listing \in Lists
  BY DEF Listing, Lists
<1>2. \A i \in Id : Listing[i] # None => Kept[Listing[i]] \in Content
  BY <1>1 DEF Lists
<1>3. NextVersion \in Lists
  BY <1>2 DEF NextVersion, AsVersion, Lists
<1> QED BY <1>1, <1>3

\* What a version would hold is worked out from the list.
LEMMA VersionFollows ==
  ASSUME Listing' = Listing PROVE NextVersion' = NextVersion
  BY DEF NextVersion, AsVersion

LEMMA VersionType == \A s \in Lists : AsVersion(s) \in Lists
<1> SUFFICES ASSUME NEW s \in Lists PROVE AsVersion(s) \in Lists
  OBVIOUS
<1>1. \A i \in Id : s[i] # None => Kept[s[i]] \in Content
  BY DEF Lists
<1> QED BY <1>1 DEF AsVersion, Lists

\* When the last version holds the portfolio no answer misleads.
LEMMA AllRight ==
  ASSUME NEW cs, cs \subseteq ACall
  PROVE  Fresh(cs, "check", {"yes", "no"}, TRUE)
<1>1. \A d \in Reads(cs) : d.op = "check" => d.got \in {"yes", "no"}
  BY DEF Reads, ACall, FetchCall, CheckCall, SaveCall, DeleteCall, SnapCall
<1> QED BY <1>1 DEF Fresh

\* A known answer keeps its worth.
LEMMA FreshWeaker ==
  ASSUME NEW cs, NEW op, NEW Good, NEW k1 \in BOOLEAN, NEW k2 \in BOOLEAN, k1 => k2, Fresh(cs, op, Good, k1)
  PROVE  Fresh(cs, op, Good, k2)
  BY DEF Fresh

LEMMA PanelInit == Init => PanelInv
<1> SUFFICES ASSUME Init PROVE PanelInv
  OBVIOUS
<1> DEFINE f == Fetch("none")
           k == Check("none", FALSE)
<1>1. /\ rows = Stored /\ newest = (IF Versioned THEN AsVersion(Stored) ELSE None) /\ turn = "none"
      /\ shown = Nothing /\ loading = TRUE /\ error = FALSE /\ tab = "todos"
      /\ card = [i \in Id |-> "view"] /\ modal = [on |-> None, saving |-> FALSE]
      /\ snap = [open |-> FALSE, saving |-> FALSE] /\ hasChanges = TRUE /\ calls = {f, k}
      /\ byHand = FALSE /\ excused = FALSE /\ turns = 0 /\ acts = 0 /\ faults = 0
  BY DEF Init
<1>2. /\ f \in ACall /\ f.op = "fetch" /\ f.then = "none" /\ f.got = None /\ f.at = 0 /\ ~f.late
      /\ k \in ACall /\ k.op = "check" /\ k.got = None /\ k.at = 0 /\ ~k.late
  BY DEF Fetch, Check, ACall, FetchCall, CheckCall
<1> HIDE DEF f, k
<1>3. PanelTypes
  <2>1. /\ Stored \in [Id -> Content \cup {None, Gone}] /\ Stored \in Lists /\ Nothing \in Lists
        /\ AsVersion(Stored) \in Lists
    BY VersionType DEF Lists, Nothing
  <2>2. rows \in [Id -> Content \cup {None, Gone}] /\ newest \in Lists \cup {None} /\ shown \in Lists
    BY <1>1, <2>1
  <2>3. card \in [Id -> {"view", "confirm", "hidden"}] /\ modal \in [on : Id \cup {None, New}, saving : BOOLEAN]
        /\ snap \in [open : BOOLEAN, saving : BOOLEAN]
    BY <1>1
  <2>4. turns \in 0 .. MaxTurns /\ acts \in 0 .. MaxActs /\ faults \in 0 .. MaxFaults /\ tab \in Tab
    BY <1>1
  <2>5. /\ loading \in BOOLEAN /\ error \in BOOLEAN /\ hasChanges \in BOOLEAN
        /\ byHand \in BOOLEAN /\ excused \in BOOLEAN /\ turn \in {"none", "streamed", "cut"}
    BY <1>1
  <2> QED BY <2>2, <2>3, <2>4, <2>5 DEF PanelTypes
<1>4. CallsInv
  <2>1. Reads(calls) = {}
    BY <1>1, <1>2 DEF Reads
  <2>2. InPlace(calls)
    BY <1>1, <1>2, <2>1, FS_EmptySet DEF InPlace
  <2> QED BY <1>1, <1>2, <2>2 DEF CallsInv
<1>5. FetchInv /\ CheckInv
  BY <1>1, <1>2 DEF FetchInv, CheckInv, Fresh
<1>6. SavingInv
  BY <1>1, <1>2 DEF SavingInv, Saving
<1>7. TurnInv /\ HiddenCardIsDeleted
  BY <1>1 DEF TurnInv, HiddenCardIsDeleted
<1> QED BY <1>3, <1>4, <1>5, <1>6, <1>7 DEF PanelInv

\* A step that changes what the page shows of itself.
LEMMA QuietStep ==
  ASSUME PanelInv, PanelTypes', HiddenCardIsDeleted', modal'.saving = modal.saving,
         UNCHANGED <<server, shown, error, hasChanges, calls, byHand, excused>>
  PROVE  PanelInv'
<1>1. CallsInv' /\ TurnInv'
  BY DEF PanelInv, CallsInv, TurnInv, server
<1>2. FetchInv' /\ CheckInv'
  <2>1. Listing' = Listing
    BY DEF Listing, server
  <2>2. NextVersion' = NextVersion /\ Right' = Right
    BY <2>1, VersionFollows DEF Right, server
  <2> QED BY <2>1, <2>2 DEF PanelInv, FetchInv, CheckInv, server
<1>3. SavingInv'
  BY DEF PanelInv, SavingInv
<1> QED BY <1>1, <1>2, <1>3 DEF PanelInv

\* A step in which calls begin and end, and no read is answered.
LEMMA CallStep ==
  ASSUME PanelInv, PanelTypes', TurnInv', SavingInv', HiddenCardIsDeleted',
         NEW Ended, \A c \in Ended : c.op \notin Read,
         NEW Begun, Begun \subseteq ACall,
         \A c \in Begun : c.op \in Read => c.got = None /\ c.at = 0 /\ ~c.late,
         calls' = (calls \ Ended) \cup Begun,
         (turn' = "none" /\ ~error' /\ ~excused') =>
            \/ turn = "none" /\ ~error /\ ~excused /\ Listing' = Listing /\ shown' = shown
            \/ \E c \in Begun : c.op = "fetch",
         (turn' = "none" /\ ~excused' /\ ~byHand') =>
            \/ /\ turn = "none" /\ ~excused /\ ~byHand
               /\ Listing' = Listing /\ newest' = newest /\ hasChanges' = hasChanges
            \/ newest' = NextVersion'
            \/ \E c \in Begun : c.op = "check"
  PROVE  PanelInv'
<1>1. PICK cs : cs = calls
  OBVIOUS
<1>2. PICK ds : ds = calls'
  OBVIOUS
<1>3. /\ ds \subseteq ACall /\ InPlace(ds)
      /\ \A op \in Read : \A Good, known : Fresh(cs, op, Good, known) => Fresh(ds, op, Good, known)
      /\ \A op \in Read : \A Good, known : (\E c \in Begun : c.op = op) => Fresh(ds, op, Good, known)
  BY <1>1, <1>2, KeptReads DEF PanelInv, CallsInv
<1>4. CallsInv'
  BY <1>2, <1>3 DEF CallsInv
<1>5. FetchInv'
  <2> SUFFICES ASSUME turn' = "none", ~error', ~excused'
               PROVE  Fresh(ds, "fetch", {Listing'}, shown' = Listing')
    BY <1>2 DEF FetchInv
  <2>1. "fetch" \in Read
    BY DEF Read
  <2>2. CASE turn = "none" /\ ~error /\ ~excused /\ Listing' = Listing /\ shown' = shown
    <3>1. Fresh(cs, "fetch", {Listing'}, shown' = Listing')
      BY <1>1, <2>2 DEF PanelInv, FetchInv
    <3> QED BY <1>3, <2>1, <3>1
  <2>3. CASE \E c \in Begun : c.op = "fetch"
    BY <1>3, <2>1, <2>3
  <2> QED BY <2>2, <2>3
<1>6. CheckInv'
  <2> SUFFICES ASSUME turn' = "none", ~excused', ~byHand'
               PROVE  Fresh(ds, "check", Right', hasChanges' \/ newest' = NextVersion')
    BY <1>2 DEF CheckInv
  <2>1. "check" \in Read
    BY DEF Read
  <2>2. CASE turn = "none" /\ ~excused /\ ~byHand /\ Listing' = Listing /\ newest' = newest /\ hasChanges' = hasChanges
    <3>1. NextVersion' = NextVersion /\ Right' = Right
      BY <2>2, VersionFollows DEF Right
    <3>2. Fresh(cs, "check", Right', hasChanges' \/ newest' = NextVersion')
      BY <1>1, <2>2, <3>1 DEF PanelInv, CheckInv
    <3> QED BY <1>3, <2>1, <3>2
  <2>3. CASE newest' = NextVersion'
    <3>1. Right' = {"yes", "no"} /\ (hasChanges' \/ newest' = NextVersion') = TRUE
      BY <2>3 DEF Right
    <3> QED BY <1>3, <3>1, AllRight
  <2>4. CASE \E c \in Begun : c.op = "check"
    BY <1>3, <2>1, <2>4
  <2> QED BY <2>2, <2>3, <2>4
<1> QED BY <1>4, <1>5, <1>6 DEF PanelInv

\* The same, where the portfolio and the list stay as they are.
LEMMA PlainCallStep ==
  ASSUME PanelInv, PanelTypes', TurnInv', SavingInv', HiddenCardIsDeleted',
         NEW Ended, \A c \in Ended : c.op \notin Read,
         NEW Begun, Begun \subseteq ACall,
         \A c \in Begun : c.op \in Read => c.got = None /\ c.at = 0 /\ ~c.late,
         calls' = (calls \ Ended) \cup Begun,
         UNCHANGED <<rows, newest, turn, shown, error, hasChanges>>,
         excused => excused', byHand => byHand'
  PROVE  PanelInv'
<1>1. Listing' = Listing
  BY DEF Listing
<1> QED BY <1>1, CallStep

\* A card that is built anew is in view.
LEMMA CardsRebuilt ==
  ASSUME PanelTypes, NEW s, NEW t
  PROVE  /\ CardsAfter(s, t) \in [Id -> {"view", "confirm", "hidden"}]
         /\ \A i \in Id : CardsAfter(s, t)[i] = "hidden" => card[i] = "hidden"
  BY DEF PanelTypes, CardsAfter

\* A card stays hidden for its deletion.
LEMMA HiddenKept ==
  ASSUME HiddenCardIsDeleted, \A i \in Id : card'[i] = "hidden" => card[i] = "hidden",
         \A i \in Id : Delete(i) \in calls => Delete(i) \in calls' \/ rows'[i] = Gone,
         \A i \in Id : rows[i] = Gone => rows'[i] = Gone
  PROVE  HiddenCardIsDeleted'
  BY DEF HiddenCardIsDeleted, Delete

\* Types are kept by what a step leaves, part by part.
ServerTypes == /\ rows \in [Id -> Content \cup {None, Gone}] /\ newest \in Lists \cup {None}
               /\ turn \in {"none", "streamed", "cut"}
ListTypes == shown \in Lists /\ loading \in BOOLEAN /\ error \in BOOLEAN
FormTypes == /\ tab \in Tab /\ card \in [Id -> {"view", "confirm", "hidden"}]
             /\ modal \in [on : Id \cup {None, New}, saving : BOOLEAN]
             /\ snap \in [open : BOOLEAN, saving : BOOLEAN]
FlagTypes == hasChanges \in BOOLEAN /\ byHand \in BOOLEAN /\ excused \in BOOLEAN
SpentTypes == turns \in 0 .. MaxTurns /\ acts \in 0 .. MaxActs /\ faults \in 0 .. MaxFaults

LEMMA TypeParts ==
  PanelTypes = (ServerTypes /\ ListTypes /\ FormTypes /\ FlagTypes /\ SpentTypes)
  BY DEF PanelTypes, ServerTypes, ListTypes, FormTypes, FlagTypes, SpentTypes

LEMMA TypePartsNext ==
  ASSUME ServerTypes', ListTypes', FormTypes', FlagTypes', SpentTypes' PROVE PanelTypes'
  BY DEF PanelTypes, ServerTypes, ListTypes, FormTypes, FlagTypes, SpentTypes

\* Counters stay in their bounds.
LEMMA SpentKept ==
  ASSUME PanelTypes,
         \/ UNCHANGED spent
         \/ acts < MaxActs /\ acts' = acts + 1 /\ turns' = turns /\ faults' = faults
         \/ turns < MaxTurns /\ turns' = turns + 1 /\ acts' = acts /\ faults' = faults
         \/ Fault /\ turns' = turns /\ acts' = acts
  PROVE  SpentTypes'
<1>1. turns \in 0 .. MaxTurns /\ acts \in 0 .. MaxActs /\ faults \in 0 .. MaxFaults
  BY DEF PanelTypes
<1>2. MaxTurns \in Nat /\ MaxActs \in Nat /\ MaxFaults \in Nat
  OBVIOUS
<1> QED BY <1>1, <1>2 DEF SpentTypes, spent, Fault

LEMMA SetTabStep ==
  ASSUME PanelInv, NEW t \in Tab, SetTab(t) PROVE PanelInv'
<1>1. /\ UNCHANGED <<server, list, modal, snap, hasChanges, calls, byHand, excused, spent>>
      /\ tab' = t /\ card' = CardsAfter(shown, t)
  BY DEF SetTab
<1>2. PanelTypes
  BY DEF PanelInv
<1>3. PanelTypes'
  BY <1>1, <1>2, CardsRebuilt DEF PanelTypes, server, list, spent
<1>4. HiddenCardIsDeleted'
  BY <1>1, <1>2, CardsRebuilt, HiddenKept DEF PanelInv, server
<1> QED BY <1>1, <1>3, <1>4, QuietStep DEF list

\* The modals open and close, and a card asks or asks no longer.
LEMMA ScreenStep ==
  ASSUME PanelInv,
         \/ \E on \in Id \cup {New} : OpenModal(on)
         \/ PressClose \/ OpenSnapshot \/ CloseSnapshot
         \/ \E i \in Id : AskDelete(i)
  PROVE  PanelInv'
<1>1. UNCHANGED <<server, list, tab, hasChanges, calls, byHand, excused, spent>>
  BY DEF OpenModal, PressClose, OpenSnapshot, CloseSnapshot, AskDelete
<1>2. PanelTypes
  BY DEF PanelInv
<1>3. modal \in [on : Id \cup {None, New}, saving : BOOLEAN] /\ snap \in [open : BOOLEAN, saving : BOOLEAN]
      /\ card \in [Id -> {"view", "confirm", "hidden"}]
  BY <1>2 DEF PanelTypes
<1>4. /\ modal' \in [on : Id \cup {None, New}, saving : BOOLEAN] /\ modal'.saving = modal.saving
      /\ snap' \in [open : BOOLEAN, saving : BOOLEAN]
      /\ card' \in [Id -> {"view", "confirm", "hidden"}]
      /\ \A i \in Id : card'[i] = "hidden" => card[i] = "hidden"
  <2>1. CASE \E on \in Id \cup {New} : OpenModal(on)
    <3>1. PICK on \in Id \cup {New} : OpenModal(on)
      BY <2>1
    <3> QED BY <1>3, <3>1 DEF OpenModal
  <2>2. CASE PressClose
    BY <1>3, <2>2 DEF PressClose, CloseModal
  <2>3. CASE OpenSnapshot \/ CloseSnapshot
    BY <1>3, <2>3 DEF OpenSnapshot, CloseSnapshot
  <2>4. CASE \E i \in Id : AskDelete(i)
    <3>1. PICK i \in Id : AskDelete(i)
      BY <2>4
    <3>2. PICK v \in {"view", "confirm"} : card' = [card EXCEPT ![i] = v]
      BY <3>1 DEF AskDelete
    <3>3. UNCHANGED <<modal, snap>>
      BY <3>1 DEF AskDelete
    <3> QED BY <1>3, <3>2, <3>3
  <2> QED BY <2>1, <2>2, <2>3, <2>4
<1>5. PanelTypes'
  BY <1>1, <1>2, <1>4 DEF PanelTypes, server, list, spent
<1>6. HiddenCardIsDeleted'
  BY <1>1, <1>4, HiddenKept DEF PanelInv, server
<1> QED BY <1>1, <1>4, <1>5, <1>6, QuietStep DEF list

\* No save begins or ends.
LEMMA SavingKept ==
  ASSUME SavingInv, Saving(calls') \subseteq Saving(calls), modal'.saving = modal.saving
  PROVE  SavingInv'
  BY DEF SavingInv

LEMMA TurnKept ==
  ASSUME TurnInv, turn' = turn, excused => excused' PROVE TurnInv'
  BY DEF TurnInv

LEMMA PressSaveStep ==
  ASSUME PanelInv, NEW v \in Content, PressSave(v) PROVE PanelInv'
<1> DEFINE new == Save(modal.on, v)
<1>1. /\ modal.on # None /\ ~modal.saving /\ v \in Complete
      /\ modal' = [modal EXCEPT !.saving = TRUE] /\ calls' = calls \cup {new}
      /\ acts < MaxActs /\ acts' = acts + 1
      /\ UNCHANGED <<server, list, tab, card, snap, hasChanges, byHand, excused, turns, faults>>
  BY DEF PressSave, Act
<1>2. PanelTypes
  BY DEF PanelInv
<1>3. new \in ACall /\ new.op = "save"
  BY <1>1, <1>2 DEF PanelTypes, Save, ACall, SaveCall
<1> HIDE DEF new
<1>4. modal' \in [on : Id \cup {None, New}, saving : BOOLEAN] /\ modal'.saving = TRUE
  BY <1>1, <1>2 DEF PanelTypes
<1>5. SpentTypes'
  BY <1>1, <1>2, SpentKept
<1>6. PanelTypes'
  BY <1>1, <1>2, <1>4, <1>5 DEF PanelTypes, SpentTypes, server, list
<1>7. SavingInv'
  <2>1. Saving(calls) = {}
    BY <1>1 DEF PanelInv, SavingInv
  <2>2. Saving(calls') = {new}
    BY <1>1, <1>3, <2>1 DEF Saving
  <2> QED BY <1>4, <2>2 DEF SavingInv
<1>8. TurnInv' /\ HiddenCardIsDeleted'
  BY <1>1, TurnKept, HiddenKept DEF PanelInv, server
<1>9. PICK B : B = {new}
  OBVIOUS
<1>10. PICK E : E = {}
  OBVIOUS
<1>11. calls' = (calls \ E) \cup B /\ B \subseteq ACall /\ \A c \in B : c.op \notin Read
  BY <1>1, <1>3, <1>9, <1>10 DEF Read
<1>12. UNCHANGED <<rows, newest, turn, shown, error, hasChanges, excused, byHand>>
  BY <1>1 DEF server, list
<1>13. \A c \in E : c.op \notin Read
  BY <1>10
<1> QED BY <1>6, <1>7, <1>8, <1>11, <1>12, <1>13, PlainCallStep

LEMMA PressDeleteStep ==
  ASSUME PanelInv, NEW i \in Id, PressDelete(i) PROVE PanelInv'
<1> DEFINE new == Delete(i)
<1>1. /\ card' = [card EXCEPT ![i] = "hidden"] /\ calls' = calls \cup {new}
      /\ acts < MaxActs /\ acts' = acts + 1
      /\ UNCHANGED <<server, list, tab, modal, snap, hasChanges, byHand, excused, turns, faults>>
  BY DEF PressDelete, Act
<1>2. PanelTypes
  BY DEF PanelInv
<1>3. new \in ACall /\ new.op = "delete"
  BY DEF Delete, ACall, DeleteCall
<1>4. HiddenCardIsDeleted'
  BY <1>1, <1>2 DEF PanelInv, PanelTypes, HiddenCardIsDeleted, server, Delete
<1> HIDE DEF new
<1>5. SpentTypes'
  BY <1>1, <1>2, SpentKept
<1>6. PanelTypes'
  BY <1>1, <1>2, <1>5 DEF PanelTypes, SpentTypes, server, list
<1>7. SavingInv'
  <2>1. Saving(calls') \subseteq Saving(calls)
    BY <1>1, <1>3 DEF Saving
  <2> QED BY <1>1, <2>1, SavingKept DEF PanelInv
<1>8. TurnInv'
  BY <1>1, TurnKept DEF PanelInv, server
<1>9. PICK B : B = {new}
  OBVIOUS
<1>10. PICK E : E = {}
  OBVIOUS
<1>11. calls' = (calls \ E) \cup B /\ B \subseteq ACall /\ \A c \in B : c.op \notin Read
  BY <1>1, <1>3, <1>9, <1>10 DEF Read
<1>12. UNCHANGED <<rows, newest, turn, shown, error, hasChanges, excused, byHand>>
  BY <1>1 DEF server, list
<1>13. \A c \in E : c.op \notin Read
  BY <1>10
<1> QED BY <1>4, <1>6, <1>7, <1>8, <1>11, <1>12, <1>13, PlainCallStep

LEMMA PressSnapshotStep ==
  ASSUME PanelInv, PressSnapshot PROVE PanelInv'
<1> DEFINE new == Snapshot(TRUE)
<1>1. /\ snap' = [snap EXCEPT !.saving = TRUE] /\ calls' = calls \cup {new}
      /\ acts < MaxActs /\ acts' = acts + 1
      /\ UNCHANGED <<server, list, tab, card, modal, hasChanges, byHand, excused, turns, faults>>
  BY DEF PressSnapshot, Act
<1>2. PanelTypes
  BY DEF PanelInv
<1>3. new \in ACall /\ new.op = "snapshot"
  BY DEF Snapshot, ACall, SnapCall
<1> HIDE DEF new
<1>4. HiddenCardIsDeleted'
  BY <1>1, HiddenKept DEF PanelInv, server
<1>5. SpentTypes'
  BY <1>1, <1>2, SpentKept
<1>6. PanelTypes'
  BY <1>1, <1>2, <1>5 DEF PanelTypes, SpentTypes, server, list
<1>7. SavingInv'
  <2>1. Saving(calls') \subseteq Saving(calls)
    BY <1>1, <1>3 DEF Saving
  <2> QED BY <1>1, <2>1, SavingKept DEF PanelInv
<1>8. TurnInv'
  BY <1>1, TurnKept DEF PanelInv, server
<1>9. PICK B : B = {new}
  OBVIOUS
<1>10. PICK E : E = {}
  OBVIOUS
<1>11. calls' = (calls \ E) \cup B /\ B \subseteq ACall /\ \A c \in B : c.op \notin Read
  BY <1>1, <1>3, <1>9, <1>10 DEF Read
<1>12. UNCHANGED <<rows, newest, turn, shown, error, hasChanges, excused, byHand>>
  BY <1>1 DEF server, list
<1>13. \A c \in E : c.op \notin Read
  BY <1>10
<1> QED BY <1>4, <1>6, <1>7, <1>8, <1>11, <1>12, <1>13, PlainCallStep

LEMMA ClientStep ==
  ASSUME PanelInv, Client PROVE PanelInv'
  BY SetTabStep, ScreenStep, PressSaveStep, PressDeleteStep, PressSnapshotStep DEF Client

\* The agent's turn.
LEMMA AgentStep ==
  ASSUME PanelInv, Agent PROVE PanelInv'
<1>1. PanelTypes
  BY DEF PanelInv
<1>2. ASSUME turn' # "none", calls' = calls, PanelTypes', TurnInv', HiddenCardIsDeleted', modal' = modal
      PROVE  PanelInv'
  BY <1>2 DEF PanelInv, CallsInv, FetchInv, CheckInv, SavingInv
<1>3. CASE StartTurn
  <2>1. /\ turns < MaxTurns /\ turns' = turns + 1 /\ turn' = "streamed"
        /\ UNCHANGED <<rows, newest, list, tab, forms, hasChanges, calls, byHand, excused, acts, faults>>
    BY <1>3 DEF StartTurn
  <2>2. SpentTypes'
    BY <1>1, <2>1, SpentKept
  <2>3. PanelTypes'
    BY <1>1, <2>1, <2>2 DEF PanelTypes, SpentTypes, list, forms
  <2>4. HiddenCardIsDeleted'
    BY <2>1, HiddenKept DEF PanelInv, forms
  <2> QED BY <1>2, <2>1, <2>3, <2>4 DEF TurnInv, forms
<1>4. CASE \E i \in Id, v \in Content \cup {Gone} : AgentEdits(i, v)
  <2>1. PICK i \in Id, v \in Content \cup {Gone} : AgentEdits(i, v)
    BY <1>4
  <2>2. /\ acts < MaxActs /\ acts' = acts + 1 /\ turn # "none" /\ rows[i] # Gone
        /\ rows' = [rows EXCEPT ![i] = v]
        /\ UNCHANGED <<newest, turn, list, tab, forms, hasChanges, calls, byHand, excused, turns, faults>>
    BY <2>1 DEF AgentEdits
  <2>3. SpentTypes'
    BY <1>1, <2>2, SpentKept
  <2>4. rows' \in [Id -> Content \cup {None, Gone}] /\ \A j \in Id : rows[j] = Gone => rows'[j] = Gone
    BY <1>1, <2>2 DEF PanelTypes
  <2>5. PanelTypes'
    BY <1>1, <2>2, <2>3, <2>4 DEF PanelTypes, SpentTypes, list, forms
  <2>6. HiddenCardIsDeleted' /\ TurnInv'
    BY <2>2, <2>4, HiddenKept, TurnKept DEF PanelInv, forms
  <2> QED BY <1>2, <2>2, <2>5, <2>6 DEF forms
<1>5. CASE \E cut \in BOOLEAN : EndTurn(cut)
  <2> DEFINE f == Fetch("none")
             k == Check("none", FALSE)
  <2>1. PICK cut \in BOOLEAN : EndTurn(cut)
    BY <1>5
  <2>2. /\ error' = FALSE /\ calls' = calls \cup {f, k}
        /\ \/ faults < MaxFaults /\ faults' = faults + 1 /\ turn' = "cut" /\ excused' = TRUE
           \/ turn' = "none" /\ UNCHANGED <<faults, excused>>
        /\ UNCHANGED <<rows, newest, shown, loading, tab, forms, hasChanges, byHand, turns, acts>>
    BY <2>1 DEF EndTurn, RefetchEvent
  <2>3. /\ f \in ACall /\ f.op = "fetch" /\ f.then = "none" /\ f.got = None /\ f.at = 0 /\ ~f.late
        /\ k \in ACall /\ k.op = "check" /\ k.got = None /\ k.at = 0 /\ ~k.late
    BY DEF Fetch, Check, ACall, FetchCall, CheckCall
  <2> HIDE DEF f, k
  <2>4. SpentTypes'
    BY <1>1, <2>2, SpentKept DEF Fault, spent
  <2>5. turn' \in {"none", "streamed", "cut"} /\ excused' \in BOOLEAN
    BY <1>1, <2>2 DEF PanelTypes
  <2>6. PanelTypes'
    BY <1>1, <2>2, <2>4, <2>5 DEF PanelTypes, SpentTypes, forms
  <2>7. SavingInv'
    <3>1. Saving(calls') \subseteq Saving(calls)
      BY <2>2, <2>3 DEF Saving
    <3> QED BY <2>2, <3>1, SavingKept DEF PanelInv, forms
  <2>8. HiddenCardIsDeleted'
    BY <2>2, HiddenKept DEF PanelInv, forms
  <2>9. TurnInv'
    BY <2>2 DEF TurnInv
  <2>10. PICK B : B = {f, k}
    OBVIOUS
  <2>11. PICK E : E = {}
    OBVIOUS
  <2>12. calls' = (calls \ E) \cup B /\ B \subseteq ACall /\ \A c \in E : c.op \notin Read
    BY <2>2, <2>3, <2>10, <2>11
  <2>13. \A c \in B : c.op \in Read => c.got = None /\ c.at = 0 /\ ~c.late
    BY <2>3, <2>10
  <2>14. (\E c \in B : c.op = "fetch") /\ (\E c \in B : c.op = "check")
    BY <2>3, <2>10
  <2> QED BY <2>6, <2>7, <2>8, <2>9, <2>12, <2>13, <2>14, CallStep
<1>6. CASE EndCutTurn
  <2>1. /\ turn = "cut" /\ turn' = "none"
        /\ UNCHANGED <<rows, newest, list, tab, forms, hasChanges, calls, byHand, excused, spent>>
    BY <1>6 DEF EndCutTurn
  <2>2. excused'
    BY <2>1 DEF PanelInv, TurnInv
  <2>3. PanelTypes'
    BY <1>1, <2>1 DEF PanelTypes, list, forms, spent
  <2>4. HiddenCardIsDeleted'
    BY <2>1, HiddenKept DEF PanelInv, forms
  <2> QED BY <2>1, <2>2, <2>3, <2>4 DEF PanelInv, CallsInv, TurnInv, FetchInv, CheckInv, SavingInv, forms
<1> QED BY <1>3, <1>4, <1>5, <1>6 DEF Agent

\* A call that reads nothing ends.
LEMMA EndStep ==
  ASSUME PanelInv, PanelTypes', TurnInv', SavingInv', HiddenCardIsDeleted',
         NEW c, c.op \notin Read, calls' = calls \ {c},
         UNCHANGED <<turn, shown, error, hasChanges>>, excused => excused', byHand => byHand',
         excused' \/ (rows' = rows /\ (newest' = newest \/ newest' = NextVersion'))
  PROVE  PanelInv'
<1>1. PICK B : B = {}
  OBVIOUS
<1>2. PICK E : E = {c}
  OBVIOUS
<1>3. /\ calls' = (calls \ E) \cup B /\ B \subseteq ACall
      /\ \A d \in E : d.op \notin Read
      /\ \A d \in B : d.op \in Read => d.got = None /\ d.at = 0 /\ ~d.late
  BY <1>1, <1>2
<1>4. rows' = rows => Listing' = Listing
  BY DEF Listing
<1> QED BY <1>3, <1>4, CallStep

\* A read is answered or fails, and the others move up.
LEMMA LandStep ==
  ASSUME PanelInv, PanelTypes', NEW c \in calls, c.op \in Read,
         calls' = Overtaken(c) \/ calls' = Detached(Overtaken(c)),
         UNCHANGED <<rows, newest, turn, byHand>>, excused => excused',
         \A i \in Id : card'[i] = "hidden" => card[i] = "hidden",
         ~(c.op = "fetch" /\ c.then = "modal") => modal'.saving = modal.saving,
         (~error' /\ ~excused') =>
            /\ ~error
            /\ c.op = "fetch" => c \in Reads(calls) /\ ~c.late /\ (c.got = Listing => shown' = Listing)
            /\ c.op # "fetch" => shown' = shown,
         ~excused' =>
            /\ c.op = "check" =>
                 \/ c \in Reads(calls) /\ ~c.late /\ (c.got \in Right => hasChanges' \/ newest = NextVersion)
                 \/ hasChanges' /\ \A d \in calls \ {c} : d.op # "check"
            /\ c.op # "check" => hasChanges' = hasChanges
  PROVE  PanelInv'
<1>1. PICK cs : cs = calls
  OBVIOUS
<1>2. PICK ds : ds = calls'
  OBVIOUS
<1>3. PICK F : Landed(cs, c, F, ds)
  BY <1>1, <1>2, Lands DEF PanelInv
<1>4. Listing' = Listing /\ NextVersion' = NextVersion /\ Right' = Right
  <2>1. Listing' = Listing
    BY DEF Listing
  <2> QED BY <2>1, VersionFollows DEF Right
<1>5. CallsInv'
  BY <1>2, <1>3, LandedPlaces DEF CallsInv
<1>6. TurnInv'
  BY TurnKept DEF PanelInv
<1>7. HiddenCardIsDeleted'
  <2>1. \A i \in Id : Delete(i) \in calls => Delete(i) \in calls'
    BY <1>1, <1>2, <1>3, LandedDeletes
  <2> QED BY <2>1, HiddenKept DEF PanelInv
<1>8. SavingInv'
  <2>1. /\ \A a, b \in Saving(ds) : a = b
        /\ Saving(ds) # {} => Saving(cs) # {} /\ ~(c.op = "fetch" /\ c.then = "modal")
    BY <1>1, <1>3, LandedSaving DEF PanelInv, SavingInv
  <2> QED BY <1>1, <1>2, <2>1 DEF PanelInv, SavingInv
<1>9. FetchInv'
  <2> SUFFICES ASSUME turn = "none", ~error', ~excused'
               PROVE  Fresh(ds, "fetch", {Listing}, shown' = Listing)
    BY <1>2, <1>4 DEF FetchInv
  <2>1. PICK G : G = {Listing}
    OBVIOUS
  <2>2. PICK k \in BOOLEAN : k = (shown = Listing)
    OBVIOUS
  <2>3. PICK n \in BOOLEAN : n = (shown' = Listing)
    OBVIOUS
  <2>4. Fresh(cs, "fetch", G, k)
    BY <1>1, <2>1, <2>2 DEF PanelInv, FetchInv
  <2>5. None \notin G /\ "fetch" \in Read
    BY <2>1, ListingType DEF Read
  <2>6. c.op = "fetch" => c \in Reads(cs) /\ ~c.late /\ (c.got \in G => n)
    BY <1>1, <2>1, <2>3
  <2>7. c.op # "fetch" => (k => n)
    BY <2>2, <2>3
  <2>8. Fresh(ds, "fetch", G, n)
    BY <1>3, <2>4, <2>5, <2>6, <2>7, LandedFresh
  <2> QED BY <2>1, <2>3, <2>8
<1>10. CheckInv'
  <2> SUFFICES ASSUME turn = "none", ~excused', ~byHand
               PROVE  Fresh(ds, "check", Right, hasChanges' \/ newest = NextVersion)
    BY <1>2, <1>4 DEF CheckInv
  <2>1. PICK G : G = Right
    OBVIOUS
  <2>2. PICK k \in BOOLEAN : k = (hasChanges \/ newest = NextVersion)
    BY Zenon
  <2>3. PICK n \in BOOLEAN : n = (hasChanges' \/ newest = NextVersion)
    BY Zenon
  <2>4. Fresh(cs, "check", G, k)
    <3>1. Fresh(cs, "check", G, hasChanges \/ newest = NextVersion)
      BY <1>1, <2>1 DEF PanelInv, CheckInv
    <3> QED BY <2>2, <3>1
  <2>5. None \notin G /\ "check" \in Read
    BY <2>1 DEF Read, Right
  <2>6. CASE c.op = "check" /\ hasChanges' /\ \A d \in calls \ {c} : d.op # "check"
    <3>1. \A d \in cs \ {c} : F[d].op = d.op
      BY <1>3 DEF Landed, Moved
    <3>2. \A e \in ds : e.op # "check"
      BY <1>1, <1>3, <2>6, <3>1 DEF Landed
    <3>3. n
      BY <2>3, <2>6
    <3>4. Fresh(ds, "check", G, n)
      BY <3>2, <3>3 DEF Fresh, Reads
    <3> QED BY <2>1, <2>3, <3>4
  <2>7. CASE ~(c.op = "check" /\ hasChanges' /\ \A d \in calls \ {c} : d.op # "check")
    <3>1. c.op = "check" => c \in Reads(cs) /\ ~c.late /\ (c.got \in G => n)
      BY <1>1, <2>1, <2>3, <2>7
    <3>2. c.op # "check" => (k => n)
      BY <2>2, <2>3
    <3>3. Fresh(ds, "check", G, n)
      BY <1>3, <2>4, <2>5, <3>1, <3>2, LandedFresh
    <3> QED BY <2>1, <2>3, <3>3
  <2> QED BY <2>6, <2>7
<1> QED BY <1>5, <1>6, <1>7, <1>8, <1>9, <1>10 DEF PanelInv

LEMMA ServeStep ==
  ASSUME PanelInv, NEW c \in calls, Serve(c) PROVE PanelInv'
<1> DEFINE e == [c EXCEPT !.at = Cardinality(Served) + 1,
                          !.got = IF c.op = "fetch" THEN Listing
                                  ELSE IF Unchanged THEN "no" ELSE "yes"]
<1>1. /\ c.op \in Read /\ c.got = None /\ calls' = (calls \ {c}) \cup {e}
      /\ byHand' = (byHand /\ c.op = "fetch")
      /\ UNCHANGED <<server, list, tab, forms, hasChanges, excused, spent>>
  BY DEF Serve, Read
<1>2. PanelTypes /\ CallsInv
  BY DEF PanelInv
<1>3. c \in FetchCall \cup CheckCall /\ ~c.late
  BY <1>1, <1>2, ReadFields DEF CallsInv, InPlace, Read
<1>4. PICK n \in Nat : n = Cardinality(Reads(calls))
  BY <1>2, FS_CardinalityType DEF CallsInv, InPlace
<1>5. Cardinality(Served) = n
  BY <1>4 DEF Served, Reads, Read
<1>6. /\ e \in ACall /\ e.op = c.op /\ e.got # None /\ ~e.late /\ e.at = n + 1
      /\ c.op = "fetch" => e.got = Listing /\ e.then = c.then
      /\ c.op = "check" => e.got \in Right
  <2>1. CASE c \in FetchCall
    <3>1. e = [c EXCEPT !.at = n + 1, !.got = Listing]
      BY <1>5, <2>1 DEF FetchCall
    <3> HIDE DEF e
    <3>2. e \in FetchCall
      <4>1. e = [op |-> "fetch", then |-> c.then, got |-> Listing, at |-> n + 1, late |-> c.late]
        BY <2>1, <3>1 DEF FetchCall
      <4>2. c.then \in {"none", "modal"} /\ c.late \in BOOLEAN /\ n + 1 \in Nat
        BY <2>1 DEF FetchCall
      <4> QED BY <4>1, <4>2, ListingType DEF FetchCall
    <3>3. e.op = "fetch" /\ e.got = Listing /\ e.late = c.late /\ e.at = n + 1 /\ e.then = c.then /\ c.op = "fetch"
      BY <2>1, <3>1 DEF FetchCall
    <3>4. Listing # None
      BY ListingType
    <3> QED BY <1>3, <3>2, <3>3, <3>4 DEF ACall
  <2>2. CASE c \in CheckCall
    <3>1. PICK g \in {"yes", "no"} : g = IF Unchanged THEN "no" ELSE "yes"
      OBVIOUS
    <3>2. e = [c EXCEPT !.at = n + 1, !.got = g]
      BY <1>5, <2>2, <3>1 DEF CheckCall
    <3>3. g \in Right
      BY <3>1 DEF Right, Unchanged
    <3> HIDE DEF e
    <3>4. e \in CheckCall
      <4>1. e = [op |-> "check", then |-> c.then, live |-> c.live, got |-> g, at |-> n + 1, late |-> c.late]
        BY <2>2, <3>2 DEF CheckCall
      <4>2. c.then \in {"none", "snap"} /\ c.live \in BOOLEAN /\ c.late \in BOOLEAN /\ n + 1 \in Nat
        BY <2>2 DEF CheckCall
      <4> QED BY <4>1, <4>2 DEF CheckCall
    <3>5. e.op = "check" /\ e.got = g /\ e.late = c.late /\ e.at = n + 1 /\ c.op = "check"
      BY <2>2, <3>2 DEF CheckCall
    <3>6. g # None
      OBVIOUS
    <3> QED BY <1>3, <3>3, <3>4, <3>5, <3>6 DEF ACall
  <2> QED BY <1>3, <2>1, <2>2
<1> HIDE DEF e
<1>7. PICK ds : ds = calls'
  OBVIOUS
<1>8. PICK cs : cs = calls
  OBVIOUS
<1>9. PICK x : x = e
  OBVIOUS
<1>10. ds \subseteq ACall /\ InPlace(ds) /\ StaysFresh(cs, ds, x)
  <2>1. cs \subseteq ACall /\ InPlace(cs) /\ c \in cs /\ c.op \in Read /\ c.got = None
    BY <1>1, <1>2, <1>8 DEF CallsInv
  <2>2. x \in ACall /\ x.op = c.op /\ x.got # None /\ ~x.late
    BY <1>6, <1>9
  <2>3. x.at = Cardinality(Reads(cs)) + 1
    BY <1>4, <1>6, <1>8, <1>9
  <2>4. ds = (cs \ {c}) \cup {x}
    BY <1>1, <1>7, <1>8, <1>9
  <2> QED BY <2>1, <2>2, <2>3, <2>4, ServedReads
<1>11. PanelTypes'
  <2>1. byHand' \in BOOLEAN
    BY <1>1
  <2>2. UNCHANGED <<rows, newest, turn, shown, loading, error, tab, card, modal, snap, hasChanges, excused, turns, acts, faults>>
    BY <1>1 DEF server, list, forms, spent
  <2> QED BY <1>2, <2>1, <2>2, Zenon DEF PanelTypes
<1>12. CallsInv' /\ TurnInv' /\ HiddenCardIsDeleted'
  <2>1. \A i \in Id : Delete(i) \in calls => Delete(i) \in calls'
    BY <1>1 DEF Delete, Read
  <2> QED BY <1>1, <1>7, <1>10, <2>1, TurnKept, HiddenKept DEF PanelInv, CallsInv, server, forms
<1>13. SavingInv'
  <2>1. e \in Saving(calls') => c \in Saving(calls)
    BY <1>1, <1>6 DEF Saving, Read
  <2>2. Saving(calls') \subseteq (Saving(calls) \ {c}) \cup {e}
    BY <1>1 DEF Saving
  <2>3. modal' = modal /\ (\A a, b \in Saving(calls) : a = b) /\ (Saving(calls) # {} => modal.saving)
    BY <1>1 DEF PanelInv, SavingInv, forms
  <2> QED BY <2>1, <2>2, <2>3 DEF SavingInv
<1>14. /\ Listing' = Listing /\ NextVersion' = NextVersion /\ Right' = Right
       /\ "fetch" \in Read /\ "check" \in Read
  <2>1. Listing' = Listing
    BY <1>1 DEF Listing, server
  <2> QED BY <1>1, <2>1, VersionFollows DEF Right, server, Read
<1>15. FetchInv'
  <2> SUFFICES ASSUME turn = "none", ~error, ~excused
               PROVE  Fresh(ds, "fetch", {Listing}, shown = Listing)
    BY <1>1, <1>7, <1>14 DEF FetchInv, server, list
  <2>1. Fresh(cs, "fetch", {Listing}, shown = Listing)
    BY <1>8 DEF PanelInv, FetchInv
  <2>2. \A Good, known : IF "fetch" = x.op THEN x.got \in Good => Fresh(ds, "fetch", Good, known)
                          ELSE Fresh(cs, "fetch", Good, known) => Fresh(ds, "fetch", Good, known)
    BY <1>10, <1>14, Zenon DEF StaysFresh
  <2>3. "fetch" = x.op => x.got \in {Listing}
    BY <1>6, <1>9
  <2> QED BY <2>1, <2>2, <2>3, Zenon
<1>16. CheckInv'
  <2> SUFFICES ASSUME turn = "none", ~excused, ~byHand'
               PROVE  Fresh(ds, "check", Right, hasChanges \/ newest = NextVersion)
    BY <1>1, <1>7, <1>14 DEF CheckInv, server
  <2>3. \A Good, known : IF "check" = x.op THEN x.got \in Good => Fresh(ds, "check", Good, known)
                          ELSE Fresh(cs, "check", Good, known) => Fresh(ds, "check", Good, known)
    BY <1>10, <1>14, Zenon DEF StaysFresh
  <2>1. CASE c.op = "check"
    <3>1. "check" = x.op /\ x.got \in Right
      BY <1>6, <1>9, <2>1
    <3> QED BY <2>3, <3>1, Zenon
  <2>2. CASE c.op = "fetch"
    <3>1. Fresh(cs, "check", Right, hasChanges \/ newest = NextVersion)
      BY <1>1, <1>8, <2>2 DEF PanelInv, CheckInv
    <3>2. "check" # x.op
      BY <1>6, <1>9, <2>2
    <3> QED BY <2>3, <3>1, <3>2, Zenon
  <2> QED BY <1>1, <2>1, <2>2 DEF Read
<1> QED BY <1>11, <1>12, <1>13, <1>15, <1>16 DEF PanelInv

LEMMA FetchedStep ==
  ASSUME PanelInv, NEW c \in calls, Fetched(c) \/ FetchFails(c) PROVE PanelInv'
<1> DEFINE s == IF error' /\ ~error THEN shown ELSE c.got
<1>1. /\ c.op = "fetch"
      /\ modal' = IF c.then = "modal" THEN [on |-> None, saving |-> FALSE] ELSE modal
      /\ UNCHANGED <<server, tab, hasChanges, byHand, turns, acts>>
  BY DEF Fetched, FetchFails, spent
<1>2. PanelTypes /\ CallsInv
  BY DEF PanelInv
<1>3. c \in FetchCall
  BY <1>1, <1>2, ReadFields DEF CallsInv, Read
<1>4. PICK t : /\ Receive(t, Overtaken(c)) /\ t \in Lists
               /\ \/ /\ c \in Reads(calls) /\ t = c.got
                     /\ error' = error /\ excused' = (excused \/ c.late) /\ UNCHANGED faults
                  \/ error' = TRUE /\ t = shown /\ excused' = excused /\ Fault
  <2>1. CASE Fetched(c)
    <3>1. c \in Reads(calls) /\ c.got # None
      BY <2>1 DEF Fetched, Served, Reads, Read
    <3>2. c.got \in Lists
      BY <1>3, <3>1 DEF FetchCall
    <3> QED BY <2>1, <3>1, <3>2 DEF Fetched, spent
  <2>2. CASE FetchFails(c)
    BY <1>2, <2>2 DEF FetchFails, PanelTypes
  <2> QED BY <2>1, <2>2
<1>5. /\ shown' = t /\ loading' = FALSE /\ card' = CardsAfter(t, tab)
      /\ calls' = Overtaken(c) \/ calls' = Detached(Overtaken(c))
      /\ snap' \in [open : BOOLEAN, saving : BOOLEAN]
  <2>1. shown' = t /\ loading' = FALSE /\ card' = CardsAfter(t, tab)
    BY <1>4 DEF Receive
  <2>2. \/ calls' = Overtaken(c) /\ snap' = snap
        \/ calls' = Detached(Overtaken(c)) /\ snap' = [open |-> FALSE, saving |-> FALSE]
    BY <1>4, Zenon DEF Receive
  <2>3. snap \in [open : BOOLEAN, saving : BOOLEAN]
    BY <1>2 DEF PanelTypes
  <2>4. snap' \in [open : BOOLEAN, saving : BOOLEAN]
    <3>1. [open |-> FALSE, saving |-> FALSE] \in [open : BOOLEAN, saving : BOOLEAN]
      OBVIOUS
    <3> QED BY <2>2, <2>3, <3>1, Zenon
  <2>5. calls' = Overtaken(c) \/ calls' = Detached(Overtaken(c))
    BY <2>2, Zenon
  <2> QED BY <2>1, <2>4, <2>5, Zenon
<1>6. \A i \in Id : card'[i] = "hidden" => card[i] = "hidden"
  BY <1>2, <1>5, CardsRebuilt
<1>7. card' \in [Id -> {"view", "confirm", "hidden"}]
  BY <1>2, <1>5, CardsRebuilt
<1>8. /\ modal' \in [on : Id \cup {None, New}, saving : BOOLEAN]
      /\ ~(c.op = "fetch" /\ c.then = "modal") => modal'.saving = modal.saving
  BY <1>1, <1>2 DEF PanelTypes
<1>9. error' \in BOOLEAN /\ excused' \in BOOLEAN
  BY <1>2, <1>3, <1>4 DEF PanelTypes, FetchCall
<1>10. SpentTypes'
  BY <1>1, <1>2, <1>4, SpentKept DEF spent
<1>11. PanelTypes'
  <2>1. ServerTypes' /\ ListTypes' /\ FormTypes' /\ FlagTypes'
    BY <1>1, <1>2, <1>4, <1>5, <1>7, <1>8, <1>9
       DEF PanelTypes, ServerTypes, ListTypes, FormTypes, FlagTypes, server
  <2> QED BY <1>10, <2>1, TypePartsNext
<1>12. UNCHANGED <<rows, newest, turn, byHand>> /\ hasChanges' = hasChanges /\ (excused => excused')
  <2>1. excused \in BOOLEAN /\ c.late \in BOOLEAN
    BY <1>2, <1>3 DEF PanelTypes, FetchCall
  <2> QED BY <1>1, <1>4, <2>1 DEF server
<1>13. (~error' /\ ~excused') => ~error /\ c \in Reads(calls) /\ ~c.late /\ (c.got = Listing => shown' = Listing)
  BY <1>4, <1>5
<1>14. c.op \in Read /\ c.op # "check"
  BY <1>1 DEF Read
<1> QED BY <1>1, <1>5, <1>6, <1>8, <1>11, <1>12, <1>13, <1>14, LandStep

LEMMA CheckedStep ==
  ASSUME PanelInv, NEW c \in calls, Checked(c) \/ \E b \in BOOLEAN : CheckFails(c, b) PROVE PanelInv'
<1>1. /\ c.op = "check" /\ SnapshotDone(c) /\ calls' = Overtaken(c)
      /\ UNCHANGED <<server, list, tab, card, modal, byHand, turns, acts>>
  BY DEF Checked, CheckFails, spent
<1>2. PanelTypes /\ CallsInv
  BY DEF PanelInv
<1>3. c \in CheckCall /\ c.op \in Read
  BY <1>1, <1>2, ReadFields DEF CallsInv, Read
<1>4. snap' \in [open : BOOLEAN, saving : BOOLEAN]
  BY <1>1, <1>2 DEF SnapshotDone, PanelTypes
<1>5. /\ hasChanges' \in BOOLEAN /\ excused' \in BOOLEAN /\ (excused => excused')
      /\ UNCHANGED spent \/ Fault
      /\ ~excused' =>
           \/ c \in Reads(calls) /\ ~c.late /\ (c.got \in Right => hasChanges' \/ newest = NextVersion)
           \/ hasChanges' /\ \A d \in calls \ {c} : d.op # "check"
  <2>1. CASE Checked(c)
    <3>1. /\ c \in Reads(calls) /\ hasChanges' = (c.got = "yes")
          /\ excused' = (excused \/ c.late) /\ UNCHANGED spent
      BY <2>1 DEF Checked, Served, Reads, Read
    <3>2. c.late \in BOOLEAN /\ excused \in BOOLEAN
      BY <1>2, <1>3 DEF CheckCall, PanelTypes
    <3>3. c.got \in Right => hasChanges' \/ newest = NextVersion
      BY <3>1 DEF Right
    <3>4. hasChanges' \in BOOLEAN /\ excused' \in BOOLEAN /\ (excused => excused') /\ (~excused' => ~c.late)
      BY <3>1, <3>2
    <3> QED BY <3>1, <3>3, <3>4
  <2>2. CASE \E b \in BOOLEAN : CheckFails(c, b)
    <3>1. PICK b \in BOOLEAN : CheckFails(c, b)
      BY <2>2
    <3>2. Fault /\ hasChanges' = (b \/ hasChanges) /\ excused' = (excused \/ ~b \/ Others(c))
      BY <3>1 DEF CheckFails
    <3>3. PICK o \in BOOLEAN : o = Others(c)
      BY DEF Others
    <3>4. hasChanges' \in BOOLEAN /\ excused' \in BOOLEAN /\ (excused => excused') /\ (~excused' => hasChanges' /\ ~o)
      <4>1. excused \in BOOLEAN /\ hasChanges \in BOOLEAN
        BY <1>2 DEF PanelTypes
      <4> QED BY <3>2, <3>3, <4>1
    <3>5. ~o => \A d \in calls \ {c} : d.op # "check"
      BY <1>1, <3>3 DEF Others
    <3> QED BY <3>2, <3>4, <3>5
  <2> QED BY <2>1, <2>2
<1>6. SpentTypes'
  BY <1>1, <1>2, <1>5, SpentKept
<1>7. PanelTypes'
  <2>1. ServerTypes' /\ ListTypes' /\ FormTypes' /\ FlagTypes'
    BY <1>1, <1>2, <1>4, <1>5 DEF PanelTypes, ServerTypes, ListTypes, FormTypes, FlagTypes, server, list
  <2> QED BY <1>6, <2>1, TypePartsNext
<1>8. /\ UNCHANGED <<rows, newest, turn, byHand>> /\ shown' = shown /\ error' = error
      /\ card' = card /\ modal' = modal
  BY <1>1 DEF server, list
<1>9. c.op # "fetch" /\ (excused => excused')
  BY <1>1, <1>5
<1> QED BY <1>1, <1>3, <1>5, <1>7, <1>8, <1>9, LandStep

\* What a save stores: a row that is not gone gets a content.
LEMMA StoreKeeps ==
  ASSUME PanelTypes, NEW c \in SaveCall, Store(c)
  PROVE  /\ rows' \in [Id -> Content \cup {None, Gone}]
         /\ \A i \in Id : rows[i] = Gone => rows'[i] = Gone
<1>1. PICK i \in Id : /\ rows[i] # Gone
                      /\ rows' = [rows EXCEPT ![i] = c.v]
  BY DEF Store
<1>2. c.v \in Content
  BY DEF SaveCall
<1> QED BY <1>1, <1>2 DEF PanelTypes

LEMMA SavedStep ==
  ASSUME PanelInv, NEW c \in calls, Saved(c) PROVE PanelInv'
<1> DEFINE f == Fetch("modal")
<1>1. /\ c.op = "save" /\ Store(c) /\ byHand' = TRUE /\ error' = FALSE
      /\ calls' = (calls \ {c}) \cup {f}
      /\ UNCHANGED <<newest, turn, shown, loading, tab, forms, hasChanges, excused, spent>>
  BY DEF Saved
<1>2. PanelTypes /\ calls \subseteq ACall
  BY DEF PanelInv, CallsInv
<1>3. c \in SaveCall
  BY <1>1, <1>2 DEF ACall, FetchCall, CheckCall, SaveCall, DeleteCall, SnapCall
<1>4. f \in ACall /\ f.op = "fetch" /\ f.then = "modal" /\ f.got = None /\ f.at = 0 /\ ~f.late
  BY DEF Fetch, ACall, FetchCall
<1> HIDE DEF f
<1>5. /\ rows' \in [Id -> Content \cup {None, Gone}]
      /\ \A i \in Id : rows[i] = Gone => rows'[i] = Gone
  BY <1>1, <1>2, <1>3, StoreKeeps
<1>6. PanelTypes'
  BY <1>1, <1>2, <1>5 DEF PanelTypes, forms, spent
<1>7. HiddenCardIsDeleted'
  <2>1. \A i \in Id : Delete(i) \in calls => Delete(i) \in calls'
    BY <1>1 DEF Delete
  <2> QED BY <1>1, <1>5, <2>1, HiddenKept DEF PanelInv, forms
<1>8. TurnInv'
  BY <1>1, TurnKept DEF PanelInv
<1>9. SavingInv'
  <2>1. Saving(calls) = {c} /\ modal.saving
    BY <1>1 DEF PanelInv, SavingInv, Saving
  <2>2. Saving(calls') \subseteq {f}
    BY <1>1, <2>1 DEF Saving
  <2> QED BY <1>1, <2>1, <2>2 DEF SavingInv, forms
<1>10. PICK E : E = {c}
  OBVIOUS
<1>11. PICK B : B = {f}
  OBVIOUS
<1>12. /\ calls' = (calls \ E) \cup B /\ B \subseteq ACall
       /\ \A d \in E : d.op \notin Read
       /\ \A d \in B : d.op \in Read => d.got = None /\ d.at = 0 /\ ~d.late
       /\ \E d \in B : d.op = "fetch"
  BY <1>1, <1>4, <1>10, <1>11 DEF Read
<1> QED BY <1>1, <1>6, <1>7, <1>8, <1>9, <1>12, CallStep

LEMMA SaveFailsStep ==
  ASSUME PanelInv, NEW c \in calls, NEW b \in BOOLEAN, SaveFails(c, b) PROVE PanelInv'
<1>1. /\ c.op = "save" /\ modal' = [modal EXCEPT !.saving = FALSE] /\ calls' = calls \ {c}
      /\ UNCHANGED <<newest, turn, list, tab, card, snap, hasChanges, turns, acts>>
  BY DEF SaveFails
<1>2. PanelTypes /\ calls \subseteq ACall
  BY DEF PanelInv, CallsInv
<1>3. c \in SaveCall
  BY <1>1, <1>2 DEF ACall, FetchCall, CheckCall, SaveCall, DeleteCall, SnapCall
<1>4. \/ UNCHANGED <<rows, byHand, excused, faults>>
      \/ Fault /\ excused' = excused /\ UNCHANGED <<rows, byHand>>
      \/ Fault /\ excused' = TRUE /\ Store(c) /\ byHand' = TRUE
  <2>1. excused \in BOOLEAN
    BY <1>2 DEF PanelTypes
  <2> QED BY <2>1 DEF SaveFails
<1>5. /\ rows' \in [Id -> Content \cup {None, Gone}]
      /\ \A i \in Id : rows[i] = Gone => rows'[i] = Gone
  BY <1>2, <1>3, <1>4, StoreKeeps DEF PanelTypes
<1>6. /\ byHand' \in BOOLEAN /\ excused' \in BOOLEAN /\ (excused => excused') /\ (byHand => byHand')
      /\ excused' \/ rows' = rows
  BY <1>2, <1>4 DEF PanelTypes
<1>7. SpentTypes'
  BY <1>1, <1>2, <1>4, SpentKept DEF spent
<1>8. PanelTypes'
  <2>1. modal' \in [on : Id \cup {None, New}, saving : BOOLEAN]
    BY <1>1, <1>2 DEF PanelTypes
  <2>2. ServerTypes' /\ ListTypes' /\ FormTypes' /\ FlagTypes'
    BY <1>1, <1>2, <1>5, <1>6, <2>1 DEF PanelTypes, ServerTypes, ListTypes, FormTypes, FlagTypes, list
  <2> QED BY <1>7, <2>2, TypePartsNext
<1>9. HiddenCardIsDeleted'
  <2>1. \A i \in Id : Delete(i) \in calls => Delete(i) \in calls'
    BY <1>1 DEF Delete
  <2> QED BY <1>1, <1>5, <2>1, HiddenKept DEF PanelInv
<1>10. TurnInv'
  BY <1>1, <1>6, TurnKept DEF PanelInv
<1>11. SavingInv'
  <2>1. Saving(calls') = {}
    BY <1>1 DEF PanelInv, SavingInv, Saving
  <2> QED BY <2>1 DEF SavingInv
<1>12. UNCHANGED <<turn, newest, shown, error, hasChanges>> /\ c.op \notin Read
  BY <1>1 DEF list, Read
<1> QED BY <1>1, <1>6, <1>8, <1>9, <1>10, <1>11, <1>12, EndStep

LEMMA DeletedStep ==
  ASSUME PanelInv, NEW c \in calls, Deleted(c) PROVE PanelInv'
<1> DEFINE f == Fetch("none")
<1>1. /\ c.op = "delete" /\ rows' = [rows EXCEPT ![c.id] = Gone] /\ byHand' = TRUE /\ error' = FALSE
      /\ calls' = (calls \ {c}) \cup {f}
      /\ UNCHANGED <<newest, turn, shown, loading, tab, forms, hasChanges, excused, spent>>
  BY DEF Deleted, RefetchList
<1>2. PanelTypes /\ calls \subseteq ACall
  BY DEF PanelInv, CallsInv
<1>3. c \in DeleteCall
  BY <1>1, <1>2 DEF ACall, FetchCall, CheckCall, SaveCall, DeleteCall, SnapCall
<1>4. f \in ACall /\ f.op = "fetch" /\ f.then = "none" /\ f.got = None /\ f.at = 0 /\ ~f.late
  BY DEF Fetch, ACall, FetchCall
<1> HIDE DEF f
<1>5. /\ rows' \in [Id -> Content \cup {None, Gone}]
      /\ \A i \in Id : rows[i] = Gone => rows'[i] = Gone
      /\ rows'[c.id] = Gone
  BY <1>1, <1>2, <1>3 DEF PanelTypes, DeleteCall
<1>6. PanelTypes'
  BY <1>1, <1>2, <1>5 DEF PanelTypes, forms, spent
<1>7. HiddenCardIsDeleted'
  <2>1. \A i \in Id : Delete(i) \in calls => Delete(i) \in calls' \/ rows'[i] = Gone
    BY <1>1, <1>5 DEF Delete
  <2> QED BY <1>1, <1>5, <2>1, HiddenKept DEF PanelInv, forms
<1>8. TurnInv'
  BY <1>1, TurnKept DEF PanelInv
<1>9. SavingInv'
  <2>1. Saving(calls') \subseteq Saving(calls)
    BY <1>1, <1>4 DEF Saving
  <2> QED BY <1>1, <2>1, SavingKept DEF PanelInv, forms
<1>10. PICK E : E = {c}
  OBVIOUS
<1>11. PICK B : B = {f}
  OBVIOUS
<1>12. /\ calls' = (calls \ E) \cup B /\ B \subseteq ACall
       /\ \A d \in E : d.op \notin Read
       /\ \A d \in B : d.op \in Read => d.got = None /\ d.at = 0 /\ ~d.late
       /\ \E d \in B : d.op = "fetch"
  BY <1>1, <1>4, <1>10, <1>11 DEF Read
<1> QED BY <1>1, <1>6, <1>7, <1>8, <1>9, <1>12, CallStep

LEMMA DeleteFailsStep ==
  ASSUME PanelInv, NEW c \in calls, NEW b \in BOOLEAN, DeleteFails(c, b) PROVE PanelInv'
<1>1. /\ c.op = "delete" /\ RestoreCard(c.id) /\ calls' = calls \ {c}
      /\ UNCHANGED <<newest, turn, list, tab, modal, snap, hasChanges, turns, acts>>
  BY DEF DeleteFails
<1>2. PanelTypes /\ calls \subseteq ACall
  BY DEF PanelInv, CallsInv
<1>3. c \in DeleteCall /\ c.id \in Id
  BY <1>1, <1>2 DEF ACall, FetchCall, CheckCall, SaveCall, DeleteCall, SnapCall
<1>4. \/ UNCHANGED <<rows, byHand, excused, faults>>
      \/ Fault /\ excused' = excused /\ UNCHANGED <<rows, byHand>>
      \/ Fault /\ excused' = TRUE /\ rows' = [rows EXCEPT ![c.id] = Gone] /\ byHand' = TRUE
  <2>1. excused \in BOOLEAN
    BY <1>2 DEF PanelTypes
  <2> QED BY <2>1 DEF DeleteFails
<1>5. /\ rows' \in [Id -> Content \cup {None, Gone}]
      /\ \A i \in Id : rows[i] = Gone => rows'[i] = Gone
  BY <1>2, <1>3, <1>4 DEF PanelTypes
<1>6. /\ byHand' \in BOOLEAN /\ excused' \in BOOLEAN /\ (excused => excused') /\ (byHand => byHand')
      /\ excused' \/ rows' = rows
  BY <1>2, <1>4 DEF PanelTypes
<1>7. SpentTypes'
  BY <1>1, <1>2, <1>4, SpentKept DEF spent
<1>8. /\ card' \in [Id -> {"view", "confirm", "hidden"}]
      /\ \A i \in Id : card'[i] = "hidden" => card[i] = "hidden" /\ i # c.id
  BY <1>1, <1>2, <1>3 DEF RestoreCard, PanelTypes
<1>9. PanelTypes'
  <2>1. ServerTypes' /\ ListTypes' /\ FormTypes' /\ FlagTypes'
    BY <1>1, <1>2, <1>5, <1>6, <1>8 DEF PanelTypes, ServerTypes, ListTypes, FormTypes, FlagTypes, list
  <2> QED BY <1>7, <2>1, TypePartsNext
<1>10. HiddenCardIsDeleted'
  <2> SUFFICES ASSUME NEW i \in Id, card'[i] = "hidden" PROVE Delete(i) \in calls' \/ rows'[i] = Gone
    BY DEF HiddenCardIsDeleted, Delete
  <2>1. i # c.id /\ (Delete(i) \in calls \/ rows[i] = Gone)
    BY <1>8 DEF PanelInv, HiddenCardIsDeleted
  <2> QED BY <1>1, <1>5, <2>1 DEF Delete
<1>11. TurnInv'
  BY <1>1, <1>6, TurnKept DEF PanelInv
<1>12. SavingInv'
  <2>1. Saving(calls') \subseteq Saving(calls)
    BY <1>1 DEF Saving
  <2> QED BY <1>1, <2>1, SavingKept DEF PanelInv
<1>13. UNCHANGED <<turn, newest, shown, error, hasChanges>> /\ c.op \notin Read
  BY <1>1 DEF list, Read
<1> QED BY <1>1, <1>6, <1>9, <1>10, <1>11, <1>12, <1>13, EndStep

\* createSnapshot goes from the version to the list, and from the list to the flag.
LEMMA SnapshotGoesOn ==
  ASSUME PanelInv, NEW c \in calls, SnapshotStored(c) \/ VersionsRead(c) PROVE PanelInv'
<1> DEFINE e == IF c.op = "snapshot" THEN Versions(c.live) ELSE Check("snap", c.live)
<1>1. /\ c.op \in {"snapshot", "versions"} /\ calls' = (calls \ {c}) \cup {e}
      /\ UNCHANGED <<rows, turn, list, tab, forms, hasChanges, byHand, excused, spent>>
      /\ newest' = newest \/ newest' = NextVersion
  BY DEF SnapshotStored, VersionsRead, server
<1>2. PanelTypes /\ calls \subseteq ACall
  BY DEF PanelInv, CallsInv
<1>3. c \in SnapCall
  BY <1>1, <1>2 DEF ACall, FetchCall, CheckCall, SaveCall, DeleteCall, SnapCall
<1>4. e \in ACall /\ e.op \in {"versions", "check"} /\ (e.op \in Read => e.got = None /\ e.at = 0 /\ ~e.late)
  BY <1>1, <1>3 DEF Versions, Check, ACall, CheckCall, SnapCall, Read
<1> HIDE DEF e
<1>5. newest' \in Lists \cup {None} /\ Listing' = Listing /\ NextVersion' = NextVersion
  <2>1. Listing' = Listing
    BY <1>1 DEF Listing
  <2> QED BY <1>1, <1>2, <2>1, ListingType, VersionFollows DEF PanelTypes
<1>6. PanelTypes'
  BY <1>1, <1>2, <1>5 DEF PanelTypes, list, forms, spent
<1>7. HiddenCardIsDeleted'
  <2>1. \A i \in Id : Delete(i) \in calls => Delete(i) \in calls'
    BY <1>1 DEF Delete
  <2> QED BY <1>1, <2>1, HiddenKept DEF PanelInv, forms
<1>8. TurnInv'
  BY <1>1, TurnKept DEF PanelInv
<1>9. SavingInv'
  <2>1. Saving(calls') \subseteq Saving(calls)
    BY <1>1, <1>4 DEF Saving
  <2> QED BY <1>1, <2>1, SavingKept DEF PanelInv, forms
<1>10. PICK E : E = {c}
  OBVIOUS
<1>11. PICK B : B = {e}
  OBVIOUS
<1>12. /\ calls' = (calls \ E) \cup B /\ B \subseteq ACall
       /\ \A d \in E : d.op \notin Read
       /\ \A d \in B : d.op \in Read => d.got = None /\ d.at = 0 /\ ~d.late
  BY <1>1, <1>4, <1>10, <1>11 DEF Read
<1>13. UNCHANGED <<rows, turn, shown, error, hasChanges, excused, byHand>>
  BY <1>1 DEF list
<1> QED BY <1>1, <1>5, <1>6, <1>7, <1>8, <1>9, <1>12, <1>13, CallStep

LEMMA SnapshotFailsStep ==
  ASSUME PanelInv, NEW c \in calls, SnapshotRefused(c) \/ \E b \in BOOLEAN : SnapshotFails(c, b) PROVE PanelInv'
<1>1. /\ c.op \in {"snapshot", "versions"} /\ calls' = calls \ {c} /\ (Fault \/ UNCHANGED faults)
      /\ newest' = newest \/ newest' = NextVersion
      /\ snap' = IF c.live THEN [snap EXCEPT !.saving = FALSE] ELSE snap
      /\ UNCHANGED <<rows, turn, list, tab, card, modal, hasChanges, byHand, excused, turns, acts>>
  BY DEF SnapshotFails, SnapshotRefused, server, list, spent
<1>2. PanelTypes /\ Listing' = Listing /\ NextVersion' = NextVersion
  <2>1. Listing' = Listing
    BY <1>1 DEF Listing
  <2> QED BY <2>1, VersionFollows DEF PanelInv
<1>3. newest' \in Lists \cup {None} /\ snap' \in [open : BOOLEAN, saving : BOOLEAN]
  BY <1>1, <1>2, ListingType DEF PanelTypes
<1>4. SpentTypes'
  <2>1. UNCHANGED spent \/ (Fault /\ turns' = turns /\ acts' = acts)
    BY <1>1 DEF spent
  <2> QED BY <1>2, <2>1, SpentKept
<1>5. PanelTypes'
  <2>1. ServerTypes' /\ ListTypes' /\ FormTypes' /\ FlagTypes'
    BY <1>1, <1>2, <1>3 DEF PanelTypes, ServerTypes, ListTypes, FormTypes, FlagTypes, list
  <2> QED BY <1>4, <2>1, TypePartsNext
<1>6. HiddenCardIsDeleted'
  <2>1. \A i \in Id : Delete(i) \in calls => Delete(i) \in calls'
    BY <1>1 DEF Delete
  <2> QED BY <1>1, <2>1, HiddenKept DEF PanelInv
<1>7. TurnInv'
  BY <1>1, TurnKept DEF PanelInv
<1>8. SavingInv'
  <2>1. Saving(calls') \subseteq Saving(calls)
    BY <1>1 DEF Saving
  <2> QED BY <1>1, <2>1, SavingKept DEF PanelInv
<1>9. UNCHANGED <<rows, turn, shown, error, hasChanges, excused, byHand>> /\ c.op \notin Read
  BY <1>1 DEF list, Read
<1> QED BY <1>1, <1>2, <1>5, <1>6, <1>7, <1>8, <1>9, EndStep

LEMMA PanelStep == PanelInv /\ [Next]_vars => PanelInv'
<1> SUFFICES ASSUME PanelInv, [Next]_vars PROVE PanelInv'
  OBVIOUS
<1>1. CASE UNCHANGED vars
  BY <1>1 DEF PanelInv, PanelTypes, CallsInv, TurnInv, FetchInv, CheckInv, SavingInv, HiddenCardIsDeleted,
              Right, NextVersion, AsVersion, Listing, vars, server, list, forms, spent
<1>2. CASE Network
  <2>1. PICK c \in calls :
          \/ Serve(c) \/ Fetched(c) \/ FetchFails(c) \/ Checked(c)
          \/ Saved(c) \/ Deleted(c) \/ SnapshotStored(c) \/ SnapshotRefused(c) \/ VersionsRead(c)
          \/ \E b \in BOOLEAN :
               CheckFails(c, b) \/ SaveFails(c, b) \/ DeleteFails(c, b) \/ SnapshotFails(c, b)
    BY <1>2 DEF Network
  <2> QED BY <2>1, ServeStep, FetchedStep, CheckedStep, SavedStep, SaveFailsStep, DeletedStep,
             DeleteFailsStep, SnapshotGoesOn, SnapshotFailsStep
<1> QED BY <1>1, <1>2, ClientStep, AgentStep DEF Next

LEMMA PanelInvariance == Spec => []PanelInv
  BY PanelInit, PanelStep, PTL DEF Spec

LEMMA PanelTyped == PanelInv => TypeOK
<1> SUFFICES ASSUME PanelInv PROVE TypeOK
  OBVIOUS
<1>1. PanelTypes /\ calls \subseteq ACall
  BY DEF PanelInv, CallsInv
<1>2. ASSUME NEW c \in calls
      PROVE  \/ c.op = "fetch" /\ c.got \in Lists \cup {None} /\ c.then \in {"none", "modal"}
             \/ c.op = "check" /\ c.got \in {None, "yes", "no"} /\ c.then \in {"none", "snap"}
             \/ c.op = "save" /\ c.id \in Id \cup {New} /\ c.v \in Complete
             \/ c.op = "delete" /\ c.id \in Id
             \/ c.op \in {"snapshot", "versions"}
  BY <1>1 DEF ACall, FetchCall, CheckCall, SaveCall, DeleteCall, SnapCall
<1> QED BY <1>1, <1>2 DEF TypeOK, PanelTypes

\* What the list shows and what the flag says, once no answer is on its way.
LEMMA PanelShown == PanelInv => PanelIsTrue /\ SaveOfferedAfterTurns
<1> SUFFICES ASSUME PanelInv PROVE PanelIsTrue /\ SaveOfferedAfterTurns
  OBVIOUS
<1>1. PanelShowsPortfolio
  BY DEF PanelInv, FetchInv, Fresh, Reads, PanelShowsPortfolio, Pending
<1>2. SaveOfferedAfterTurns
  BY DEF PanelInv, CheckInv, Fresh, Reads, SaveOfferedAfterTurns, AllChecked, Pending
<1>3. OneSaveInFlight
  <2>1. Saving(calls) = {c \in calls : c.op = "save" \/ (c.op = "fetch" /\ c.then = "modal")}
    BY DEF Saving
  <2>2. Cardinality(Saving(calls)) <= 1
    <3>1. CASE Saving(calls) = {}
      BY <3>1, FS_EmptySet
    <3>2. CASE Saving(calls) # {}
      <4>1. PICK s : Saving(calls) = {s}
        BY <3>2 DEF PanelInv, SavingInv
      <4>2. Cardinality({s}) = 1
        BY FS_Singleton
      <4> QED BY <4>1, <4>2
    <3> QED BY <3>1, <3>2
  <2>3. Pending({"save"}) => modal.saving
    BY <2>1 DEF PanelInv, SavingInv, Pending
  <2> QED BY <2>1, <2>2, <2>3 DEF OneSaveInFlight
<1> QED BY <1>1, <1>2, <1>3 DEF PanelIsTrue, PanelInv

-----------------------------------------------------------------------------
(* The panel: theorems *)

\* Once nothing is on its way the cards are the portfolio; a card is hidden
\* only for a deletion; one product is saved at a time (usePortfolio.ts,
\* PortfolioPanel.tsx, ProductCard.tsx, EditProductModal.tsx).
THEOREM PanelTrue == Spec => []PanelIsTrue
  BY PanelInvariance, PanelShown, PTL

\* "Guardar version" is off only when the last version holds what a new one would
\* hold, up to edits by hand since it was asked (usePortfolioVersioning.ts, and
\* has_changes_since_latest of versioning.py).
THEOREM SaveOffered == Spec => []SaveOfferedAfterTurns
  BY PanelInvariance, PanelShown, PTL

-----------------------------------------------------------------------------
(* The history: its operators *)

Longest(n, offset) ==
  IF n - offset <= 0 THEN 0 ELSE IF PageSize < n - offset THEN PageSize ELSE n - offset

\* A page holds the entries from offset on, the newest first.
LEMMA PageRows ==
  ASSUME NEW n \in Nat, NEW offset \in Nat
  PROVE  /\ H!Page(n, offset) = [i \in 1 .. Longest(n, offset) |-> n - offset - i + 1]
         /\ Longest(n, offset) \in Nat /\ Longest(n, offset) <= n
         /\ H!Page(n, offset) \in Seq(1 .. n)
         /\ Len(H!Page(n, offset)) = Longest(n, offset)
<1>0. PageSize \in Nat
  BY HistoryInstance DEF H!HistoryAssumption
<1>a. Longest(n, offset) \in Nat /\ Longest(n, offset) <= n
  BY <1>0 DEF Longest
<1> PICK k \in Nat : k = Longest(n, offset) /\ k <= n
  BY <1>a
<1>1. H!Min({PageSize, H!Max({0, n - offset})}) = k
  <2>1. H!Max({0, n - offset}) = IF n - offset <= 0 THEN 0 ELSE n - offset
    BY DEF H!Max
  <2>2. PICK m \in Nat : m = H!Max({0, n - offset}) /\ m = IF n - offset <= 0 THEN 0 ELSE n - offset
    BY <2>1
  <2>3. PageSize \in Nat /\ PageSize # 0
    BY HistoryInstance DEF H!HistoryAssumption
  <2>4. H!Min({PageSize, m}) = IF PageSize < m THEN PageSize ELSE m
    BY <2>2, <2>3 DEF H!Min
  <2> QED BY <2>2, <2>3, <2>4 DEF Longest
<1>2. H!Page(n, offset) = [i \in 1 .. k |-> n - offset - i + 1]
  BY <1>1 DEF H!Page
<1>3. \A i \in 1 .. k : n - offset - i + 1 \in 1 .. n
  BY DEF Longest
<1> QED BY <1>2, <1>3

LEMMA SeqGrows ==
  ASSUME NEW S, NEW T, S \subseteq T, NEW s \in Seq(S) PROVE s \in Seq(T)
  OBVIOUS

\* What a difference makes of the older version is the newer one.
LEMMA PatchedIsNewer ==
  ASSUME NEW a \in H!Version, NEW b \in H!Version
  PROVE  H!Patched(Saves[a], H!Diff(a, b)) = Saves[b]
<1> DEFINE d == H!Diff(a, b)
           A == Saves[a]
           B == Saves[b]
           P == DOMAIN A
           Q == DOMAIN B
<1>0. Saves[a] \in UNION {[Ps -> [Field -> Value]] : Ps \in SUBSET Product}
      /\ Saves[b] \in UNION {[Ps -> [Field -> Value]] : Ps \in SUBSET Product}
  BY HistoryInstance DEF H!HistoryAssumption, H!Version
<1>1. A \in [P -> [Field -> Value]]
  BY <1>0
<1>2. B \in [Q -> [Field -> Value]]
  BY <1>0
<1>3. d = [added    |-> [p \in Q \ P |-> B[p]],
           removed  |-> [p \in P \ Q |-> A[p]],
           modified |-> [p \in {q \in P \cap Q : A[q] # B[q]} |->
                           [f \in {f \in DOMAIN A[p] : A[p][f] # B[p][f]} |->
                              [before |-> A[p][f], after |-> B[p][f]]]]]
  BY DEF H!Diff, H!Restrict
<1> HIDE DEF d, A, B, P, Q
<1>4. /\ DOMAIN d.added = Q \ P /\ \A p \in Q \ P : d.added[p] = B[p]
      /\ DOMAIN d.removed = P \ Q
      /\ DOMAIN d.modified = {q \in P \cap Q : A[q] # B[q]}
  BY <1>3
<1>5. \A p \in {q \in P \cap Q : A[q] # B[q]} :
        /\ DOMAIN d.modified[p] = {f \in Field : A[p][f] # B[p][f]}
        /\ \A f \in {f \in Field : A[p][f] # B[p][f]} : d.modified[p][f].after = B[p][f]
  BY <1>1, <1>2, <1>3
<1> DEFINE New2(p) ==
     IF p \in DOMAIN d.added THEN d.added[p]
     ELSE IF p \notin DOMAIN d.modified THEN A[p]
     ELSE [f \in DOMAIN A[p] |-> IF f \in DOMAIN d.modified[p] THEN d.modified[p][f].after ELSE A[p][f]]
<1>6. (DOMAIN A \ DOMAIN d.removed) \cup DOMAIN d.added = Q
  BY <1>1, <1>2, <1>4
<1>7. ASSUME NEW p \in Q PROVE New2(p) = B[p]
  <2>1. CASE p \notin P
    BY <1>4, <2>1
  <2>2. CASE p \in P /\ A[p] = B[p]
    BY <1>4, <2>2
  <2>3. CASE p \in P /\ A[p] # B[p]
    <3>1. p \notin DOMAIN d.added /\ p \in DOMAIN d.modified
      BY <1>4, <2>3
    <3>2. A[p] \in [Field -> Value] /\ B[p] \in [Field -> Value]
      BY <1>1, <1>2, <2>3
    <3>3. New2(p) = [f \in Field |-> IF f \in DOMAIN d.modified[p] THEN d.modified[p][f].after ELSE A[p][f]]
      BY <3>1, <3>2
    <3>4. \A f \in Field : (IF f \in DOMAIN d.modified[p] THEN d.modified[p][f].after ELSE A[p][f]) = B[p][f]
      BY <1>5, <2>3
    <3>5. [f \in Field |-> IF f \in DOMAIN d.modified[p] THEN d.modified[p][f].after ELSE A[p][f]]
            = [f \in Field |-> B[p][f]]
      BY <3>4
    <3> QED BY <3>2, <3>3, <3>5
  <2> QED BY <2>1, <2>2, <2>3
<1>8. H!Patched(A, d) = [p \in Q |-> New2(p)]
  BY <1>6 DEF H!Patched
<1>9. [p \in Q |-> New2(p)] = [p \in Q |-> B[p]]
  BY <1>7
<1> HIDE DEF New2
<1>10. B = [p \in Q |-> B[p]]
  BY <1>2
<1>11. H!Patched(A, d) = B
  BY <1>8, <1>9, <1>10, Zenon
<1> QED BY <1>11, Zenon DEF d, A, B

-----------------------------------------------------------------------------
(* The history: its inductive invariant *)

Waits(op) == \E c \in hCalls : c.op = op

\* A call, to a server that has n versions and m entries in its log.
GoodCall(c, n, m) ==
  /\ c.op \in {"versions", "changes", "detail", "compare"}
  /\ c.op = "versions" =>
       /\ c = [op |-> "versions", got |-> c.got]
       /\ c.got = None \/ \E k \in 0 .. n : c.got = H!Listed(k)
  /\ c.op = "changes" =>
       /\ c = [op |-> "changes", offset |-> c.offset, rows |-> c.rows] /\ c.offset \in Nat
       /\ c.rows = None \/ \E k \in 0 .. m : c.rows = H!Page(k, c.offset)
  /\ c.op = "detail" => c.of \in 1 .. n
  /\ c.op = "compare" => c.a \in H!Version /\ c.b \in H!Version /\ c.a < c.b

ServerInv ==
  /\ hSaved \in 0 .. Len(Saves) /\ hLog \in 0 .. MaxLog /\ hSnapshots \subseteq 1 .. hSaved
  /\ hFaults \in 0 .. MaxHistoryFaults

HCallsInv == \A c \in hCalls : GoodCall(c, hSaved, hLog)

ChangesInv ==
  /\ hChanges \in [rows : Seq(1 .. hLog), more : BOOLEAN, busy : BOOLEAN]
  /\ H!EndIsTold
  /\ hChanges.busy => Waits("changes")

DrawerInv ==
  /\ hOpen \in BOOLEAN /\ hTab \in {"snapshots", "changes"}
  /\ hPicks \in ({None} \cup H!Version) \X ({None} \cup H!Version)
  /\ hPicks[1] # None => hPicks[1] # hPicks[2]
  /\ hDetail \in [of : {None} \cup 1 .. hSaved, busy : BOOLEAN, error : BOOLEAN]
  /\ hDetail.busy => Waits("detail")

Picks == {hPicks[1], hPicks[2]}

\* A comparison that is open is the one of the versions that are picked.
ComparisonInv ==
  /\ hComparing \in BOOLEAN /\ hComparison.open \in BOOLEAN
  /\ hComparison = [open |-> hComparison.open, diff |-> hComparison.diff, error |-> hComparison.error]
  /\ ~hOpen => ~hComparison.open /\ hPicks = <<None, None>>
  /\ hComparing <=> Waits("compare")
  /\ \A c, d \in hCalls : c.op = "compare" /\ d.op = "compare" => c = d
  /\ (hComparison.open /\ hComparing) => \A c \in hCalls : c.op = "compare" => Picks = {c.a, c.b}
  /\ (hComparison.open /\ ~hComparing /\ hComparison.diff # None) =>
       \E a, b \in H!Version : a < b /\ Picks = {a, b} /\ hComparison.diff = H!Diff(a, b)

HistoryInv == ServerInv /\ HCallsInv /\ ChangesInv /\ DrawerInv /\ ComparisonInv

LEMMA ServerNumbers ==
  ServerInv => /\ hSaved \in Nat /\ hLog \in Nat /\ Len(Saves) \in Nat /\ MaxLog \in Nat
               /\ MaxHistoryFaults \in Nat /\ hSaved <= Len(Saves)
<1>1. Len(Saves) \in Nat
  BY HistoryInstance DEF H!HistoryAssumption
<1>2. MaxHistoryFaults \in Nat
  BY HistoryInstance DEF H!HistoryAssumption
<1> QED BY <1>1, <1>2, HistoryInstance DEF ServerInv, H!HistoryAssumption

LEMMA GoodCallKept ==
  ASSUME NEW c, NEW n \in Nat, NEW m \in Nat, NEW k \in Nat, NEW l \in Nat, n <= k, m <= l, GoodCall(c, n, m)
  PROVE  GoodCall(c, k, l)
<1>1. 0 .. n \subseteq 0 .. k /\ 1 .. n \subseteq 1 .. k /\ 0 .. m \subseteq 0 .. l
  OBVIOUS
<1> QED BY <1>1 DEF GoodCall

LEMMA HistoryInit == H!Init => HistoryInv
<1> SUFFICES ASSUME H!Init PROVE HistoryInv
  OBVIOUS
<1>1. Before \in 0 .. Len(Saves) /\ Logged \in 0 .. MaxLog /\ MaxHistoryFaults \in Nat
  BY HistoryInstance DEF H!HistoryAssumption
<1> DEFINE v == H!VersionsCall
           e == H!ChangesCall(0)
<1>2. /\ hSaved = Before /\ hLog = Logged /\ hSnapshots = {}
      /\ hChanges = [rows |-> <<>>, more |-> FALSE, busy |-> TRUE]
      /\ hOpen = FALSE /\ hTab = "snapshots" /\ hPicks = <<None, None>>
      /\ hDetail = [of |-> None, busy |-> FALSE, error |-> FALSE]
      /\ hComparing = FALSE /\ hComparison = [open |-> FALSE, diff |-> None, error |-> FALSE]
      /\ hCalls = {v, e} /\ hFaults = 0
  BY DEF H!Init, H!NoDetail, H!NoComparison
<1>3. v = [op |-> "versions", got |-> None] /\ e = [op |-> "changes", offset |-> 0, rows |-> None]
  BY DEF H!VersionsCall, H!ChangesCall
<1> HIDE DEF v, e
<1>4. ServerInv
  BY <1>1, <1>2 DEF ServerInv
<1>5. HCallsInv
  BY <1>2, <1>3 DEF HCallsInv, GoodCall
<1>6. ChangesInv
  <2>1. hChanges.busy => Waits("changes")
    BY <1>2, <1>3 DEF Waits
  <2>2. hChanges.rows = <<>> /\ <<>> \in Seq(1 .. hLog)
    BY <1>2
  <2> QED BY <1>2, <2>1, <2>2 DEF ChangesInv, H!EndIsTold
<1>7. DrawerInv
  BY <1>2 DEF DrawerInv
<1>8. ComparisonInv
  <2>1. \A c \in hCalls : c.op # "compare"
    BY <1>2, <1>3
  <2>2. hComparison.open = FALSE
    BY <1>2
  <2>3. hComparison = [open |-> hComparison.open, diff |-> hComparison.diff, error |-> hComparison.error]
    BY <1>2
  <2> QED BY <1>2, <2>1, <2>2, <2>3 DEF ComparisonInv, Waits
<1> QED BY <1>4, <1>5, <1>6, <1>7, <1>8 DEF HistoryInv

-----------------------------------------------------------------------------
(* The history: what a step leaves alone *)

LEMMA HCallsKept ==
  ASSUME ServerInv, ServerInv', HCallsInv, hSaved <= hSaved', hLog <= hLog',
         \A c \in hCalls' : c \in hCalls \/ GoodCall(c, hSaved', hLog')
  PROVE  HCallsInv'
<1>1. PICK n \in Nat, k \in Nat, m \in Nat, l \in Nat : n = hSaved /\ k = hSaved' /\ m = hLog /\ l = hLog'
  BY DEF ServerInv
<1> QED BY <1>1, GoodCallKept DEF HCallsInv

LEMMA ChangesKept ==
  ASSUME ServerInv, ServerInv', ChangesInv, hChanges' = hChanges, hLog <= hLog',
         Waits("changes") => Waits("changes")'
  PROVE  ChangesInv'
<1>1. PICK m \in Nat, l \in Nat : m = hLog /\ l = hLog'
  BY DEF ServerInv
<1>2. PICK S, T : S = 1 .. m /\ T = 1 .. l
  OBVIOUS
<1>3. hChanges.rows \in Seq(S) /\ S \subseteq T
  BY <1>1, <1>2 DEF ChangesInv
<1>4. PICK s \in Seq(S) : s = hChanges.rows
  BY <1>3
<1>5. s \in Seq(T)
  BY <1>3, SeqGrows
<1>6. hChanges' \in [rows : Seq(1 .. hLog'), more : BOOLEAN, busy : BOOLEAN]
  BY <1>1, <1>2, <1>4, <1>5 DEF ChangesInv
<1> QED BY <1>6 DEF ChangesInv, H!EndIsTold

LEMMA DrawerKept ==
  ASSUME ServerInv, ServerInv', DrawerInv, UNCHANGED <<hOpen, hTab, hPicks, hDetail>>, hSaved <= hSaved',
         Waits("detail") => Waits("detail")'
  PROVE  DrawerInv'
<1>1. 1 .. hSaved \subseteq 1 .. hSaved'
  BY DEF ServerInv
<1> QED BY <1>1 DEF DrawerInv

LEMMA ComparisonKept ==
  ASSUME ComparisonInv, UNCHANGED <<hOpen, hPicks, hComparing, hComparison>>,
         \A c : (c \in hCalls' /\ c.op = "compare") <=> (c \in hCalls /\ c.op = "compare")
  PROVE  ComparisonInv'
<1>1. Picks' = Picks
  BY DEF Picks
<1>2. Waits("compare")' <=> Waits("compare")
  BY DEF Waits
<1> QED BY <1>1, <1>2 DEF ComparisonInv

\* A call leaves.
LEMMA Sent ==
  ASSUME NEW c, H!Send(c)
  PROVE  /\ hCalls' = hCalls \cup {c} /\ c \in hCalls'
         /\ \A op : Waits(op) => Waits(op)'
         /\ Waits(c.op)'
  BY DEF H!Send, Waits

-----------------------------------------------------------------------------
(* The history: steps of the client *)

\* The drawer opens or closes, turns to its other tab, leaves a detail, picks.
LEMMA DrawerStep ==
  ASSUME HistoryInv,
         \/ H!OpenDrawer \/ H!CloseDrawer \/ H!CloseDetail
         \/ \E t \in {"snapshots", "changes"} : H!SetTab(t)
         \/ \E v \in H!Version : H!ToggleCompare(v)
  PROVE  HistoryInv'
<1>1. UNCHANGED <<hSaved, hLog, hSnapshots, hChanges, hComparing, hCalls, hFaults>>
  BY DEF H!OpenDrawer, H!CloseDrawer, H!CloseDetail, H!SetTab, H!ToggleCompare
<1>2. ServerInv' /\ HCallsInv' /\ ChangesInv'
  BY <1>1 DEF HistoryInv, ServerInv, HCallsInv, ChangesInv, H!EndIsTold, Waits
<1>3. \A op : Waits(op)' <=> Waits(op)
  BY <1>1 DEF Waits
<1>4. DrawerInv /\ ComparisonInv /\ ServerInv
  BY DEF HistoryInv
<1>5. H!NoDetail \in [of : {None} \cup 1 .. hSaved, busy : BOOLEAN, error : BOOLEAN] /\ ~H!NoDetail.busy
  BY DEF H!NoDetail
<1>6. H!NoComparison = [open |-> FALSE, diff |-> None, error |-> FALSE]
  BY DEF H!NoComparison
<1>7. CASE H!OpenDrawer
  <2>1. hOpen' = TRUE /\ UNCHANGED <<hTab, hPicks, hDetail, hComparison>>
    BY <1>7 DEF H!OpenDrawer
  <2>2. DrawerInv'
    BY <1>1, <1>3, <1>4, <2>1 DEF DrawerInv
  <2>3. ComparisonInv'
    BY <1>1, <1>3, <1>4, <2>1 DEF ComparisonInv, Picks
  <2> QED BY <1>2, <2>2, <2>3 DEF HistoryInv
<1>8. CASE H!CloseDrawer
  <2>1. /\ hOpen' = FALSE /\ hTab' = "snapshots" /\ hPicks' = <<None, None>>
        /\ hDetail' = H!NoDetail /\ hComparison' = H!NoComparison
    BY <1>8 DEF H!CloseDrawer
  <2>2. DrawerInv'
    BY <1>1, <1>3, <1>4, <1>5, <2>1 DEF DrawerInv
  <2>3. hComparison'.open = FALSE
    BY <1>6, <2>1
  <2>4. hComparison' = [open |-> hComparison'.open, diff |-> hComparison'.diff, error |-> hComparison'.error]
    BY <1>6, <2>1
  <2>5. ComparisonInv'
    BY <1>1, <1>3, <1>4, <2>1, <2>3, <2>4 DEF ComparisonInv
  <2> QED BY <1>2, <2>2, <2>5 DEF HistoryInv
<1>9. CASE H!CloseDetail
  <2>1. hDetail' = H!NoDetail /\ UNCHANGED <<hOpen, hTab, hPicks, hComparison>>
    BY <1>9 DEF H!CloseDetail
  <2>2. DrawerInv'
    BY <1>1, <1>3, <1>4, <1>5, <2>1 DEF DrawerInv
  <2>3. ComparisonInv'
    BY <1>1, <1>4, <2>1, ComparisonKept
  <2> QED BY <1>2, <2>2, <2>3 DEF HistoryInv
<1>10. CASE \E t \in {"snapshots", "changes"} : H!SetTab(t)
  <2>1. hTab' \in {"snapshots", "changes"} /\ UNCHANGED <<hOpen, hPicks, hDetail, hComparison>>
    BY <1>10 DEF H!SetTab
  <2>2. DrawerInv'
    BY <1>1, <1>3, <1>4, <2>1 DEF DrawerInv
  <2>3. ComparisonInv'
    BY <1>1, <1>4, <2>1, ComparisonKept
  <2> QED BY <1>2, <2>2, <2>3 DEF HistoryInv
<1>11. CASE \E v \in H!Version : H!ToggleCompare(v)
  <2>1. PICK v \in H!Version : H!ToggleCompare(v)
    BY <1>11
  <2>2. /\ hPicks' = H!Picked(v) /\ hOpen /\ ~hComparison.open
        /\ UNCHANGED <<hOpen, hTab, hDetail, hComparison>>
    BY <2>1 DEF H!ToggleCompare, H!ListShown, H!InDrawer
  <2>3. /\ hPicks' \in ({None} \cup H!Version) \X ({None} \cup H!Version)
        /\ hPicks'[1] # None => hPicks'[1] # hPicks'[2]
    BY <1>4, <2>2 DEF DrawerInv, H!Picked
  <2>4. DrawerInv'
    BY <1>1, <1>3, <1>4, <2>2, <2>3 DEF DrawerInv
  <2>5. ComparisonInv'
    BY <1>1, <1>3, <1>4, <2>2 DEF ComparisonInv
  <2> QED BY <1>2, <2>4, <2>5 DEF HistoryInv
<1> QED BY <1>7, <1>8, <1>9, <1>10, <1>11

LEMMA SelectStep ==
  ASSUME HistoryInv, NEW v \in H!Version, H!SelectSnapshot(v) PROVE HistoryInv'
<1> DEFINE c == [op |-> "detail", of |-> v]
<1>1. /\ H!Send(c) /\ v \in hSnapshots /\ hDetail' = [H!NoDetail EXCEPT !.busy = TRUE]
      /\ UNCHANGED <<hSaved, hLog, hSnapshots, hChanges, hOpen, hTab, hPicks, hComparing, hComparison, hFaults>>
  BY DEF H!SelectSnapshot
<1>2. c.op = "detail" /\ c.of = v
  OBVIOUS
<1> HIDE DEF c
<1>3. hCalls' = hCalls \cup {c} /\ (\A op : Waits(op) => Waits(op)') /\ Waits("detail")'
  BY <1>1, <1>2, Sent
<1>4. ServerInv /\ ServerInv'
  BY <1>1 DEF HistoryInv, ServerInv
<1>5. HCallsInv'
  <2>1. GoodCall(c, hSaved', hLog')
    BY <1>1, <1>2, <1>4 DEF GoodCall, ServerInv
  <2> QED BY <1>1, <1>3, <2>1 DEF HistoryInv, HCallsInv
<1>6. ChangesInv'
  BY <1>1, <1>3 DEF HistoryInv, ChangesInv, H!EndIsTold
<1>7. DrawerInv'
  <2>1. hDetail' = [of |-> None, busy |-> TRUE, error |-> FALSE]
    BY <1>1 DEF H!NoDetail
  <2>2. hDetail' \in [of : {None} \cup 1 .. hSaved', busy : BOOLEAN, error : BOOLEAN]
    BY <2>1
  <2> QED BY <1>1, <1>3, <2>2 DEF HistoryInv, DrawerInv
<1>8. ComparisonInv'
  BY <1>1, <1>2, <1>3, ComparisonKept DEF HistoryInv
<1> QED BY <1>4, <1>5, <1>6, <1>7, <1>8 DEF HistoryInv

\* The two picks, when both are listed, in order.
LEMMA OrderedPicks ==
  ASSUME HistoryInv, H!Ordered # None
  PROVE  \E a, b \in H!Version : a < b /\ Picks = {a, b} /\ H!Ordered = <<a, b>>
<1> DEFINE known == {hPicks[i] : i \in 1 .. 2} \cap hSnapshots
<1>1. {hPicks[i] : i \in 1 .. 2} = Picks
  BY DEF Picks
<1>2. hPicks[1] # hPicks[2] /\ Cardinality(known) = 2 /\ H!Ordered = <<H!Min(known), H!Max(known)>>
  <2>1. H!Ordered = IF hPicks[1] # hPicks[2] /\ Cardinality(known) = 2
                    THEN <<H!Min(known), H!Max(known)>> ELSE None
    BY DEF H!Ordered, H!Cardinality, Cardinality
  <2> HIDE DEF known
  <2> QED BY <2>1, Zenon
<1>3. hSnapshots \subseteq H!Version /\ \A x \in hSnapshots : x \in Nat
  BY ServerNumbers DEF HistoryInv, ServerInv, H!Version
<1>4. known = Picks
  <2>1. known \subseteq Picks
    BY <1>1
  <2>2. IsFiniteSet(Picks) /\ Cardinality(Picks) = 2
    <3>1. IsFiniteSet({hPicks[1]}) /\ Cardinality({hPicks[1]}) = 1
      BY FS_Singleton
    <3>2. Cardinality({hPicks[1]} \cup {hPicks[2]}) = 2 /\ IsFiniteSet({hPicks[1]} \cup {hPicks[2]})
      <4>1. /\ IsFiniteSet({hPicks[1]} \cup {hPicks[2]})
            /\ Cardinality({hPicks[1]} \cup {hPicks[2]})
                 = IF hPicks[2] \in {hPicks[1]} THEN Cardinality({hPicks[1]}) ELSE Cardinality({hPicks[1]}) + 1
        BY <3>1, FS_AddElement
      <4> QED BY <1>2, <3>1, <4>1
    <3>3. Picks = {hPicks[1]} \cup {hPicks[2]}
      BY DEF Picks
    <3> QED BY <3>2, <3>3
  <2> HIDE DEF known
  <2> QED BY <1>2, <2>1, <2>2, FS_Subset
<1> HIDE DEF known
<1>5. hPicks[1] \in known /\ hPicks[2] \in known /\ known = {hPicks[1], hPicks[2]}
  BY <1>4 DEF Picks
<1>6. hPicks[1] \in H!Version /\ hPicks[2] \in H!Version /\ hPicks[1] \in Nat /\ hPicks[2] \in Nat
  BY <1>3, <1>5 DEF known
<1>7. PICK x \in Nat, y \in Nat : x = hPicks[1] /\ y = hPicks[2]
  BY <1>6
<1>8. CASE x < y
  <2>1. H!Min({x, y}) = x /\ H!Max({x, y}) = y
    BY <1>8 DEF H!Min, H!Max
  <2> QED BY <1>2, <1>4, <1>5, <1>6, <1>7, <1>8, <2>1
<1>9. CASE y < x
  <2>1. H!Min({x, y}) = y /\ H!Max({x, y}) = x
    BY <1>9 DEF H!Min, H!Max
  <2>2. {x, y} = {y, x}
    OBVIOUS
  <2> QED BY <1>2, <1>4, <1>5, <1>6, <1>7, <1>9, <2>1, <2>2
<1> QED BY <1>2, <1>7, <1>8, <1>9

LEMMA CompareStep ==
  ASSUME HistoryInv, H!Compare PROVE HistoryInv'
<1>1. PICK a \in H!Version, b \in H!Version : a < b /\ Picks = {a, b} /\ H!Ordered = <<a, b>>
  BY OrderedPicks DEF H!Compare, H!MayCompare
<1> DEFINE c == [op |-> "compare", a |-> a, b |-> b]
<1>2. /\ H!Send(c) /\ hOpen /\ ~hComparing /\ hComparing' = TRUE
      /\ hComparison' = [hComparison EXCEPT !.open = TRUE, !.error = FALSE]
      /\ UNCHANGED <<hSaved, hLog, hSnapshots, hChanges, hOpen, hTab, hPicks, hDetail, hFaults>>
  BY <1>1 DEF H!Compare, H!MayCompare, H!ListShown, H!InDrawer, H!drawer
<1>3. c.op = "compare" /\ c.a = a /\ c.b = b
  OBVIOUS
<1> HIDE DEF c
<1>4. hCalls' = hCalls \cup {c} /\ (\A op : Waits(op) => Waits(op)') /\ Waits("compare")'
  BY <1>2, <1>3, Sent
<1>5. ServerInv'
  BY <1>2 DEF HistoryInv, ServerInv
<1>6. HCallsInv'
  <2>1. GoodCall(c, hSaved', hLog')
    BY <1>1, <1>3 DEF GoodCall
  <2> QED BY <1>2, <1>4, <2>1 DEF HistoryInv, HCallsInv
<1>7. ChangesInv' /\ DrawerInv'
  BY <1>2, <1>4 DEF HistoryInv, ChangesInv, DrawerInv, H!EndIsTold
<1>8. ComparisonInv'
  <2>1. \A d \in hCalls : d.op # "compare"
    BY <1>2 DEF HistoryInv, ComparisonInv, Waits
  <2>2. /\ hComparison'.open = TRUE
        /\ hComparison' = [open |-> hComparison'.open, diff |-> hComparison'.diff, error |-> hComparison'.error]
    BY <1>2 DEF HistoryInv, ComparisonInv
  <2>3. Picks' = {a, b}
    BY <1>1, <1>2 DEF Picks
  <2> QED BY <1>2, <1>3, <1>4, <2>1, <2>2, <2>3 DEF ComparisonInv
<1> QED BY <1>5, <1>6, <1>7, <1>8 DEF HistoryInv

LEMMA CloseComparisonStep ==
  ASSUME HistoryInv, H!CloseComparison PROVE HistoryInv'
<1>1. /\ hOpen /\ hComparison' = H!NoComparison
      /\ UNCHANGED <<hSaved, hLog, hSnapshots, hChanges, hOpen, hTab, hPicks, hDetail, hComparing, hCalls, hFaults>>
  BY DEF H!CloseComparison, H!drawer
<1>2. ServerInv' /\ HCallsInv' /\ ChangesInv' /\ DrawerInv'
  BY <1>1 DEF HistoryInv, ServerInv, HCallsInv, ChangesInv, DrawerInv, H!EndIsTold, Waits
<1>3. ComparisonInv'
  <2>1. /\ hComparison'.open = FALSE
        /\ hComparison' = [open |-> hComparison'.open, diff |-> hComparison'.diff, error |-> hComparison'.error]
    BY <1>1 DEF H!NoComparison
  <2> QED BY <1>1, <2>1 DEF HistoryInv, ComparisonInv, Waits
<1> QED BY <1>2, <1>3 DEF HistoryInv

LEMMA FetchChangesStep ==
  ASSUME HistoryInv, NEW offset \in Nat, H!FetchChanges(offset) PROVE HistoryInv'
<1> DEFINE c == H!ChangesCall(offset)
<1>1. /\ H!Send(c) /\ hChanges' = [hChanges EXCEPT !.busy = TRUE]
      /\ UNCHANGED <<hSaved, hLog, hSnapshots, hOpen, hTab, hPicks, hDetail, hComparing, hComparison, hFaults>>
  BY DEF H!FetchChanges, H!drawer
<1>2. c = [op |-> "changes", offset |-> offset, rows |-> None]
  BY DEF H!ChangesCall
<1> HIDE DEF c
<1>3. c.op = "changes"
  BY <1>2
<1>4. hCalls' = hCalls \cup {c} /\ (\A op : Waits(op) => Waits(op)') /\ Waits("changes")'
  BY <1>1, <1>3, Sent
<1>5. ServerInv'
  BY <1>1 DEF HistoryInv, ServerInv
<1>6. HCallsInv'
  <2>1. GoodCall(c, hSaved', hLog')
    BY <1>2 DEF GoodCall
  <2> QED BY <1>1, <1>4, <2>1 DEF HistoryInv, HCallsInv
<1>7. ChangesInv'
  <2>1. /\ hChanges' \in [rows : Seq(1 .. hLog'), more : BOOLEAN, busy : BOOLEAN]
        /\ hChanges'.rows = hChanges.rows /\ hChanges'.more = hChanges.more
    BY <1>1 DEF HistoryInv, ChangesInv
  <2> QED BY <1>4, <2>1 DEF HistoryInv, ChangesInv, H!EndIsTold
<1>8. DrawerInv'
  BY <1>1, <1>4 DEF HistoryInv, DrawerInv
<1>9. ComparisonInv'
  BY <1>1, <1>3, <1>4, ComparisonKept DEF HistoryInv
<1> QED BY <1>5, <1>6, <1>7, <1>8, <1>9 DEF HistoryInv

LEMMA GrowStep ==
  ASSUME HistoryInv, H!SaveVersion \/ H!Mutate PROVE HistoryInv'
<1> DEFINE c == H!VersionsCall
<1>1. /\ UNCHANGED <<hSnapshots, hChanges, hOpen, hTab, hPicks, hDetail, hComparing, hComparison, hFaults>>
      /\ \/ hSaved < Len(Saves) /\ hSaved' = hSaved + 1 /\ hLog' = hLog /\ H!Send(c)
         \/ hLog < MaxLog /\ hLog' = hLog + 1 /\ hSaved' = hSaved /\ hCalls' = hCalls
  BY DEF H!SaveVersion, H!Mutate, H!drawer
<1>2. c = [op |-> "versions", got |-> None]
  BY DEF H!VersionsCall
<1> HIDE DEF c
<1>3. c.op = "versions" /\ \A n, m : GoodCall(c, n, m)
  BY <1>2 DEF GoodCall
<1>4. hCalls' \subseteq hCalls \cup {c} /\ hCalls \subseteq hCalls'
  BY <1>1, Sent
<1>5. ServerInv /\ ServerInv' /\ hSaved <= hSaved' /\ hLog <= hLog'
  <2>1. ServerInv /\ hSaved \in Nat /\ hLog \in Nat /\ Len(Saves) \in Nat /\ MaxLog \in Nat
    BY ServerNumbers DEF HistoryInv
  <2>2. hSnapshots' \subseteq 1 .. hSaved'
    BY <1>1, <2>1 DEF ServerInv
  <2> QED BY <1>1, <2>1, <2>2 DEF ServerInv
<1>6. \A op : Waits(op) => Waits(op)'
  BY <1>4 DEF Waits
<1>7. HCallsInv'
  BY <1>3, <1>4, <1>5, HCallsKept DEF HistoryInv
<1>8. ChangesInv' /\ DrawerInv'
  BY <1>1, <1>5, <1>6, ChangesKept, DrawerKept DEF HistoryInv
<1>9. ComparisonInv'
  BY <1>1, <1>3, <1>4, ComparisonKept DEF HistoryInv
<1> QED BY <1>5, <1>7, <1>8, <1>9 DEF HistoryInv

LEMMA HistoryClientStep ==
  ASSUME HistoryInv, H!Client PROVE HistoryInv'
<1>1. CASE H!LoadMore
  <2>1. PICK o \in Nat : H!FetchChanges(o)
    BY <1>1 DEF H!LoadMore, HistoryInv, ChangesInv
  <2> QED BY <2>1, FetchChangesStep
<1>2. CASE H!RefetchEvent
  <2>1. PICK o \in Nat : H!FetchChanges(o)
    BY <1>2 DEF H!RefetchEvent
  <2> QED BY <2>1, FetchChangesStep
<1> QED BY <1>1, <1>2, DrawerStep, SelectStep, CompareStep, CloseComparisonStep, GrowStep DEF H!Client

-----------------------------------------------------------------------------
(* The history: answers *)

\* A list is read: its call stays, with what it found.
LEMMA HistoryServeStep ==
  ASSUME HistoryInv, NEW c \in hCalls, H!ServeVersions(c) \/ H!ServeChanges(c) PROVE HistoryInv'
<1>1. /\ c.op \in {"versions", "changes"}
      /\ UNCHANGED <<hSaved, hLog, hSnapshots, hChanges, hOpen, hTab, hPicks, hDetail,
                     hComparing, hComparison, hFaults>>
  BY DEF H!ServeVersions, H!ServeChanges, H!drawer
<1>2. GoodCall(c, hSaved, hLog) /\ hSaved \in Nat /\ hLog \in Nat
  BY ServerNumbers DEF HistoryInv, HCallsInv
<1>3. PICK e : hCalls' = (hCalls \ {c}) \cup {e} /\ e.op = c.op /\ GoodCall(e, hSaved, hLog)
  <2>1. CASE H!ServeVersions(c)
    <3>1. PICK g : g = H!Listed(hSaved)
      OBVIOUS
    <3>2. c.op = "versions" /\ hCalls' = (hCalls \ {c}) \cup {[c EXCEPT !.got = g]}
      BY <2>1, <3>1 DEF H!ServeVersions
    <3>3. [c EXCEPT !.got = g] = [op |-> "versions", got |-> g]
      BY <1>2, <3>2 DEF GoodCall
    <3>4. GoodCall([op |-> "versions", got |-> g], hSaved, hLog)
      <4>1. \E k \in 0 .. hSaved : g = H!Listed(k)
        BY <1>2, <3>1
      <4> QED BY <4>1 DEF GoodCall
    <3> QED BY <3>2, <3>3, <3>4
  <2>2. CASE H!ServeChanges(c)
    <3>1. PICK r : r = H!Page(hLog, c.offset)
      OBVIOUS
    <3>2. c.op = "changes" /\ hCalls' = (hCalls \ {c}) \cup {[c EXCEPT !.rows = r]}
      BY <2>2, <3>1 DEF H!ServeChanges
    <3>3. [c EXCEPT !.rows = r] = [op |-> "changes", offset |-> c.offset, rows |-> r]
      BY <1>2, <3>2 DEF GoodCall
    <3>4. GoodCall([op |-> "changes", offset |-> c.offset, rows |-> r], hSaved, hLog)
      <4>1. (\E k \in 0 .. hLog : r = H!Page(k, c.offset)) /\ c.offset \in Nat
        BY <1>2, <3>1, <3>2 DEF GoodCall
      <4> QED BY <4>1 DEF GoodCall
    <3> QED BY <3>2, <3>3, <3>4
  <2> QED BY <2>1, <2>2
<1>4. \A op : Waits(op) => Waits(op)'
  BY <1>3 DEF Waits
<1>5. ServerInv /\ ServerInv' /\ hSaved <= hSaved' /\ hLog <= hLog'
  BY <1>1, <1>2 DEF HistoryInv, ServerInv
<1>6. HCallsInv'
  BY <1>1, <1>3, <1>5, HCallsKept DEF HistoryInv
<1>7. ChangesInv' /\ DrawerInv'
  BY <1>1, <1>4, <1>5, ChangesKept, DrawerKept DEF HistoryInv
<1>8. ComparisonInv'
  BY <1>1, <1>3, ComparisonKept DEF HistoryInv
<1> QED BY <1>5, <1>6, <1>7, <1>8 DEF HistoryInv

LEMMA VersionsArriveStep ==
  ASSUME HistoryInv, NEW c \in hCalls, H!VersionsArrive(c) PROVE HistoryInv'
<1>1. /\ c.op = "versions" /\ c.got # None /\ hCalls' = hCalls \ {c} /\ hSnapshots' = c.got
      /\ UNCHANGED <<hSaved, hLog, hChanges, hOpen, hTab, hPicks, hDetail, hComparing, hComparison, hFaults>>
  BY DEF H!VersionsArrive, H!drawer
<1>2. GoodCall(c, hSaved, hLog) /\ hSaved \in Nat /\ hLog \in Nat
  BY ServerNumbers DEF HistoryInv, HCallsInv
<1>3. hSnapshots' \subseteq 1 .. hSaved
  <2>1. PICK k \in 0 .. hSaved : c.got = H!Listed(k)
    BY <1>1, <1>2 DEF GoodCall
  <2> QED BY <1>1, <1>2, <2>1 DEF H!Listed
<1>4. ServerInv /\ ServerInv' /\ hSaved <= hSaved' /\ hLog <= hLog'
  BY <1>1, <1>2, <1>3 DEF HistoryInv, ServerInv
<1>5. (Waits("changes") => Waits("changes")') /\ (Waits("detail") => Waits("detail")')
  BY <1>1 DEF Waits
<1>6. HCallsInv'
  BY <1>1, <1>4, HCallsKept DEF HistoryInv
<1>7. ChangesInv' /\ DrawerInv'
  BY <1>1, <1>4, <1>5, ChangesKept, DrawerKept DEF HistoryInv
<1>8. ComparisonInv'
  BY <1>1, ComparisonKept DEF HistoryInv
<1> QED BY <1>4, <1>6, <1>7, <1>8 DEF HistoryInv

\* A page tells that there are more entries whenever its last is not the oldest.
LEMMA ChangesArriveStep ==
  ASSUME HistoryInv, NEW c \in hCalls, H!ChangesArrive(c) PROVE HistoryInv'
<1>1. /\ c.op = "changes" /\ c.rows # None /\ hCalls' = hCalls \ {c}
      /\ UNCHANGED <<hSaved, hLog, hSnapshots, hOpen, hTab, hPicks, hDetail, hComparing, hComparison, hFaults>>
  BY DEF H!ChangesArrive, H!drawer
<1>2. GoodCall(c, hSaved, hLog) /\ hSaved \in Nat /\ hLog \in Nat
  BY ServerNumbers DEF HistoryInv, HCallsInv
<1>3. PICK total \in (IF c.rows = <<>> THEN c.offset ELSE c.offset + c.rows[1]) .. hLog :
        hChanges' = [rows |-> c.rows, more |-> H!HasMore(c, total), busy |-> FALSE]
  BY DEF H!ChangesArrive
<1>4. ServerInv /\ ServerInv' /\ hSaved <= hSaved' /\ hLog <= hLog'
  BY <1>1, <1>2 DEF HistoryInv, ServerInv
<1>5. Waits("detail") => Waits("detail")'
  BY <1>1 DEF Waits
<1>6. HCallsInv'
  BY <1>1, <1>4, HCallsKept DEF HistoryInv
<1>7. ChangesInv'
  <2>1. c.offset \in Nat /\ \E k \in 0 .. hLog : c.rows = H!Page(k, c.offset)
    BY <1>1, <1>2 DEF GoodCall
  <2>2. PICK o \in Nat, k \in Nat : o = c.offset /\ k <= hLog /\ c.rows = H!Page(k, o)
    BY <1>2, <2>1
  <2>3. PICK n \in Nat : /\ H!Page(k, o) = [i \in 1 .. n |-> k - o - i + 1]
                         /\ H!Page(k, o) \in Seq(1 .. k) /\ Len(H!Page(k, o)) = n
    <3>1. PICK n \in Nat : n = Longest(k, o)
      BY PageRows
    <3>2. /\ H!Page(k, o) = [i \in 1 .. Longest(k, o) |-> k - o - i + 1]
          /\ H!Page(k, o) \in Seq(1 .. k) /\ Len(H!Page(k, o)) = Longest(k, o)
      BY PageRows
    <3> QED BY <3>1, <3>2, Zenon
  <2>4. PICK r \in Seq(1 .. k) : r = c.rows /\ Len(r) = n /\ r = [i \in 1 .. n |-> k - o - i + 1]
    BY <2>2, <2>3, Zenon
  <2>5. r \in Seq(1 .. hLog')
    <3>1. PICK S, T : S = 1 .. k /\ T = 1 .. hLog' /\ S \subseteq T
      BY <1>1, <1>2, <2>2
    <3> QED BY <2>4, <3>1, SeqGrows
  <2>6. /\ hChanges'.rows = r /\ hChanges'.busy = FALSE /\ hChanges'.more = H!HasMore(c, total)
        /\ hChanges' = [rows |-> r, more |-> H!HasMore(c, total), busy |-> FALSE]
    BY <1>3, <2>4
  <2>7. H!HasMore(c, total) \in BOOLEAN /\ H!HasMore(c, total) = (o + n < total)
    BY <2>2, <2>4 DEF H!HasMore
  <2>8. (r # <<>> /\ r[n] # 1) => o + n < total
    <3> SUFFICES ASSUME r # <<>>, r[n] # 1 PROVE o + n < total
      OBVIOUS
    <3>1. n >= 1
      BY <2>4
    <3>2. r[1] = k - o /\ r[n] = k - o - n + 1 /\ r[n] \in 1 .. k
      BY <2>4, <3>1
    <3>3. total \in (o + (k - o)) .. hLog
      BY <1>3, <2>2, <2>4, <3>2
    <3>4. total \in Int /\ total >= k
      BY <1>2, <3>3
    <3> QED BY <3>2, <3>4
  <2>9. H!EndIsTold'
    <3>1. H!Last(hChanges'.rows) = r[n]
      BY <2>4, <2>6 DEF H!Last
    <3> QED BY <2>6, <2>7, <2>8, <3>1 DEF H!EndIsTold
  <2>10. hChanges' \in [rows : Seq(1 .. hLog'), more : BOOLEAN, busy : BOOLEAN]
    BY <2>5, <2>6, <2>7
  <2> QED BY <2>6, <2>9, <2>10 DEF ChangesInv
<1>8. DrawerInv'
  BY <1>1, <1>4, <1>5, DrawerKept DEF HistoryInv
<1>9. ComparisonInv'
  BY <1>1, ComparisonKept DEF HistoryInv
<1> QED BY <1>4, <1>6, <1>7, <1>8, <1>9 DEF HistoryInv

LEMMA DetailArrivesStep ==
  ASSUME HistoryInv, NEW c \in hCalls, H!DetailArrives(c) PROVE HistoryInv'
<1>1. /\ c.op = "detail" /\ hCalls' = hCalls \ {c}
      /\ hDetail' = [hDetail EXCEPT !.of = c.of, !.busy = FALSE]
      /\ UNCHANGED <<hSaved, hLog, hSnapshots, hChanges, hOpen, hTab, hPicks, hComparing, hComparison, hFaults>>
  BY DEF H!DetailArrives
<1>2. GoodCall(c, hSaved, hLog) /\ hSaved \in Nat /\ hLog \in Nat
  BY ServerNumbers DEF HistoryInv, HCallsInv
<1>3. ServerInv /\ ServerInv' /\ hSaved <= hSaved' /\ hLog <= hLog'
  BY <1>1, <1>2 DEF HistoryInv, ServerInv
<1>4. Waits("changes") => Waits("changes")'
  BY <1>1 DEF Waits
<1>5. HCallsInv'
  BY <1>1, <1>3, HCallsKept DEF HistoryInv
<1>6. ChangesInv'
  BY <1>1, <1>3, <1>4, ChangesKept DEF HistoryInv
<1>7. DrawerInv'
  <2>1. c.of \in 1 .. hSaved
    BY <1>1, <1>2 DEF GoodCall
  <2>2. hDetail' \in [of : {None} \cup 1 .. hSaved', busy : BOOLEAN, error : BOOLEAN] /\ hDetail'.busy = FALSE
    BY <1>1, <2>1 DEF HistoryInv, DrawerInv
  <2> QED BY <1>1, <2>2 DEF HistoryInv, DrawerInv
<1>8. ComparisonInv'
  BY <1>1, ComparisonKept DEF HistoryInv
<1> QED BY <1>3, <1>5, <1>6, <1>7, <1>8 DEF HistoryInv

LEMMA ComparisonArrivesStep ==
  ASSUME HistoryInv, NEW c \in hCalls, H!ComparisonArrives(c) PROVE HistoryInv'
<1>1. /\ c.op = "compare" /\ hCalls' = hCalls \ {c} /\ hComparing' = FALSE
      /\ hComparison' = [hComparison EXCEPT !.diff = H!Diff(c.a, c.b)]
      /\ UNCHANGED <<hSaved, hLog, hSnapshots, hChanges, hOpen, hTab, hPicks, hDetail, hFaults>>
  BY DEF H!ComparisonArrives, H!drawer
<1>2. GoodCall(c, hSaved, hLog) /\ hSaved \in Nat /\ hLog \in Nat
  BY ServerNumbers DEF HistoryInv, HCallsInv
<1>3. ServerInv /\ ServerInv' /\ hSaved <= hSaved' /\ hLog <= hLog'
  BY <1>1, <1>2 DEF HistoryInv, ServerInv
<1>4. (Waits("changes") => Waits("changes")') /\ (Waits("detail") => Waits("detail")')
  BY <1>1 DEF Waits
<1>5. HCallsInv'
  BY <1>1, <1>3, HCallsKept DEF HistoryInv
<1>6. ChangesInv' /\ DrawerInv'
  BY <1>1, <1>3, <1>4, ChangesKept, DrawerKept DEF HistoryInv
<1>7. ComparisonInv'
  <2>1. c.a \in H!Version /\ c.b \in H!Version /\ c.a < c.b
    BY <1>1, <1>2 DEF GoodCall
  <2>2. PICK d : d = H!Diff(c.a, c.b)
    OBVIOUS
  <2>3. /\ hComparison'.open = hComparison.open /\ hComparison'.diff = d
        /\ hComparison' = [open |-> hComparison'.open, diff |-> hComparison'.diff, error |-> hComparison'.error]
    BY <1>1, <2>2 DEF HistoryInv, ComparisonInv
  <2>4. hComparing /\ (hComparison.open => Picks = {c.a, c.b})
    BY <1>1 DEF HistoryInv, ComparisonInv, Waits
  <2>5. \A e \in hCalls' : e.op # "compare"
    BY <1>1 DEF HistoryInv, ComparisonInv
  <2>6. Picks' = Picks
    BY <1>1 DEF Picks
  <2>7. hComparison.open \in BOOLEAN /\ (~hOpen => ~hComparison.open /\ hPicks = <<None, None>>)
    BY DEF HistoryInv, ComparisonInv
  <2> QED BY <1>1, <2>1, <2>2, <2>3, <2>4, <2>5, <2>6, <2>7 DEF ComparisonInv, Waits
<1> QED BY <1>3, <1>5, <1>6, <1>7 DEF HistoryInv

LEMMA HistoryFailStep ==
  ASSUME HistoryInv, NEW c \in hCalls, H!Fail(c) PROVE HistoryInv'
<1>1. /\ hFaults < MaxHistoryFaults /\ hFaults' = hFaults + 1 /\ hCalls' = hCalls \ {c}
      /\ hChanges' = IF c.op = "changes" THEN [hChanges EXCEPT !.busy = FALSE] ELSE hChanges
      /\ hDetail' = IF c.op = "detail" THEN [hDetail EXCEPT !.busy = FALSE, !.error = TRUE] ELSE hDetail
      /\ hComparing' = (hComparing /\ c.op # "compare")
      /\ hComparison' = IF c.op = "compare" THEN [hComparison EXCEPT !.diff = None, !.error = TRUE] ELSE hComparison
      /\ UNCHANGED <<hSaved, hLog, hSnapshots, hOpen, hTab, hPicks>>
  BY DEF H!Fail, H!Failed
<1>2. hSaved \in Nat /\ hLog \in Nat /\ MaxHistoryFaults \in Nat
  BY ServerNumbers DEF HistoryInv
<1>3. ServerInv /\ ServerInv' /\ hSaved <= hSaved' /\ hLog <= hLog'
  BY <1>1, <1>2 DEF HistoryInv, ServerInv
<1>4. HCallsInv'
  BY <1>1, <1>3, HCallsKept DEF HistoryInv
<1>5. ChangesInv'
  <2>1. /\ hChanges' \in [rows : Seq(1 .. hLog'), more : BOOLEAN, busy : BOOLEAN]
        /\ hChanges'.rows = hChanges.rows /\ hChanges'.more = hChanges.more
        /\ hChanges'.busy => hChanges.busy /\ c.op # "changes"
    BY <1>1 DEF HistoryInv, ChangesInv
  <2>2. hChanges'.busy => Waits("changes")'
    BY <1>1, <2>1 DEF HistoryInv, ChangesInv, Waits
  <2> QED BY <2>1, <2>2 DEF HistoryInv, ChangesInv, H!EndIsTold
<1>6. DrawerInv'
  <2>1. /\ hDetail' \in [of : {None} \cup 1 .. hSaved', busy : BOOLEAN, error : BOOLEAN]
        /\ hDetail'.busy => hDetail.busy /\ c.op # "detail"
    BY <1>1 DEF HistoryInv, DrawerInv
  <2>2. hDetail'.busy => Waits("detail")'
    BY <1>1, <2>1 DEF HistoryInv, DrawerInv, Waits
  <2> QED BY <1>1, <2>1, <2>2 DEF HistoryInv, DrawerInv
<1>7. ComparisonInv'
  <2>1. CASE c.op # "compare"
    <3>1. UNCHANGED <<hOpen, hPicks, hComparing, hComparison>>
      BY <1>1, <2>1 DEF HistoryInv, ComparisonInv
    <3> QED BY <1>1, <2>1, <3>1, ComparisonKept DEF HistoryInv
  <2>2. CASE c.op = "compare"
    <3>1. /\ hComparison'.open = hComparison.open /\ hComparison'.diff = None
          /\ hComparison' = [open |-> hComparison'.open, diff |-> hComparison'.diff, error |-> hComparison'.error]
      BY <1>1, <2>2 DEF HistoryInv, ComparisonInv
    <3>2. hComparing' = FALSE
      BY <1>1, <2>2
    <3>3. \A e \in hCalls' : e.op # "compare"
      BY <1>1, <2>2 DEF HistoryInv, ComparisonInv
    <3>4. hComparison.open \in BOOLEAN /\ (~hOpen => ~hComparison.open /\ hPicks = <<None, None>>)
      BY DEF HistoryInv, ComparisonInv
    <3> QED BY <1>1, <3>1, <3>2, <3>3, <3>4 DEF ComparisonInv, Waits
  <2> QED BY <2>1, <2>2
<1> QED BY <1>3, <1>4, <1>5, <1>6, <1>7 DEF HistoryInv

LEMMA HistoryStep == HistoryInv /\ [H!Next]_H!vars => HistoryInv'
<1> SUFFICES ASSUME HistoryInv, [H!Next]_H!vars PROVE HistoryInv'
  OBVIOUS
<1>1. CASE UNCHANGED H!vars
  <2>1. UNCHANGED <<hSaved, hLog, hSnapshots, hChanges, hOpen, hTab, hPicks, hDetail,
                    hComparing, hComparison, hCalls, hFaults>>
    BY <1>1 DEF H!vars, H!drawer
  <2>2. ServerInv' /\ HCallsInv'
    BY <2>1 DEF HistoryInv, ServerInv, HCallsInv
  <2>3. ChangesInv' /\ DrawerInv'
    BY <2>1 DEF HistoryInv, ChangesInv, DrawerInv, Waits, H!EndIsTold
  <2>4. ComparisonInv'
    BY <2>1, ComparisonKept DEF HistoryInv
  <2> QED BY <2>2, <2>3, <2>4 DEF HistoryInv
<1>2. CASE H!Network
  <2>1. PICK c \in hCalls :
          \/ H!ServeVersions(c) \/ H!VersionsArrive(c) \/ H!ServeChanges(c) \/ H!ChangesArrive(c)
          \/ H!DetailArrives(c) \/ H!ComparisonArrives(c) \/ H!Fail(c)
    BY <1>2 DEF H!Network
  <2> QED BY <2>1, HistoryServeStep, VersionsArriveStep, ChangesArriveStep, DetailArrivesStep,
             ComparisonArrivesStep, HistoryFailStep
<1> QED BY <1>1, <1>2, HistoryClientStep DEF H!Next

LEMMA HistoryInvariance == H!Spec => []HistoryInv
  BY HistoryInit, HistoryStep, PTL DEF H!Spec

LEMMA HistoryTyped == HistoryInv => H!TypeOK
<1> SUFFICES ASSUME HistoryInv PROVE H!TypeOK
  OBVIOUS
<1>1. \A i \in 1 .. 2 : hPicks[i] \in {None} \cup H!Version
  BY DEF HistoryInv, DrawerInv
<1>2. hChanges.rows \in Seq(1 .. hLog) /\ hDetail.of \in {None} \cup 1 .. hSaved
  BY DEF HistoryInv, ChangesInv, DrawerInv
<1> QED BY <1>1, <1>2 DEF HistoryInv, ServerInv, DrawerInv, ComparisonInv, H!TypeOK

LEMMA HistoryShown == HistoryInv => H!HistoryIsTrue
<1> SUFFICES ASSUME HistoryInv PROVE H!HistoryIsTrue
  OBVIOUS
<1>1. H!SpinnersHaveCalls
  BY DEF HistoryInv, ChangesInv, DrawerInv, ComparisonInv, Waits, H!SpinnersHaveCalls
<1>2. H!ComparisonExplains
  <2> SUFFICES ASSUME hComparison.open, ~hComparing, hComparison.diff # None, H!Ordered # None
               PROVE  H!Patched(Saves[H!Ordered[1]], hComparison.diff) = Saves[H!Ordered[2]]
    BY DEF H!ComparisonExplains
  <2>1. PICK a \in H!Version, b \in H!Version :
               a < b /\ Picks = {a, b} /\ hComparison.diff = H!Diff(a, b)
    BY DEF HistoryInv, ComparisonInv
  <2>2. PICK x \in H!Version, y \in H!Version : x < y /\ Picks = {x, y} /\ H!Ordered = <<x, y>>
    BY OrderedPicks
  <2>3. a \in Int /\ b \in Int /\ x \in Int /\ y \in Int
    BY DEF H!Version
  <2>4. {a, b} = {x, y}
    BY <2>1, <2>2, Zenon
  <2>5. x = a /\ y = b
    BY <2>1, <2>2, <2>3, <2>4
  <2> QED BY <2>1, <2>2, <2>5, PatchedIsNewer
<1> QED BY <1>1, <1>2 DEF H!HistoryIsTrue, HistoryInv, ChangesInv

-----------------------------------------------------------------------------
(* The page: theorems *)

\* A behaviour of the page is one of the panel and one of the history.
LEMMA Sides == PageSpec => Spec /\ H!Spec
<1>1. PageInit => Init /\ H!Init
  BY DEF PageInit
<1>2. [PageNext]_<<part, vars, hVars>> => [Next]_vars /\ [H!Next]_H!vars
  BY DEF PageNext, hVars, H!vars, H!drawer
<1> QED BY <1>1, <1>2, PTL DEF PageSpec, Spec, H!Spec

\* Every call, card and modal of the panel, and every pick, page and detail of
\* the history, has its type; a version is picked once (PortfolioPanel.tsx,
\* VersioningDrawer.tsx).
THEOREM TypeCorrect == PageSpec => []PageTypeOK
<1>1. PanelInv /\ HistoryInv => PageTypeOK
  BY PanelTyped, HistoryTyped DEF PageTypeOK
<1> QED BY <1>1, Sides, PanelInvariance, HistoryInvariance, PTL

\* An open comparison shows the difference of the two versions that are picked,
\* the older first, and it makes the newer of the older; whatever waits has its
\* call; and the page of the change log that is shown has "more" unless it ends
\* with the oldest entry (VersioningDrawer.tsx, ComparisonView.tsx,
\* db/versioning.py).
THEOREM HistoryTrue == PageSpec => []HistoryIsTrue
<1>1. HistoryInv => HistoryIsTrue
  BY HistoryShown DEF HistoryIsTrue
<1> QED BY <1>1, Sides, HistoryInvariance, PTL
=============================================================================
