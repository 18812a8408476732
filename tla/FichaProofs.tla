------------------------- MODULE FichaProofs -------------------------
(* Machine-checked proofs about FichaPage: about FichaReview, for every set  *)
(* of fichas, lines and clients, and about FichaCuration, for every set of   *)
(* cards, every tree of series and administrators and every precision; any   *)
(* number of calls in flight and any number of failures.                     *)
EXTENDS FichaPage, TLAPS

USE FichaAssumption

-----------------------------------------------------------------------------
(* The review: its inductive invariant *)

Client == {ClientOf[f] : f \in Ficha \cup {None}}

FichaCall    == [op : {"parse", "get", "finish"}, f : Ficha]
ListCall     == [op : {"list"}, tab : Filter, done : BOOLEAN, found : SUBSET Ficha]
DecideCall   == [op : {"decide"}, l : Line, status : LineState]
ApproveCall  == [op : {"approve"}, l : Line, client : Client, tab : Filter]
ResearchCall == [op : {"research"}, l : Line]
ConfirmCall  == [op : {"confirm"}, lines : SUBSET Line, client : Client,
                 sel : Ficha \cup {None}, tab : Filter, live : BOOLEAN]
DeleteCall   == [op : {"delete"}, f : Ficha, sel : Ficha \cup {None}, tab : Filter]

Typed(c) ==
  c \in FichaCall \cup ListCall \cup DecideCall \cup ApproveCall
          \cup ResearchCall \cup ConfirmCall \cup DeleteCall

\* A call that is still to be served carries what the admin approved, under the
\* client and the ficha of the lines; one that marks a ficha comes after the
\* import of its lines.
Sound(c, acc, mix, held) ==
  /\ c.op = "approve" =>
       c.l \in acc /\ (~mix => c.client = ClientOf[FichaOf[c.l]])
  /\ c.op = "confirm" =>
       /\ c.lines \subseteq acc /\ c.lines # {}
       /\ ~mix => \A l \in c.lines : c.client = ClientOf[FichaOf[l]] /\ FichaOf[l] = c.sel
  /\ c.op = "finish" =>
       (~mix => \E h \in held : FichaOf[h.line] = c.f /\ h.by = "confirm")

SoundNow(c)  == Sound(c, accepted, mixed, holdings)
SoundNext(c) == Sound(c, accepted', mixed', holdings')

CallsInv == \A c \in calls : Typed(c) /\ SoundNow(c)

DbInv ==
  /\ saved \subseteq Ficha /\ confirmed \subseteq saved
  /\ lineStatus \in [Line -> Decision]
  /\ \A h \in holdings : h.line \in Line /\ h.by \in {"approve", "confirm"}
  /\ HoldingsAreApproved

\* The table hangs under the review it was mounted for, the one that is
\* selected, until a ficha is opened over it; what it marks was approved.
PageInv ==
  /\ pane \in PaneState /\ review \in Ficha \cup {None} /\ selected \in Ficha \cup {None}
  /\ filter \in Filter /\ listed \subseteq Ficha /\ mounted \in Ficha \cup {None}
  /\ row \in [Line -> [mapped : BOOLEAN, mark : Decision]]
  /\ busy \in Line \cup {None} /\ submitting \in BOOLEAN
  /\ accepted \subseteq Line /\ mixed \in BOOLEAN
  /\ pane = "review" <=> mounted # None
  /\ review = None <=> mounted = None
  /\ (~mixed /\ mounted # None) => (mounted = review /\ selected = review)
  /\ \A l \in Line : row[l].mark = "approved" => l \in accepted

IInv == DbInv /\ PageInv /\ CallsInv /\ WaitingHasCalls

-----------------------------------------------------------------------------
(* The review: calls *)

\* What a call carries keeps its meaning as approvals and holdings are added.
LEMMA SoundKept ==
  ASSUME accepted \subseteq accepted', holdings \subseteq holdings', mixed => mixed',
         NEW c, SoundNow(c)
  PROVE  SoundNext(c)
  BY DEF Sound, SoundNow, SoundNext

\* A table that is taken down takes its calls with it, but for the confirmation
\* it sent, which goes on without it.
LEMMA DetachedCalls ==
  ASSUME NEW cs, \A c \in cs : Typed(c) /\ SoundNow(c)
  PROVE  \A d \in Detached(cs) : Typed(d) /\ SoundNow(d)
<1> SUFFICES ASSUME NEW d \in Detached(cs) PROVE Typed(d) /\ SoundNow(d)
  OBVIOUS
<1>1. CASE d \in cs
  BY <1>1
<1>2. CASE \E c \in cs : c.op = "confirm" /\ d = [c EXCEPT !.live = FALSE]
  <2>1. PICK c \in cs : c.op = "confirm" /\ d = [c EXCEPT !.live = FALSE]
    BY <1>2
  <2>2. c \in ConfirmCall
    BY <2>1 DEF Typed, FichaCall, ListCall, DecideCall, ApproveCall, ResearchCall, DeleteCall
  <2>3. /\ d \in ConfirmCall /\ d.op = "confirm"
        /\ d.lines = c.lines /\ d.client = c.client /\ d.sel = c.sel
    BY <2>1, <2>2 DEF ConfirmCall
  <2> QED BY <2>1, <2>3 DEF Typed, Sound, SoundNow, SoundNext
<1> QED BY <1>1, <1>2 DEF Detached

\* Calls that go leave the rest; calls that come are typed and sound.
LEMMA CallsStep ==
  ASSUME CallsInv, NEW old, old \subseteq calls, NEW new,
         \/ calls' = old \cup new
         \/ calls' = Detached(old) \cup new,
         \A c \in new : Typed(c) /\ SoundNext(c),
         accepted \subseteq accepted', holdings \subseteq holdings', mixed => mixed'
  PROVE  CallsInv'
<1>1. \A c \in old : Typed(c) /\ SoundNow(c)
  BY DEF CallsInv
<1>2. \A c \in Detached(old) : Typed(c) /\ SoundNow(c)
  BY <1>1, DetachedCalls
<1>3. ASSUME NEW c \in calls' PROVE Typed(c) /\ SoundNext(c)
  BY <1>1, <1>2, <1>3, SoundKept
<1> QED BY <1>3 DEF CallsInv, SoundNow, SoundNext

\* What the server does for a call leaves holdings that were approved.
LEMMA Served ==
  ASSUME DbInv, CallsInv, NEW c \in calls, Good(c) \/ Bad(c),
         accepted' = accepted, mixed => mixed'
  PROVE  DbInv' /\ holdings \subseteq holdings'
<1>0. Typed(c) /\ SoundNow(c)
  BY DEF CallsInv
<1>1. CASE UNCHANGED db
  BY <1>1 DEF db, DbInv, HoldingsAreApproved, OnlyApproved, ClientsOwnLines, ConfirmedImported
<1>2. CASE Effect(c)
  <2> USE DEF HoldingsAreApproved, OnlyApproved, ClientsOwnLines, ConfirmedImported
  <2>1. CASE c.op = "parse"
    <3>1. c.f \in Ficha
      BY <1>0, <2>1 DEF Typed, FichaCall, ListCall, DecideCall, ApproveCall, ResearchCall,
                        ConfirmCall, DeleteCall
    <3> QED BY <1>2, <2>1, <3>1 DEF Effect, DbInv
  <2>2. CASE c.op = "decide"
    <3>1. c.l \in Line /\ c.status \in LineState
      BY <1>0, <2>2 DEF Typed, FichaCall, ListCall, DecideCall, ApproveCall, ResearchCall,
                        ConfirmCall, DeleteCall
    <3> QED BY <1>2, <2>2, <3>1 DEF Effect, DbInv, Decision, LineState
  <2>3. CASE c.op = "approve"
    <3>1. c.l \in Line
      BY <1>0, <2>3 DEF Typed, FichaCall, ListCall, DecideCall, ApproveCall, ResearchCall,
                        ConfirmCall, DeleteCall
    <3>2. /\ holdings' = holdings \cup {[line |-> c.l, client |-> c.client, by |-> "approve"]}
          /\ UNCHANGED <<saved, lineStatus, confirmed>>
      BY <1>2, <2>3 DEF Effect, Created
    <3> QED BY <1>0, <2>3, <3>1, <3>2 DEF DbInv, Sound, SoundNow, SoundNext
  <2>4. CASE c.op = "confirm"
    <3>1. c.lines \subseteq Line
      BY <1>0, <2>4 DEF Typed, FichaCall, ListCall, DecideCall, ApproveCall, ResearchCall,
                        ConfirmCall, DeleteCall
    <3>2. /\ holdings' = holdings \cup {[line |-> l, client |-> c.client, by |-> "confirm"] : l \in c.lines}
          /\ UNCHANGED <<saved, lineStatus, confirmed>>
      BY <1>2, <2>4 DEF Effect, Created
    <3> QED BY <1>0, <2>4, <3>1, <3>2 DEF DbInv, Sound, SoundNow, SoundNext
  <2>5. CASE c.op = "finish"
    <3>1. /\ confirmed' = confirmed \cup ({c.f} \cap saved)
          /\ UNCHANGED <<saved, lineStatus, holdings>>
      BY <1>2, <2>5 DEF Effect
    <3> QED BY <1>0, <2>5, <3>1 DEF DbInv, Sound, SoundNow, SoundNext
  <2>6. CASE c.op = "delete"
    <3>1. /\ saved' = saved \ {c.f} /\ confirmed' = confirmed \ {c.f}
          /\ UNCHANGED <<lineStatus, holdings>>
      BY <1>2, <2>6 DEF Effect
    <3> QED BY <3>1 DEF DbInv
  <2>7. CASE c.op \notin {"parse", "decide", "approve", "confirm", "finish", "delete"}
    <3>1. UNCHANGED db
      BY <1>2, <2>7 DEF Effect
    <3> QED BY <1>1, <3>1
  <2> QED BY <2>1, <2>2, <2>3, <2>4, <2>5, <2>6, <2>7
<1> QED BY <1>1, <1>2 DEF Good, Bad
-----------------------------------------------------------------------------
(* The review: the page *)

\* A review that is shown is selected, and mounted if none was.
LEMMA ShowPage ==
  ASSUME PageInv, NEW f \in Ficha, Show(f), selected' = f, UNCHANGED <<sidebar, accepted>>
  PROVE  PageInv' /\ (mixed => mixed') /\ pane' = "review"
<1>1. pane' = "review" /\ review' = f /\ mixed' = (mixed \/ (pane = "review" /\ review # f))
  BY DEF Show
<1>2. CASE mounted = None
  <2>1. mounted' = f /\ row' = FirstRows(f) /\ UNCHANGED <<busy, submitting>>
    BY <1>2 DEF Show
  <2>2. /\ FirstRows(f) \in [Line -> [mapped : BOOLEAN, mark : Decision]]
        /\ \A l \in Line : FirstRows(f)[l].mark = "pending"
    BY DEF FirstRows, Decision
  <2> QED BY <1>1, <1>2, <2>1, <2>2 DEF PageInv, sidebar, PaneState
<1>3. CASE mounted # None
  <2>1. UNCHANGED table
    BY <1>3 DEF Show
  <2> QED BY <1>1, <1>3, <2>1 DEF PageInv, sidebar, table, PaneState
<1> QED BY <1>2, <1>3, <1>1

\* Nothing is left of a table that is taken down.
LEMMA HidePage ==
  ASSUME PageInv, pane' \in PaneState \ {"review"}, review' = None, Unmount,
         selected' \in {selected, None}, UNCHANGED <<sidebar, past>>
  PROVE  PageInv'
<1>1. Blank \in [Line -> [mapped : BOOLEAN, mark : Decision]]
      /\ \A l \in Line : Blank[l].mark = "pending"
  BY DEF Blank, Decision
<1> QED BY <1>1 DEF PageInv, Unmount, sidebar, past

\* What stands on the page is waited for, or nothing is.
LEMMA HideWaits ==
  ASSUME Unmount, pane' # "loading"
  PROVE  WaitingHasCalls'
  BY DEF Unmount, WaitingHasCalls

\* Calls that nothing on the page waits for come and go.
LEMMA WaitsKept ==
  ASSUME PageInv, WaitingHasCalls, NEW c, c.op \notin {"parse", "research", "confirm"},
         calls \ {c} \subseteq calls',
         pane' = "loading" => pane = "loading",
         busy' \in {busy, None}, submitting' => submitting
  PROVE  WaitingHasCalls'
  BY DEF WaitingHasCalls, Research, PageInv

\* Calls the admin starts, with what the page does not show.
LEMMA AdminStep ==
  ASSUME IInv, Admin
  PROVE  IInv'
<1>0. DbInv /\ PageInv /\ CallsInv /\ WaitingHasCalls
  BY DEF IInv
<1> USE <1>0
<1>1. ASSUME UNCHANGED <<db, past>> PROVE DbInv'
  BY <1>1 DEF db, past, DbInv, HoldingsAreApproved, OnlyApproved, ClientsOwnLines, ConfirmedImported
<1>2. ASSUME NEW c, Typed(c), SoundNext(c), calls' = calls \cup {c}, UNCHANGED <<db, past>>
      PROVE  CallsInv'
  <2>1. /\ accepted \subseteq accepted' /\ holdings \subseteq holdings' /\ (mixed => mixed')
        /\ calls \subseteq calls /\ \A d \in {c} : Typed(d) /\ SoundNext(d)
    BY <1>2 DEF db, past
  <2> QED BY <1>2, <2>1, CallsStep
<1>3. ASSUME NEW f \in Ficha, SelectFile(f) PROVE IInv'
  <2>1. /\ calls' = calls \cup {Parse(f)} /\ pane' = "loading" /\ pane = "idle"
        /\ UNCHANGED <<db, review, selected, sidebar, table, past>>
    BY <1>3 DEF SelectFile
  <2>2. Typed(Parse(f)) /\ SoundNext(Parse(f))
    BY DEF Typed, Sound, SoundNow, SoundNext, Parse, FichaCall
  <2>3. PageInv'
    BY <2>1 DEF PageInv, sidebar, table, past, PaneState
  <2>4. WaitingHasCalls'
    <3>1. Parse(f) \in calls' /\ Parse(f).op = "parse"
      BY <2>1 DEF Parse
    <3> QED BY <2>1, <3>1 DEF WaitingHasCalls, table
  <2> QED BY <1>1, <1>2, <2>1, <2>2, <2>3, <2>4 DEF IInv
<1>4. ASSUME NEW f \in Ficha, SelectFicha(f) PROVE IInv'
  <2>1. calls' = calls \cup {Get(f)} /\ UNCHANGED <<db, page, sidebar, table, past>>
    BY <1>4 DEF SelectFicha
  <2>2. Typed(Get(f)) /\ SoundNext(Get(f))
    BY DEF Typed, Sound, SoundNow, SoundNext, Get, FichaCall
  <2>3. PageInv' /\ WaitingHasCalls'
    BY <2>1 DEF PageInv, WaitingHasCalls, page, sidebar, table, past
  <2> QED BY <1>1, <1>2, <2>1, <2>2, <2>3 DEF IInv
<1>5. ASSUME NEW f \in Ficha, PressDelete(f) PROVE IInv'
  <2>1. calls' = calls \cup {Delete(f, selected, filter)} /\ UNCHANGED <<db, page, sidebar, table, past>>
    BY <1>5 DEF PressDelete
  <2>2. Typed(Delete(f, selected, filter)) /\ SoundNext(Delete(f, selected, filter))
    BY DEF Typed, Sound, SoundNow, SoundNext, Delete, DeleteCall, PageInv
  <2>3. PageInv' /\ WaitingHasCalls'
    BY <2>1 DEF PageInv, WaitingHasCalls, page, sidebar, table, past
  <2> QED BY <1>1, <1>2, <2>1, <2>2, <2>3 DEF IInv
<1>6. ASSUME NEW t \in Filter, SetFilter(t) PROVE IInv'
  <2>1. calls' = calls \cup {List(t)} /\ filter' = t /\ UNCHANGED <<db, page, listed, table, past>>
    BY <1>6 DEF SetFilter
  <2>2. Typed(List(t)) /\ SoundNext(List(t))
    BY DEF Typed, Sound, SoundNow, SoundNext, List, ListCall
  <2>3. PageInv' /\ WaitingHasCalls'
    BY <2>1 DEF PageInv, WaitingHasCalls, page, table, past
  <2> QED BY <1>1, <1>2, <2>1, <2>2, <2>3 DEF IInv
<1>7. ASSUME NEW l \in Line, ApproveRow(l) PROVE IInv'
  <2> DEFINE d == Decide(l, "approved")
             a == Approve(l, ClientOf[review], filter)
  <2>1. /\ calls' = calls \cup {d, a} /\ row' = [row EXCEPT ![l].mark = "approved"]
        /\ accepted' = accepted \cup {l} /\ pane = "review" /\ FichaOf[l] = mounted
        /\ UNCHANGED <<db, page, sidebar, mounted, busy, submitting, mixed>>
    BY <1>7 DEF ApproveRow, Card, LinesOf
  <2>2. Typed(d) /\ SoundNext(d)
    BY DEF Typed, Sound, SoundNow, SoundNext, Decide, DecideCall, LineState
  <2>3. Typed(a) /\ SoundNext(a)
    <3>1. review \in Ficha \cup {None} /\ filter \in Filter /\ (~mixed => mounted = review)
      BY <2>1 DEF PageInv
    <3>2. Typed(a)
      BY <3>1 DEF Typed, Approve, ApproveCall, Client
    <3> QED BY <2>1, <3>1, <3>2 DEF Sound, SoundNow, SoundNext, Approve
  <2>4. CallsInv'
    <3> HIDE DEF d, a
    <3>1. \A c \in {d, a} : Typed(c) /\ SoundNext(c)
      BY <2>2, <2>3
    <3>2. holdings \subseteq holdings' /\ (mixed => mixed') /\ accepted \subseteq accepted'
      BY <2>1 DEF db
    <3> QED BY <2>1, <3>1, <3>2, CallsStep
  <2>5. PageInv'
    BY <2>1 DEF PageInv, page, sidebar, Decision
  <2>6. DbInv' /\ WaitingHasCalls'
    BY <2>1 DEF db, DbInv, HoldingsAreApproved, OnlyApproved, ClientsOwnLines,
                ConfirmedImported, WaitingHasCalls, page
  <2> QED BY <2>4, <2>5, <2>6 DEF IInv
<1>8. ASSUME NEW l \in Line, DiscardRow(l) PROVE IInv'
  <2>1. /\ calls' = calls \cup {Decide(l, "discarded")} /\ row' = [row EXCEPT ![l].mark = "discarded"]
        /\ UNCHANGED <<db, page, sidebar, mounted, busy, submitting, past>>
    BY <1>8 DEF DiscardRow
  <2>2. Typed(Decide(l, "discarded")) /\ SoundNext(Decide(l, "discarded"))
    BY DEF Typed, Sound, SoundNow, SoundNext, Decide, DecideCall, LineState
  <2>3. PageInv' /\ WaitingHasCalls'
    BY <2>1 DEF PageInv, WaitingHasCalls, page, sidebar, past, Decision
  <2> QED BY <1>1, <1>2, <2>1, <2>2, <2>3 DEF IInv
<1>9. ASSUME NEW l \in Line, ResearchRow(l) PROVE IInv'
  <2>1. /\ calls' = calls \cup {Research(l)} /\ busy' = l
        /\ UNCHANGED <<db, page, sidebar, mounted, row, submitting, past>>
    BY <1>9 DEF ResearchRow
  <2>2. Typed(Research(l)) /\ SoundNext(Research(l))
    BY DEF Typed, Sound, SoundNow, SoundNext, Research, ResearchCall
  <2>3. PageInv' /\ WaitingHasCalls'
    BY <2>1 DEF PageInv, WaitingHasCalls, page, sidebar, past, Research
  <2> QED BY <1>1, <1>2, <2>1, <2>2, <2>3 DEF IInv
<1>10. ASSUME NEW l \in Line, NEW m \in BOOLEAN, ChooseClass(l, m) PROVE IInv'
  <2>1. /\ row' = [row EXCEPT ![l].mapped = m]
        /\ UNCHANGED <<db, page, sidebar, mounted, busy, submitting, calls, past>>
    BY <1>10 DEF ChooseClass
  <2>2. PageInv' /\ WaitingHasCalls'
    BY <2>1 DEF PageInv, WaitingHasCalls, page, sidebar, past
  <2>3. CallsInv'
    BY <2>1 DEF CallsInv, Sound, SoundNow, past, db
  <2> QED BY <1>1, <2>1, <2>2, <2>3 DEF IInv
<1>11. ASSUME PressReset PROVE IInv'
  <2>1. /\ pane' = "idle" /\ review' = None /\ selected' = None /\ Unmount
        /\ calls' = Detached(calls) /\ UNCHANGED <<db, sidebar, past>>
    BY <1>11 DEF PressReset, Reset
  <2>2. PageInv' /\ WaitingHasCalls'
    BY <2>1, HidePage, HideWaits DEF PaneState
  <2>3. CallsInv'
    <3>1. PICK none : none = {}
      OBVIOUS
    <3>2. /\ calls' = Detached(calls) \cup none /\ calls \subseteq calls
          /\ \A c \in none : Typed(c) /\ SoundNext(c)
      BY <2>1, <3>1
    <3>3. accepted \subseteq accepted' /\ (mixed => mixed') /\ holdings \subseteq holdings'
      BY <2>1 DEF past, db
    <3> QED BY <3>2, <3>3, CallsStep
  <2> QED BY <1>1, <2>1, <2>2, <2>3 DEF IInv, past
<1>12. ASSUME PressConfirm PROVE IInv'
  <2> DEFINE c == Confirm(Approved, ClientOf[review], selected, filter)
  <2>1. /\ calls' = calls \cup {c} /\ submitting' = TRUE /\ Approved # {}
        /\ UNCHANGED <<db, page, sidebar, mounted, row, busy, past>>
    BY <1>12 DEF PressConfirm
  <2>2. /\ Approved \subseteq Line /\ Approved \subseteq accepted
        /\ ~mixed => \A l \in Approved : FichaOf[l] = review /\ review = selected
    BY <1>12 DEF PressConfirm, Approved, Card, LinesOf, PageInv
  <2>3. Typed(c)
    BY <2>2 DEF Typed, Confirm, ConfirmCall, Client, PageInv
  <2>4. SoundNext(c)
    BY <2>1, <2>2 DEF Sound, SoundNow, SoundNext, Confirm, past
  <2>5. PageInv'
    BY <2>1 DEF PageInv, page, sidebar, past
  <2>6. WaitingHasCalls'
    <3>1. c \in calls' /\ c.op = "confirm" /\ c.live
      BY <2>1 DEF Confirm
    <3> QED BY <2>1, <3>1 DEF WaitingHasCalls, page
  <2> HIDE DEF c
  <2> QED BY <1>1, <1>2, <2>1, <2>3, <2>4, <2>5, <2>6 DEF IInv
<1> QED BY <1>3, <1>4, <1>5, <1>6, <1>7, <1>8, <1>9, <1>10, <1>11, <1>12 DEF Admin
-----------------------------------------------------------------------------
(* The review: the answers *)

\* The answer to a call, whatever it is, keeps the invariant.
LEMMA NetworkStep ==
  ASSUME IInv, Network
  PROVE  IInv'
<1>0. DbInv /\ PageInv /\ CallsInv /\ WaitingHasCalls
  BY DEF IInv
<1> USE <1>0
<1>c. PICK c \in calls : Answer(c)
  BY DEF Network
<1>t. Typed(c) /\ SoundNow(c) /\ Rest(c) \subseteq calls
  BY DEF CallsInv, Rest
<1> USE <1>c, <1>t
<1>f. c.op \in {"parse", "get", "delete"} => c.f \in Ficha
  BY DEF Typed, FichaCall, ListCall, DecideCall, ApproveCall, ResearchCall, ConfirmCall, DeleteCall
<1>l. filter \in Filter
  BY DEF PageInv
<1>n. \A t \in Filter : Typed(List(t)) /\ SoundNext(List(t))
  BY DEF Typed, List, ListCall, Sound, SoundNext
<1>1. ASSUME NEW new, calls' = Rest(c) \cup new \/ calls' = Detached(Rest(c)) \cup new,
             \A d \in new : Typed(d) /\ SoundNext(d),
             accepted' = accepted, mixed => mixed', holdings \subseteq holdings'
      PROVE  CallsInv'
  BY <1>1, CallsStep
<1>2. ASSUME calls' = Rest(c) \/ calls' = Detached(Rest(c)),
             accepted' = accepted, mixed => mixed', holdings \subseteq holdings'
      PROVE  CallsInv'
  <2>1. PICK none : none = {}
    OBVIOUS
  <2>2. /\ calls' = Rest(c) \cup none \/ calls' = Detached(Rest(c)) \cup none
        /\ \A d \in none : Typed(d) /\ SoundNext(d)
    BY <1>2, <2>1
  <2> QED BY <1>1, <1>2, <2>2
<1>d. ASSUME NEW d, calls' = Rest(c) \cup {d} \/ calls' = Detached(Rest(c)) \cup {d},
             Typed(d), SoundNext(d),
             accepted' = accepted, mixed => mixed', holdings \subseteq holdings'
      PROVE  CallsInv'
  <2>1. PICK new : new = {d}
    OBVIOUS
  <2>2. /\ calls' = Rest(c) \cup new \/ calls' = Detached(Rest(c)) \cup new
        /\ \A e \in new : Typed(e) /\ SoundNext(e)
    BY <1>d, <2>1
  <2> QED BY <1>1, <1>d, <2>2
<1>3. CASE ParseAnswered(c)
  <2>1. /\ c.op = "parse" /\ Good(c) /\ Show(c.f) /\ selected' = c.f
        /\ calls' = Rest(c) \cup {List(filter)} /\ UNCHANGED <<sidebar, accepted>>
    BY <1>3 DEF ParseAnswered
  <2>2. PageInv' /\ (mixed => mixed') /\ pane' = "review"
    BY <1>f, <2>1, ShowPage
  <2>3. DbInv' /\ holdings \subseteq holdings'
    BY <2>1, <2>2, Served
  <2>4. CallsInv'
    <3>1. PICK d : d = List(filter)
      OBVIOUS
    <3>2. calls' = Rest(c) \cup {d} /\ Typed(d) /\ SoundNext(d)
      BY <1>l, <1>n, <2>1, <3>1
    <3> QED BY <1>d, <2>1, <2>2, <2>3, <3>2
  <2>5. WaitingHasCalls'
    BY <2>1, <2>2 DEF WaitingHasCalls, Show, Unmount, table, Rest, Research, PageInv
  <2> QED BY <2>2, <2>3, <2>4, <2>5 DEF IInv
<1>4. CASE ParseFailed(c)
  <2>1. /\ Bad(c) /\ pane' = "idle" /\ review' = None /\ Unmount
        /\ calls' = Detached(Rest(c)) /\ UNCHANGED <<selected, sidebar, past>>
    BY <1>4 DEF ParseFailed
  <2>2. PageInv' /\ WaitingHasCalls'
    BY <2>1, HidePage, HideWaits DEF PaneState
  <2>3. accepted' = accepted /\ (mixed => mixed')
    BY <2>1 DEF past
  <2>4. DbInv' /\ holdings \subseteq holdings'
    BY <2>1, <2>3, Served
  <2> QED BY <1>2, <2>1, <2>2, <2>3, <2>4 DEF IInv
<1>5. CASE FichaLoaded(c)
  <2>1. /\ c.op = "get" /\ Good(c) /\ Show(c.f) /\ selected' = c.f
        /\ calls' = Rest(c) /\ UNCHANGED <<sidebar, accepted>>
    BY <1>5 DEF FichaLoaded
  <2>2. PageInv' /\ (mixed => mixed') /\ pane' = "review"
    BY <1>f, <2>1, ShowPage
  <2>3. DbInv' /\ holdings \subseteq holdings'
    BY <2>1, <2>2, Served
  <2>4. CallsInv'
    BY <1>2, <2>1, <2>2, <2>3
  <2>5. WaitingHasCalls'
    BY <2>1, <2>2 DEF WaitingHasCalls, Show, Unmount, table, Rest, Research, PageInv
  <2> QED BY <2>2, <2>3, <2>4, <2>5 DEF IInv
<1>6. CASE ListServed(c)
  <2> DEFINE d == [c EXCEPT !.done = TRUE, !.found = Found(c.tab)]
  <2>1. /\ c.op = "list" /\ calls' = Rest(c) \cup {d}
        /\ UNCHANGED <<db, page, sidebar, table, past>>
    BY <1>6 DEF ListServed
  <2>2. c \in ListCall
    BY <2>1 DEF Typed, FichaCall, DecideCall, ApproveCall, ResearchCall, ConfirmCall, DeleteCall
  <2>3. Found(c.tab) \subseteq Ficha
    BY DEF Found, DbInv
  <2>4. d \in ListCall /\ d.op = "list"
    BY <2>1, <2>2, <2>3 DEF ListCall
  <2> HIDE DEF d
  <2>5. \A x \in {d} : Typed(x) /\ SoundNext(x)
    BY <2>4 DEF Typed, Sound, SoundNext
  <2>6. accepted' = accepted /\ (mixed => mixed') /\ holdings \subseteq holdings'
    BY <2>1 DEF past, db
  <2>7. CallsInv'
    BY <1>d, <2>1, <2>5, <2>6
  <2>8. DbInv'
    BY <2>1 DEF db, past, DbInv, HoldingsAreApproved, OnlyApproved, ClientsOwnLines, ConfirmedImported
  <2>9. PageInv'
    BY <2>1 DEF PageInv, page, sidebar, table, past
  <2>10. WaitingHasCalls'
    BY <2>1 DEF WaitingHasCalls, page, table, Rest, Research
  <2> QED BY <2>7, <2>8, <2>9, <2>10 DEF IInv
<1>7. CASE Listed(c)
  <2>1. /\ c.op = "list" /\ listed' = c.found /\ calls' = Rest(c)
        /\ UNCHANGED <<db, page, filter, table, past>>
    BY <1>7 DEF Listed
  <2>2. c.found \subseteq Ficha
    BY <2>1 DEF Typed, FichaCall, ListCall, DecideCall, ApproveCall, ResearchCall, ConfirmCall,
                DeleteCall
  <2>3. accepted' = accepted /\ (mixed => mixed') /\ holdings \subseteq holdings'
    BY <2>1 DEF past, db
  <2>4. DbInv'
    BY <2>1 DEF db, past, DbInv, HoldingsAreApproved, OnlyApproved, ClientsOwnLines, ConfirmedImported
  <2>5. PageInv' /\ WaitingHasCalls'
    BY <2>1, <2>2 DEF PageInv, WaitingHasCalls, page, table, past, Rest, Research
  <2> QED BY <1>2, <2>1, <2>3, <2>4, <2>5 DEF IInv
<1>8. CASE ListFailed(c)
  <2>1. /\ c.op = "list" /\ Bad(c) /\ listed' = {} /\ calls' = Rest(c)
        /\ UNCHANGED <<page, filter, table, past>>
    BY <1>8 DEF ListFailed
  <2>2. accepted' = accepted /\ (mixed => mixed')
    BY <2>1 DEF past
  <2>3. DbInv' /\ holdings \subseteq holdings'
    BY <2>1, <2>2, Served
  <2>4. PageInv' /\ WaitingHasCalls'
    BY <2>1 DEF PageInv, WaitingHasCalls, page, table, past, Rest, Research
  <2> QED BY <1>2, <2>1, <2>2, <2>3, <2>4 DEF IInv
<1>9. CASE ApproveAnswered(c)
  <2>1. /\ c.op = "approve" /\ Good(c) /\ calls' = Rest(c) \cup {List(c.tab)}
        /\ UNCHANGED <<page, sidebar, table, past>>
    BY <1>9 DEF ApproveAnswered
  <2>2. accepted' = accepted /\ (mixed => mixed')
    BY <2>1 DEF past
  <2>3. DbInv' /\ holdings \subseteq holdings'
    BY <2>1, <2>2, Served
  <2>4. c.tab \in Filter
    BY <2>1 DEF Typed, FichaCall, ListCall, DecideCall, ApproveCall, ResearchCall, ConfirmCall,
                DeleteCall
  <2>5. PageInv' /\ WaitingHasCalls'
    BY <2>1 DEF PageInv, WaitingHasCalls, page, sidebar, table, past, Rest, Research
  <2>6. CallsInv'
    <3>1. PICK d : d = List(c.tab)
      OBVIOUS
    <3>2. calls' = Rest(c) \cup {d} /\ Typed(d) /\ SoundNext(d)
      BY <1>n, <2>1, <2>4, <3>1
    <3> QED BY <1>d, <2>2, <2>3, <3>2
  <2> QED BY <2>3, <2>5, <2>6 DEF IInv
<1>10. CASE Researched(c)
  <2>2. accepted' = accepted /\ (mixed => mixed')
    BY <1>10 DEF Researched, past
  <2>3. DbInv' /\ holdings \subseteq holdings'
    BY <1>10, <2>2, Served DEF Researched
  <2>4. PageInv'
    <3>1. /\ busy' = None /\ UNCHANGED <<page, sidebar, mounted, submitting, past>>
          /\ row' = row \/ \E m \in BOOLEAN : row' = [row EXCEPT ![c.l].mapped = m]
      BY <1>10 DEF Researched
    <3>r. row \in [Line -> [mapped : BOOLEAN, mark : Decision]]
      BY DEF PageInv
    <3>2. /\ row' \in [Line -> [mapped : BOOLEAN, mark : Decision]]
          /\ \A l \in Line : row'[l].mark = row[l].mark
      <4>1. CASE row' = row
        BY <3>r, <4>1
      <4>2. ASSUME NEW m \in BOOLEAN, row' = [row EXCEPT ![c.l].mapped = m]
            PROVE /\ row' \in [Line -> [mapped : BOOLEAN, mark : Decision]]
                  /\ \A l \in Line : row'[l].mark = row[l].mark
        <5>1. ASSUME NEW l \in Line
              PROVE row'[l] \in [mapped : BOOLEAN, mark : Decision] /\ row'[l].mark = row[l].mark
          <6>1. row[l] \in [mapped : BOOLEAN, mark : Decision]
            BY <3>r
          <6>2. CASE l = c.l
            BY <3>r, <4>2, <6>1, <6>2
          <6>3. CASE l # c.l
            BY <3>r, <4>2, <6>1, <6>3
          <6> QED BY <6>2, <6>3
        <5>2. row' = [l \in Line |-> row'[l]]
          BY <3>r, <4>2
        <5> QED BY <5>1, <5>2
      <4> QED BY <3>1, <4>1, <4>2
    <3> QED BY <3>1, <3>2 DEF PageInv, page, sidebar, past
  <2>5. WaitingHasCalls'
    BY <1>10 DEF Researched, WaitingHasCalls, page, Rest
  <2>6. CallsInv'
    BY <1>2, <1>10, <2>2, <2>3 DEF Researched
  <2> QED BY <2>3, <2>4, <2>5, <2>6 DEF IInv
<1>11. CASE ConfirmAnswered(c)
  <2> DEFINE new == {List(c.tab)} \cup {Finish(f) : f \in {c.sel} \cap Ficha}
  <2>1. /\ c.op = "confirm" /\ Good(c) /\ pane' = "success" /\ review' = None /\ Unmount
        /\ calls' = Detached(Rest(c)) \cup new
        /\ UNCHANGED <<selected, sidebar, past>>
    BY <1>11 DEF ConfirmAnswered
  <2>2. PageInv' /\ WaitingHasCalls'
    BY <2>1, HidePage, HideWaits DEF PaneState
  <2>3. accepted' = accepted /\ (mixed => mixed') /\ (mixed' => mixed)
    BY <2>1 DEF past
  <2>4. DbInv' /\ holdings \subseteq holdings'
    BY <2>1, <2>3, Served
  <2>5. c.tab \in Filter
    BY <2>1 DEF Typed, FichaCall, ListCall, DecideCall, ApproveCall, ResearchCall, ConfirmCall,
                DeleteCall
  <2>6. ASSUME NEW f \in Ficha, f = c.sel PROVE Typed(Finish(f)) /\ SoundNext(Finish(f))
    <3>1. Typed(Finish(f)) /\ Finish(f).op = "finish" /\ Finish(f).f = f
      BY DEF Typed, Finish, FichaCall
    <3>2. holdings' = holdings \cup Created(c.lines, c.client, "confirm")
      BY <2>1 DEF Good, Effect
    <3>3. PICK l \in c.lines : ~mixed => FichaOf[l] = c.sel
      BY <2>1 DEF Sound, SoundNow
    <3>4. [line |-> l, client |-> c.client, by |-> "confirm"] \in holdings'
      BY <3>2, <3>3 DEF Created
    <3> QED BY <2>3, <2>6, <3>1, <3>3, <3>4 DEF Sound, SoundNext
  <2>7. \A d \in new : Typed(d) /\ SoundNext(d)
    BY <1>n, <2>5, <2>6
  <2> HIDE DEF new
  <2>8. CallsInv'
    BY <1>1, <2>1, <2>3, <2>4, <2>7
  <2> QED BY <2>2, <2>4, <2>8 DEF IInv
<1>12. CASE ConfirmFailed(c)
  <2>1. /\ c.op = "confirm" /\ Bad(c) /\ submitting' = (submitting /\ ~c.live) /\ calls' = Rest(c)
        /\ UNCHANGED <<page, sidebar, mounted, row, busy, past>>
    BY <1>12 DEF ConfirmFailed
  <2>2. accepted' = accepted /\ (mixed => mixed')
    BY <2>1 DEF past
  <2>3. DbInv' /\ holdings \subseteq holdings'
    BY <2>1, <2>2, Served
  <2>4. PageInv'
    BY <2>1 DEF PageInv, page, sidebar, past
  <2>5. WaitingHasCalls'
    <3>1. (submitting' => submitting /\ ~c.live) /\ pane' = pane /\ busy' = busy
      BY <2>1 DEF page
    <3>2. \A d \in calls : d.op # "confirm" \/ (c.live # d.live) => d \in calls'
      BY <2>1 DEF Rest
    <3>3. submitting' => \E d \in calls' : d.op = "confirm" /\ d.live
      <4>1. ASSUME submitting', NEW d \in calls, d.op = "confirm", d.live PROVE d \in calls'
        BY <2>1, <3>1, <4>1 DEF Rest
      <4> QED BY <3>1, <4>1 DEF WaitingHasCalls
    <3> QED BY <3>1, <3>2, <3>3 DEF WaitingHasCalls, Research
  <2> QED BY <1>2, <2>1, <2>2, <2>3, <2>4, <2>5 DEF IInv
<1>13. CASE DeleteAnswered(c)
  <2>1. c.op = "delete" /\ Good(c) /\ UNCHANGED <<sidebar, past>>
    BY <1>13 DEF DeleteAnswered
  <2>2. accepted' = accepted /\ (mixed => mixed')
    BY <2>1 DEF past
  <2>3. DbInv' /\ holdings \subseteq holdings'
    BY <2>1, <2>2, Served
  <2>4. c.tab \in Filter
    BY <2>1 DEF Typed, FichaCall, ListCall, DecideCall, ApproveCall, ResearchCall, ConfirmCall,
                DeleteCall
  <2>5. CallsInv'
    <3>1. PICK d : d = List(c.tab)
      OBVIOUS
    <3>2. calls' = Rest(c) \cup {d} \/ calls' = Detached(Rest(c)) \cup {d}
      BY <1>13, <3>1 DEF DeleteAnswered
    <3>3. Typed(d) /\ SoundNext(d)
      BY <1>n, <2>4, <3>1
    <3> QED BY <1>d, <2>2, <2>3, <3>2, <3>3
  <2>6. CASE c.sel = c.f
    <3>1. pane' = "idle" /\ review' = None /\ selected' = None /\ Unmount
      BY <1>13, <2>6 DEF DeleteAnswered, Reset
    <3> QED BY <2>1, <2>3, <2>5, <3>1, HidePage, HideWaits DEF PaneState, IInv
  <2>7. CASE c.sel # c.f
    <3>1. calls' = Rest(c) \cup {List(c.tab)} /\ UNCHANGED <<page, table>>
      BY <1>13, <2>7 DEF DeleteAnswered
    <3>2. PageInv' /\ WaitingHasCalls'
      BY <2>1, <3>1 DEF PageInv, WaitingHasCalls, page, sidebar, table, past, Rest, Research
    <3> QED BY <2>3, <2>5, <3>2 DEF IInv
  <2> QED BY <2>6, <2>7
<1>14. CASE Ignored(c)
  <2>2. accepted' = accepted /\ (mixed => mixed')
    BY <1>14 DEF Ignored, past
  <2>3. DbInv' /\ holdings \subseteq holdings'
    BY <1>14, <2>2, Served DEF Ignored
  <2>4. PageInv' /\ WaitingHasCalls'
    BY <1>14 DEF Ignored, PageInv, WaitingHasCalls, page, sidebar, table, past, Rest, Research
  <2>5. CallsInv'
    BY <1>2, <1>14, <2>2, <2>3 DEF Ignored
  <2> QED BY <2>3, <2>4, <2>5 DEF IInv
<1> QED BY <1>3, <1>4, <1>5, <1>6, <1>7, <1>8, <1>9, <1>10, <1>11, <1>12, <1>13, <1>14 DEF Answer

\* The page opens on no ficha, with one call: the list.
LEMMA InitIInv == Init => IInv
<1> SUFFICES ASSUME Init PROVE IInv
  OBVIOUS
<1>1. /\ saved = Stored /\ confirmed = {} /\ holdings = {}
      /\ lineStatus = [l \in Line |-> "pending"] /\ accepted = {} /\ mixed = FALSE
      /\ pane = "idle" /\ review = None /\ selected = None /\ filter = "todas" /\ listed = {}
      /\ mounted = None /\ row = Blank /\ busy = None /\ submitting = FALSE
      /\ calls = {List("todas")}
  BY DEF Init
<1>2. DbInv
  BY <1>1 DEF DbInv, Decision, HoldingsAreApproved, OnlyApproved, ClientsOwnLines, ConfirmedImported
<1>3. PageInv
  BY <1>1 DEF PageInv, Blank, Decision, PaneState
<1>4. CallsInv
  <2>1. Typed(List("todas")) /\ SoundNow(List("todas"))
    BY DEF Typed, List, ListCall, Sound, SoundNow
  <2> QED BY <1>1, <2>1 DEF CallsInv
<1>5. WaitingHasCalls
  BY <1>1 DEF WaitingHasCalls
<1> QED BY <1>2, <1>3, <1>4, <1>5 DEF IInv

\* Every step keeps the invariant.
LEMMA StepIInv == IInv /\ [Next]_vars => IInv'
<1> SUFFICES ASSUME IInv, [Next]_vars PROVE IInv'
  OBVIOUS
<1>1. CASE UNCHANGED vars
  <2>1. UNCHANGED <<db, page, sidebar, table, calls, past>>
    BY <1>1 DEF vars
  <2>2. DbInv' /\ PageInv'
    BY <2>1 DEF IInv, DbInv, PageInv, HoldingsAreApproved, OnlyApproved, ClientsOwnLines,
                ConfirmedImported, db, page, sidebar, table, past
  <2>3. CallsInv' /\ WaitingHasCalls'
    BY <2>1 DEF IInv, CallsInv, WaitingHasCalls, Sound, SoundNow, Typed, Research, db, page, table, past
  <2> QED BY <2>2, <2>3 DEF IInv
<1> QED BY <1>1, AdminStep, NetworkStep DEF Next

\* The invariant always holds.
LEMMA Invariance == Spec => []IInv
  BY InitIInv, StepIInv, PTL DEF Spec

-----------------------------------------------------------------------------
(* The curation: numbers *)

\* A text becomes a number the columns hold, or an unknown one.
LEMMA PercentType ==
  ASSUME C!CurationAssumption, NEW t \in C!Text
  PROVE  C!PercentToFraction(t) \in C!Fraction \cup {Null}
<1>1. CASE t \in {Empty, Junk}
  BY <1>1 DEF C!PercentToFraction
<1>2. CASE t \notin {Empty, Junk}
  <2>1. t \in Nat /\ t <= MaxText /\ Grain \in Nat /\ MaxText \in Nat
    BY <1>2 DEF C!Text, C!CurationAssumption
  <2>2. t * Grain \in Nat /\ t * Grain <= MaxText * Grain
    BY <2>1
  <2> QED BY <1>2, <2>1, <2>2 DEF C!PercentToFraction, C!Fraction
<1> QED BY <1>1, <1>2

\* A number of the columns becomes a text of the card.
LEMMA FormatType ==
  ASSUME C!CurationAssumption, NEW v \in C!Fraction \cup {Null}
  PROVE  C!FormatFractionValue(v) \in C!Text
<1>1. CASE v = Null
  BY <1>1 DEF C!FormatFractionValue, C!Text
<1>2. CASE v # Null
  <2> DEFINE h == Grain \div 2
             q == (v + h) \div Grain
  <2>1. Grain \in Nat \ {0} /\ MaxText \in Nat /\ v \in Nat /\ v <= MaxText * Grain
    BY <1>2 DEF C!CurationAssumption, C!Fraction
  <2>2. h \in Nat /\ h < Grain
    BY <2>1
  <2>3. q \in Nat /\ q * Grain <= v + h
    BY <2>1, <2>2
  <2>4. q <= MaxText
    <3> SUFFICES ASSUME q > MaxText PROVE FALSE
      BY <2>1, <2>3
    <3>1. q * Grain >= (MaxText + 1) * Grain
      BY <2>1, <2>3
    <3>2. (MaxText + 1) * Grain = MaxText * Grain + Grain
      BY <2>1
    <3> HIDE DEF h, q
    <3> QED BY <3>1, <3>2, <2>1, <2>2, <2>3
  <2> QED BY <1>2, <2>1, <2>3, <2>4 DEF C!FormatFractionValue, C!Text
<1> QED BY <1>1, <1>2

-----------------------------------------------------------------------------
(* The curation: types *)

ATable == [Key -> C!Text \cup {NoRow, Unnamed}]

Levels  == {"alta", "media", "baja", "sin_datos"}
Sources == {"catalog", "web_search", "claude_knowledge"}

ACard == [enriched : [code : BOOLEAN, matched : BOOLEAN, level : Levels, source : Sources],
         table : ATable, first : {[k \in Key |-> NoRow], C!EditableRows(StoredRows)},
         class : C!Class, origin : {StoredRows}]

AJob == [at : {"none", "read", "write", "create", "hold", "done"}, known : BOOLEAN,
        sent : C!Rows \cup {<<>>}, seen : C!Rows \cup {<<>>}, left : SUBSET C!Row]

CurationTypes ==
  /\ catalog \in C!Rows
  /\ born \in [CardId -> C!Rows \cup {Absent}]
  /\ holding \in [CardId -> {"none", "linked", "created"}]
  /\ card \in [CardId -> ACard]
  /\ job \in [CardId -> AJob]
  /\ \A h \in history \cup written : h[1] \in CardId /\ h[2] \in C!Row

\* A request that runs knows what it sends.
Sending == \A c \in CardId : job[c].at # "none" => job[c].sent \in C!Rows

\* A product that is gone has no rows.
Gone == catalog[Product] = Absent => \A k \in Key : catalog[k] = Absent

\* One that updates has read the product, and later has put every change it
\* made into the history.
Updating ==
  \A c \in CardId :
    /\ job[c].at = "write" => job[c].known
    /\ (job[c].at \in {"write", "hold", "done"} /\ job[c].known) => job[c].seen \in C!Rows
    /\ (job[c].at \in {"hold", "done"} /\ job[c].known) => C!Changes(c) \subseteq history

\* What it found different it has written, or it has it left to write, or the
\* row is gone; and what it wrote it will tell of.
Telling ==
  /\ \A w \in written \ (history \cup lost) : job[w[1]].at = "write" /\ w \in C!Changes(w[1])
  /\ \A h \in history \ written : h[3] = Null \/ catalog[h[2]] = Absent
  /\ \A c \in CardId : job[c].at = "write" =>
       /\ job[c].left \subseteq C!Differing(job[c].sent, job[c].seen)
       /\ \A x \in C!Differing(job[c].sent, job[c].seen) \ job[c].left :
            <<c, x, job[c].sent[x]>> \in written \/ catalog[x] = Absent

\* Every row that is there has its parent.
Rooted(rows) == \A k \in Key : rows[k] # Absent => rows[Parent[k]] # Absent

\* One that creates has created all the rows it was sent, but for those left.
Creating ==
  \A c \in CardId :
    /\ job[c].at = "create" => ~job[c].known
    /\ (job[c].at \in {"create", "hold", "done"} /\ ~job[c].known) =>
         /\ born[c] \in C!Rows
         /\ \A k \in C!Row : (job[c].sent[k] # Absent /\ k \notin job[c].left) => born[c][k] = job[c].sent[k]
         /\ \A k \in job[c].left : job[c].sent[k] # Absent
         /\ Rooted(born[c])
    /\ (job[c].at \in {"hold", "done"} /\ ~job[c].known) => job[c].left = {}

\* A holding is the last thing an approve writes.
Holding ==
  \A c \in CardId :
    /\ holding[c] # "none" => job[c].at = "done"
    /\ holding[c] = "created" => ~job[c].known
    /\ holding[c] = "linked" => job[c].known

CurationInv ==
  CurationTypes /\ Gone /\ Sending /\ Updating /\ Telling /\ Creating /\ Holding /\ C!BornHasParents

\* What a card asks for, once its texts are read, is a table the request can carry.
LEMMA RequestedType ==
  ASSUME C!CurationAssumption, NEW texts \in ATable, NEW a \in C!Class
  PROVE  C!Requested(texts, a) \in C!Rows
<1> SUFFICES ASSUME NEW x \in C!Row
             PROVE  (IF x = Product THEN a ELSE IF texts[x] \in {NoRow, Unnamed} THEN Absent
                       ELSE C!PercentToFraction(texts[x])) \in C!Value
  BY DEF C!Requested, C!Rows
<1>1. CASE x = Product
  BY <1>1 DEF C!Class, C!Value
<1>2. CASE x # Product
  <2>1. x \in Key
    BY <1>2 DEF C!Row
  <2>2. texts[x] \notin {NoRow, Unnamed} => C!PercentToFraction(texts[x]) \in C!Fraction \cup {Null}
    BY <2>1, PercentType DEF ATable
  <2> QED BY <1>2, <2>2 DEF C!Value
<1> QED BY <1>1, <1>2

\* What the catalog answers can be shown: every number it holds has a text.
LEMMA RowsShownType ==
  ASSUME C!CurationAssumption
  PROVE  C!EditableRows(StoredRows) \in ATable
<1> SUFFICES ASSUME NEW k \in Key, StoredRows[k] # Absent
             PROVE  C!FormatFractionValue(StoredRows[k]) \in C!Text
  BY DEF C!EditableRows, ATable
<1> QED BY FormatType DEF C!CurationAssumption

\* A table completed with the rows of the catalog is still one a card can hold.
LEMMA EnrichedType ==
  ASSUME C!CurationAssumption, NEW sim \in Matches, NEW web \in BOOLEAN
  PROVE  C!Enriched(sim, web) \in [code : BOOLEAN, matched : BOOLEAN, level : Levels, source : Sources]
<1>1. sim \in Nat
  BY DEF C!CurationAssumption
<1>2. C!Level(sim, TRUE, web) \in Levels
  BY <1>1 DEF C!Level, Levels
<1>3. (sim > 10) \in BOOLEAN /\ C!Matched(sim) \in BOOLEAN
  BY <1>1 DEF C!Matched
<1>4. (IF sim > 10 THEN "catalog" ELSE IF web THEN "web_search" ELSE "claude_knowledge") \in Sources
  BY <1>1 DEF Sources
<1> HIDE DEF C!Level, C!Matched
<1> QED BY <1>2, <1>3, <1>4, Zenon DEF C!Enriched

\* The invariant holds when the ficha is opened.
LEMMA CurationInit == C!CurationAssumption /\ C!Init => CurationInv
<1> SUFFICES ASSUME C!CurationAssumption, C!Init PROVE CurationInv
  OBVIOUS
<1>1. StoredRows \in C!Rows /\ Whole[StoredRows[Product]] \in C!Class /\ StoredRows[Product] # Absent
  BY DEF C!CurationAssumption, C!Rows
<1>2. C!NoJob \in AJob
  BY DEF C!NoJob, AJob
<1>3. card \in [CardId -> ACard]
  <2>1. PICK sim \in [CardId -> Matches], web \in [CardId -> BOOLEAN] :
          card = [c \in CardId |-> C!EditableRow(C!Enriched(sim[c], web[c]), StoredRows)]
    BY DEF C!Init
  <2> SUFFICES ASSUME NEW c \in CardId
               PROVE  C!EditableRow(C!Enriched(sim[c], web[c]), StoredRows) \in ACard
    BY <2>1
  <2>2. C!Enriched(sim[c], web[c]) \in [code : BOOLEAN, matched : BOOLEAN, level : Levels, source : Sources]
    BY EnrichedType
  <2>3. C!EditableRows(StoredRows) \in ATable /\ [k \in Key |-> NoRow] \in ATable
    BY RowsShownType DEF ATable
  <2> QED BY <1>1, <2>2, <2>3 DEF C!EditableRow, ACard
<1>4. CurationTypes
  BY <1>1, <1>2, <1>3 DEF C!Init, CurationTypes
<1>5. \A c \in CardId : job[c].at = "none" /\ holding[c] = "none" /\ born[c] = Absent
  BY DEF C!Init, C!NoJob
<1>6. Gone /\ history = {} /\ written = {}
  BY <1>1 DEF C!Init, Gone
<1> QED BY <1>4, <1>5, <1>6 DEF CurationInv, Sending, Updating, Telling, Creating, Holding, C!BornHasParents

-----------------------------------------------------------------------------
(* The curation: steps *)

\* Nothing that was told, or has still to be, is forgotten by a step that leaves
\* alone the requests that write.
LEMMA ToldKept ==
  ASSUME CurationTypes, Telling, UNCHANGED <<written, lost>>, history \subseteq history',
         \A h \in history' \ history : h[3] = Null,
         \A x \in C!Row : catalog[x] = Absent => catalog'[x] = Absent,
         \A d \in CardId : job'[d] = job[d] \/ (job[d].at # "write" /\ job'[d].at # "write")
  PROVE  Telling'
<1>1. \A w \in written' \ (history' \cup lost') : job'[w[1]].at = "write" /\ w \in C!Changes(w[1])'
  <2> SUFFICES ASSUME NEW w \in written' \ (history' \cup lost')
               PROVE  job'[w[1]].at = "write" /\ w \in C!Changes(w[1])'
    OBVIOUS
  <2>1. job[w[1]].at = "write" /\ w \in C!Changes(w[1])
    BY DEF Telling
  <2>2. w[1] \in CardId
    BY DEF CurationTypes
  <2>3. job'[w[1]] = job[w[1]]
    BY <2>1, <2>2
  <2> QED BY <2>1, <2>3 DEF C!Changes
<1>2. \A h \in history' \ written' : h[3] = Null \/ catalog'[h[2]] = Absent
  BY DEF Telling, CurationTypes
<1>3. ASSUME NEW c \in CardId, job'[c].at = "write"
      PROVE  /\ job'[c].left \subseteq C!Differing(job'[c].sent, job'[c].seen)
             /\ \A x \in C!Differing(job'[c].sent, job'[c].seen) \ job'[c].left :
                  <<c, x, job'[c].sent[x]>> \in written' \/ catalog'[x] = Absent
  <2>1. job'[c] = job[c] /\ job[c].at = "write"
    BY <1>3
  <2>2. \A x \in C!Differing(job[c].sent, job[c].seen) : x \in C!Row
    BY DEF C!Differing
  <2> QED BY <2>1, <2>2 DEF Telling
<1>4. \A c \in CardId : C!Differing(job[c].sent, job[c].seen)' = C!Differing(job'[c].sent, job'[c].seen)
  BY DEF C!Differing, C!Row
<1> QED BY <1>1, <1>2, <1>3, <1>4 DEF Telling

\* What an admin does at a card changes the card.
LEMMA CardKept ==
  ASSUME CurationInv, card' \in [CardId -> ACard],
         UNCHANGED <<catalog, born, history, written, lost, holding, job>>
  PROVE  CurationInv'
<1>1. Telling'
  BY ToldKept DEF CurationInv
<1> QED BY <1>1 DEF CurationInv, CurationTypes, Gone, Sending, Updating, Creating, Holding,
                    C!BornHasParents, C!Changes, C!Differing

\* Editing, choosing and investigating at a card keep the invariant.
LEMMA CardEdited ==
  ASSUME CurationInv, NEW c \in CardId,
         \/ \E k \in Key : \/ \E t \in C!Text : C!EditNumber(c, k, t)
                           \/ \E t \in {Empty, Unnamed} : C!AddRow(c, k, t)
                           \/ C!RemoveRow(c, k)
         \/ \E a \in C!Class : C!ChooseClass(c, a)
         \/ C!Research(c)
  PROVE  CurationInv'
<1>1. card \in [CardId -> ACard] /\ card[c] \in ACard /\ card[c].table \in ATable
  BY DEF CurationInv, CurationTypes, ACard
<1>2. UNCHANGED <<catalog, born, history, written, lost, holding, job>>
  BY DEF C!EditNumber, C!AddRow, C!RemoveRow, C!ChooseClass, C!Research, C!SetTable, C!Act, C!told
<1>3. CASE \E k \in Key : \/ \E t \in C!Text : C!EditNumber(c, k, t)
                          \/ \E t \in {Empty, Unnamed} : C!AddRow(c, k, t)
                          \/ C!RemoveRow(c, k)
  <2>1. PICK texts \in ATable : card' = [card EXCEPT ![c].table = texts]
    <3>1. PICK k \in Key : \/ \E t \in C!Text : C!EditNumber(c, k, t)
                           \/ \E t \in {Empty, Unnamed} : C!AddRow(c, k, t)
                           \/ C!RemoveRow(c, k)
      BY <1>3
    <3>2. PICK v \in C!Text \cup {NoRow, Unnamed} :
            card' = [card EXCEPT ![c].table = [card[c].table EXCEPT ![k] = v]]
      BY <3>1 DEF C!EditNumber, C!AddRow, C!RemoveRow, C!SetTable, C!Text
    <3>3. [card[c].table EXCEPT ![k] = v] \in ATable
      BY <1>1 DEF ATable
    <3> QED BY <3>2, <3>3
  <2>2. card' \in [CardId -> ACard]
    BY <1>1, <2>1 DEF ACard
  <2> QED BY <1>2, <2>2, CardKept
<1>4. CASE \E a \in C!Class : C!ChooseClass(c, a)
  <2>1. PICK a \in C!Class : card' = [card EXCEPT ![c].class = a]
    BY <1>4 DEF C!ChooseClass
  <2>2. card' \in [CardId -> ACard]
    BY <1>1, <2>1 DEF ACard
  <2> QED BY <1>2, <2>2, CardKept
<1>5. CASE C!Research(c)
  <2>1. C!WebEnriched \in [code : BOOLEAN, matched : BOOLEAN, level : Levels, source : Sources]
    BY DEF C!WebEnriched, C!Level, Levels, Sources
  <2>2. card' = [card EXCEPT ![c].enriched = C!WebEnriched]
    BY <1>5 DEF C!Research
  <2>3. card' \in [CardId -> ACard]
    BY <1>1, <2>1, <2>2 DEF ACard
  <2> QED BY <1>2, <2>3, CardKept
<1> QED BY <1>3, <1>4, <1>5

\* A request of one card leaves the others alone.
LEMMA ApproveStep ==
  ASSUME C!CurationAssumption, CurationInv, NEW c \in CardId, C!Approve(c)
  PROVE  CurationInv'
<1> DEFINE new == [at |-> "read", known |-> card[c].enriched.code,
                   sent |-> C!Requested(card[c].table, card[c].class), seen |-> <<>>, left |-> {}]
<1>1. C!Requested(card[c].table, card[c].class) \in C!Rows /\ card[c].enriched.code \in BOOLEAN
  BY RequestedType DEF CurationInv, CurationTypes, ACard
<1>2. new \in AJob /\ new.sent \in C!Rows /\ new.at = "read"
  BY <1>1 DEF AJob
<1>3. job' = [job EXCEPT ![c] = new] /\ holding[c] = "none" /\ job[c].at = "none"
  BY DEF C!Approve
<1>4. UNCHANGED <<catalog, born, history, written, lost, holding, card>>
  BY DEF C!Approve, C!Act, C!told
<1> HIDE DEF new
<1>5. CurationTypes'
  BY <1>2, <1>3, <1>4 DEF CurationInv, CurationTypes
<1>6. \A d \in CardId \ {c} : job'[d] = job[d]
  BY <1>3 DEF CurationInv, CurationTypes
<1>7. job'[c] = new
  BY <1>3 DEF CurationInv, CurationTypes
<1>9. Telling'
  BY <1>2, <1>3, <1>4, <1>6, <1>7, ToldKept DEF CurationInv
<1>10. Updating'
  BY <1>2, <1>4, <1>6, <1>7 DEF CurationInv, Updating, C!Changes, C!Differing
<1>8. Gone' /\ Sending' /\ Creating' /\ Holding' /\ C!BornHasParents'
  BY <1>2, <1>3, <1>4, <1>6, <1>7 DEF CurationInv, Gone, Sending, Creating, Holding, C!BornHasParents
<1> QED BY <1>5, <1>8, <1>9, <1>10 DEF CurationInv

\* Nothing is kept of a request that ends before its time, but what it wrote.
LEMMA DropStep ==
  ASSUME CurationInv, NEW c \in CardId, job[c].at # "done",
         job' = [job EXCEPT ![c] = C!NoJob],
         UNCHANGED <<catalog, born, history, holding, card, written>>, Telling'
  PROVE  CurationInv'
<1>1. C!NoJob \in AJob /\ C!NoJob.at = "none"
  BY DEF C!NoJob, AJob
<1>2. CurationTypes'
  BY <1>1 DEF CurationInv, CurationTypes
<1>3. \A d \in CardId : job'[d] = IF d = c THEN C!NoJob ELSE job[d]
  BY DEF CurationInv, CurationTypes
<1>4. holding[c] = "none"
  BY DEF CurationInv, Holding
<1> HIDE DEF C!NoJob
<1>6. Updating'
  BY <1>1, <1>3 DEF CurationInv, Updating, C!Changes, C!Differing
<1>5. Gone' /\ Sending' /\ Creating' /\ Holding' /\ C!BornHasParents'
  BY <1>1, <1>3, <1>4 DEF CurationInv, Gone, Sending, Creating, Holding, C!BornHasParents
<1> QED BY <1>2, <1>5, <1>6 DEF CurationInv

\* A refused row ends a request that told the catalog nothing.
LEMMA RefuseStep ==
  ASSUME CurationInv, NEW c \in CardId, NEW k \in Key, C!RefuseRow(c, k)
  PROVE  CurationInv'
<1>1. /\ job[c].at = "create" /\ job' = [job EXCEPT ![c] = C!NoJob]
      /\ UNCHANGED <<catalog, born, history, holding, card, written, lost>>
  BY DEF C!RefuseRow, C!Server, C!told
<1>2. \A d \in CardId : job'[d] = IF d = c THEN C!NoJob ELSE job[d]
  BY <1>1 DEF CurationInv, CurationTypes
<1>3. C!NoJob.at = "none"
  BY DEF C!NoJob
<1>4. Telling'
  BY <1>1, <1>2, <1>3, ToldKept DEF CurationInv
<1> QED BY <1>1, <1>4, DropStep

\* A crash: what was written, and not yet told, is lost.
LEMMA CrashStep ==
  ASSUME CurationInv, NEW c \in CardId, C!Crash(c)
  PROVE  CurationInv'
<1>1. /\ job[c].at \notin {"none", "done"} /\ job' = [job EXCEPT ![c] = C!NoJob]
      /\ UNCHANGED <<catalog, born, history, holding, card, written>>
      /\ lost' = IF job[c].at # "write" THEN lost
                 ELSE lost \cup {w \in written : w[1] = c /\ w \notin history}
  BY DEF C!Crash
<1>2. \A d \in CardId : job'[d] = IF d = c THEN C!NoJob ELSE job[d]
  BY <1>1 DEF CurationInv, CurationTypes
<1>3. C!NoJob.at = "none"
  BY DEF C!NoJob
<1>4. Telling'
  <2>1. \A w \in written' \ (history' \cup lost') : job'[w[1]].at = "write" /\ w \in C!Changes(w[1])'
    <3> SUFFICES ASSUME NEW w \in written' \ (history' \cup lost')
                 PROVE  job'[w[1]].at = "write" /\ w \in C!Changes(w[1])'
      OBVIOUS
    <3>1. job[w[1]].at = "write" /\ w \in C!Changes(w[1]) /\ w[1] \in CardId
      BY <1>1 DEF CurationInv, Telling, CurationTypes
    <3>2. w[1] # c
      BY <1>1, <3>1
    <3>3. job'[w[1]] = job[w[1]]
      BY <1>2, <3>1, <3>2
    <3> QED BY <3>1, <3>3 DEF C!Changes
  <2>2. \A d \in CardId : job'[d].at = "write" => job'[d] = job[d] /\ job[d].at = "write"
    BY <1>2, <1>3
  <2>3. \A d \in CardId : job'[d].at = "write" =>
          /\ job'[d].left \subseteq C!Differing(job'[d].sent, job'[d].seen)
          /\ \A x \in C!Differing(job'[d].sent, job'[d].seen) \ job'[d].left :
               <<d, x, job'[d].sent[x]>> \in written' \/ catalog'[x] = Absent
    BY <1>1, <2>2 DEF CurationInv, Telling
  <2>4. \A d \in CardId : C!Differing(job[d].sent, job[d].seen)' = C!Differing(job'[d].sent, job'[d].seen)
    BY DEF C!Differing, C!Row
  <2> QED BY <1>1, <2>1, <2>3, <2>4 DEF CurationInv, Telling
<1> QED BY <1>1, <1>4, DropStep

\* A request that reads the catalog carries what it read; of a product that is
\* gone it carries nothing to write.
LEMMA ReadStep ==
  ASSUME CurationInv, NEW c \in CardId, C!Read(c)
  PROVE  CurationInv'
<1> DEFINE L == C!Differing(job[c].sent, catalog)
           next == IF catalog[Product] = Absent THEN "hold" ELSE "write"
<1>1. job' = [job EXCEPT ![c].at = next, ![c].seen = catalog, ![c].left = L]
  BY DEF C!Read
<1>2. UNCHANGED <<catalog, born, history, holding, card, written, lost>> /\ job[c].at = "read" /\ job[c].known
  BY DEF C!Read, C!Server, C!told
<1>3. job[c] \in AJob /\ catalog \in C!Rows /\ L \subseteq C!Row /\ next \in {"hold", "write"}
  BY DEF CurationInv, CurationTypes, C!Differing
<1>10. next = "hold" => L = {}
  BY DEF CurationInv, Gone, C!Differing, C!Row
<1>11. L = C!Differing(job[c].sent, catalog)
  OBVIOUS
<1> HIDE DEF L, next
<1>4. job'[c] = [job[c] EXCEPT !.at = next, !.seen = catalog, !.left = L]
      /\ \A d \in CardId \ {c} : job'[d] = job[d]
  BY <1>1 DEF CurationInv, CurationTypes
<1>5. /\ job'[c] \in AJob /\ job'[c].at = next /\ job'[c].known /\ job'[c].left = L
      /\ job'[c].sent = job[c].sent /\ job'[c].seen = catalog
  BY <1>2, <1>3, <1>4 DEF AJob
<1>6. CurationTypes'
  <2>1. job' \in [CardId -> AJob]
    <3>1. job' = [d \in CardId |-> job'[d]]
      BY <1>1 DEF CurationInv, CurationTypes
    <3>2. \A d \in CardId : job'[d] \in AJob
      BY <1>4, <1>5 DEF CurationInv, CurationTypes
    <3> QED BY <3>1, <3>2
  <2> QED BY <1>2, <2>1 DEF CurationInv, CurationTypes
<1>8. \A d \in CardId \ {c} : job'[d] = job[d]
  BY <1>4
<1>9. /\ \A d \in CardId : C!Differing(job[d].sent, job[d].seen)' = C!Differing(job'[d].sent, job'[d].seen)
      /\ \A d \in CardId : C!Changes(d)' = {<<d, x, job'[d].sent[x]>> : x \in C!Differing(job'[d].sent, job'[d].seen)}
  BY DEF C!Differing, C!Row, C!Changes
<1>12. C!Differing(job'[c].sent, job'[c].seen) = L
  BY <1>5, <1>11
<1>7. Gone' /\ Sending' /\ Updating' /\ Creating' /\ Holding' /\ C!BornHasParents'
  <2>1. Gone' /\ Sending'
    BY <1>2, <1>3, <1>8, <1>5 DEF CurationInv, Gone, Sending
  <2>2. Updating'
    <3> SUFFICES ASSUME NEW d \in CardId
                 PROVE  /\ job'[d].at = "write" => job'[d].known
                        /\ (job'[d].at \in {"write", "hold", "done"} /\ job'[d].known) => job'[d].seen \in C!Rows
                        /\ (job'[d].at \in {"hold", "done"} /\ job'[d].known) => C!Changes(d)' \subseteq history'
      BY DEF Updating
    <3>1. CASE d = c
      <4>1. job'[c].at = "hold" => C!Changes(c)' = {}
        BY <1>5, <1>9, <1>10, <1>12
      <4>2. job'[c].at # "done"
        BY <1>3, <1>5
      <4> QED BY <1>3, <1>5, <3>1, <4>1, <4>2
    <3>2. CASE d # c
      <4>1. C!Changes(d)' = C!Changes(d)
        BY <1>8, <3>2 DEF C!Changes
      <4> QED BY <1>2, <1>8, <3>2, <4>1 DEF CurationInv, Updating
    <3> QED BY <3>1, <3>2
  <2>3. Holding'
    BY <1>2, <1>8, <1>5 DEF CurationInv, Holding
  <2>4. Creating'
    BY <1>2, <1>3, <1>8, <1>5 DEF CurationInv, Creating
  <2>5. C!BornHasParents'
    BY <1>2 DEF CurationInv, C!BornHasParents
  <2> QED BY <2>1, <2>2, <2>3, <2>4, <2>5
<1>13. Telling'
  <2>1. \A w \in written' \ (history' \cup lost') : job'[w[1]].at = "write" /\ w \in C!Changes(w[1])'
    <3> SUFFICES ASSUME NEW w \in written' \ (history' \cup lost')
                 PROVE  job'[w[1]].at = "write" /\ w \in C!Changes(w[1])'
      OBVIOUS
    <3>1. job[w[1]].at = "write" /\ w \in C!Changes(w[1]) /\ w[1] \in CardId
      BY <1>2 DEF CurationInv, Telling, CurationTypes
    <3>2. job'[w[1]] = job[w[1]]
      BY <1>2, <1>8, <3>1
    <3> QED BY <3>1, <3>2 DEF C!Changes
  <2>2. \A h \in history' \ written' : h[3] = Null \/ catalog'[h[2]] = Absent
    BY <1>2 DEF CurationInv, Telling
  <2>3. ASSUME NEW d \in CardId, job'[d].at = "write"
        PROVE  /\ job'[d].left \subseteq C!Differing(job'[d].sent, job'[d].seen)
               /\ \A x \in C!Differing(job'[d].sent, job'[d].seen) \ job'[d].left :
                    <<d, x, job'[d].sent[x]>> \in written' \/ catalog'[x] = Absent
    <3>1. CASE d = c
      BY <1>5, <1>12, <3>1
    <3>2. CASE d # c
      BY <1>2, <1>8, <2>3, <3>2 DEF CurationInv, Telling
    <3> QED BY <3>1, <3>2
  <2> QED BY <1>9, <2>1, <2>2, <2>3 DEF Telling
<1> QED BY <1>6, <1>7, <1>13 DEF CurationInv

\* Updating one row of the catalog leaves its parents and the holdings whole, and
\* is remembered.
LEMMA WriteStep ==
  ASSUME CurationInv, NEW c \in CardId, NEW r \in C!Row, C!Write(c, r)
  PROVE  CurationInv'
<1>1. /\ job' = [job EXCEPT ![c].left = @ \ {r}]
      /\ \/ catalog[r] = Absent /\ UNCHANGED <<catalog, written>>
         \/ /\ catalog[r] # Absent /\ catalog' = [catalog EXCEPT ![r] = job[c].sent[r]]
            /\ written' = written \cup {<<c, r, job[c].sent[r]>>}
      /\ UNCHANGED <<born, history, lost, holding, card>> /\ job[c].at = "write" /\ r \in job[c].left
  BY DEF C!Write, C!Server, C!First
<1>2. job[c] \in AJob /\ job[c].sent \in C!Rows
  BY <1>1 DEF CurationInv, CurationTypes, Sending
<1>3. CurationTypes'
  <2>1. job' \in [CardId -> AJob]
    BY <1>1, <1>2 DEF CurationInv, CurationTypes, AJob
  <2>2. catalog' \in C!Rows
    BY <1>1, <1>2 DEF CurationInv, CurationTypes, C!Rows
  <2>3. \A h \in written' : h[1] \in CardId /\ h[2] \in C!Row
    BY <1>1 DEF CurationInv, CurationTypes
  <2> QED BY <1>1, <2>1, <2>2, <2>3 DEF CurationInv, CurationTypes
<1>4. \A d \in CardId :
        /\ job'[d].at = job[d].at /\ job'[d].known = job[d].known
        /\ job'[d].sent = job[d].sent /\ job'[d].seen = job[d].seen
        /\ job'[d].left = IF d = c THEN job[c].left \ {r} ELSE job[d].left
  BY <1>1, <1>2 DEF CurationInv, CurationTypes, AJob
<1>5. job[c].left \subseteq C!Differing(job[c].sent, job[c].seen) /\ job[c].sent[r] # Absent
  BY <1>1 DEF CurationInv, Telling, C!Differing
<1>6. \A x \in C!Row : catalog'[x] = Absent <=> catalog[x] = Absent
  BY <1>1, <1>5 DEF CurationInv, CurationTypes, C!Rows
<1>7. \A d \in CardId : C!Changes(d)' = C!Changes(d)
  BY <1>4 DEF C!Changes
<1>8. Gone' /\ Sending' /\ Creating' /\ Holding' /\ C!BornHasParents'
  <2>1. Gone'
    BY <1>6 DEF CurationInv, Gone, C!Row
  <2>2. Sending' /\ Creating' /\ Holding' /\ C!BornHasParents'
    BY <1>1, <1>4 DEF CurationInv, Sending, Creating, Holding, C!BornHasParents
  <2> QED BY <2>1, <2>2
<1>9. Updating'
  BY <1>1, <1>4, <1>7 DEF CurationInv, Updating
<1>10. Telling'
  <2>1. \A w \in written' \ (history' \cup lost') : job'[w[1]].at = "write" /\ w \in C!Changes(w[1])'
    <3> SUFFICES ASSUME NEW w \in written' \ (history' \cup lost')
                 PROVE  job'[w[1]].at = "write" /\ w \in C!Changes(w[1])'
      OBVIOUS
    <3>1. CASE w \in written
      <4>1. job[w[1]].at = "write" /\ w \in C!Changes(w[1]) /\ w[1] \in CardId
        BY <1>1, <3>1 DEF CurationInv, Telling, CurationTypes
      <4> QED BY <1>4, <1>7, <4>1
    <3>2. CASE w = <<c, r, job[c].sent[r]>>
      <4>1. w \in C!Changes(c) /\ w[1] = c
        BY <1>1, <1>5, <3>2 DEF C!Changes
      <4> QED BY <1>1, <1>4, <1>7, <4>1
    <3> QED BY <1>1, <3>1, <3>2
  <2>2. \A h \in history' \ written' : h[3] = Null \/ catalog'[h[2]] = Absent
    BY <1>1, <1>6 DEF CurationInv, Telling, CurationTypes
  <2>3. ASSUME NEW d \in CardId, job'[d].at = "write"
        PROVE  /\ job'[d].left \subseteq C!Differing(job'[d].sent, job'[d].seen)
               /\ \A x \in C!Differing(job'[d].sent, job'[d].seen) \ job'[d].left :
                    <<d, x, job'[d].sent[x]>> \in written' \/ catalog'[x] = Absent
    <3> DEFINE D == C!Differing(job[d].sent, job[d].seen)
    <3>1. C!Differing(job'[d].sent, job'[d].seen) = D /\ D \subseteq C!Row
      BY <1>4 DEF C!Differing
    <3>2. /\ job[d].left \subseteq D
          /\ \A x \in D \ job[d].left : <<d, x, job[d].sent[x]>> \in written \/ catalog[x] = Absent
      BY <1>4, <2>3 DEF CurationInv, Telling
    <3>3. <<c, r, job[c].sent[r]>> \in written' \/ catalog'[r] = Absent
      BY <1>1
    <3> HIDE DEF D
    <3> QED BY <1>1, <1>4, <1>6, <3>1, <3>2, <3>3
  <2>4. \A d \in CardId : C!Differing(job[d].sent, job[d].seen)' = C!Differing(job'[d].sent, job'[d].seen)
    BY DEF C!Differing, C!Row
  <2> QED BY <2>1, <2>2, <2>3, <2>4 DEF Telling
<1> QED BY <1>3, <1>8, <1>9, <1>10 DEF CurationInv

\* An update that is recorded is the one that was written.
LEMMA RecordStep ==
  ASSUME CurationInv, NEW c \in CardId, C!Record(c)
  PROVE  CurationInv'
<1>1. /\ job' = [job EXCEPT ![c].at = "hold"] /\ history' = history \cup C!Changes(c)
      /\ UNCHANGED <<catalog, born, holding, card, written, lost>>
      /\ job[c].at = "write" /\ job[c].left = {}
  BY DEF C!Record, C!Server, C!told
<1>2. job[c] \in AJob /\ job[c].known
  BY <1>1 DEF CurationInv, CurationTypes, Updating
<1>3. job' \in [CardId -> AJob]
  BY <1>1, <1>2 DEF CurationInv, CurationTypes, AJob
<1>4. CurationTypes'
  <2>1. \A h \in C!Changes(c) : h[1] \in CardId /\ h[2] \in C!Row
    BY DEF C!Changes, C!Differing
  <2> QED BY <1>1, <1>3, <2>1 DEF CurationInv, CurationTypes
<1>5. \A d \in CardId :
        /\ job'[d].at = (IF d = c THEN "hold" ELSE job[d].at) /\ job'[d].known = job[d].known
        /\ job'[d].sent = job[d].sent /\ job'[d].seen = job[d].seen /\ job'[d].left = job[d].left
  BY <1>1, <1>2 DEF CurationInv, CurationTypes, AJob
<1>6. \A d \in CardId : C!Changes(d)' = C!Changes(d)
  BY <1>5 DEF C!Changes
<1>7. Gone' /\ Sending' /\ Creating' /\ Holding' /\ C!BornHasParents'
  BY <1>1, <1>2, <1>5 DEF CurationInv, Gone, Sending, Creating, Holding, C!BornHasParents
<1>8. Updating'
  BY <1>1, <1>2, <1>5, <1>6 DEF CurationInv, Updating
<1>9. Telling'
  <2>1. \A w \in written' \ (history' \cup lost') : job'[w[1]].at = "write" /\ w \in C!Changes(w[1])'
    <3> SUFFICES ASSUME NEW w \in written' \ (history' \cup lost')
                 PROVE  job'[w[1]].at = "write" /\ w \in C!Changes(w[1])'
      OBVIOUS
    <3>1. job[w[1]].at = "write" /\ w \in C!Changes(w[1]) /\ w[1] \in CardId
      BY <1>1 DEF CurationInv, Telling, CurationTypes
    <3>2. w[1] # c
      BY <1>1, <3>1
    <3> QED BY <1>5, <1>6, <3>1, <3>2
  <2>2. \A h \in history' \ written' : h[3] = Null \/ catalog'[h[2]] = Absent
    <3> SUFFICES ASSUME NEW h \in C!Changes(c), h \notin written
                 PROVE  catalog[h[2]] = Absent
      BY <1>1 DEF CurationInv, Telling
    <3>1. PICK x \in C!Differing(job[c].sent, job[c].seen) : h = <<c, x, job[c].sent[x]>>
      BY DEF C!Changes
    <3>2. <<c, x, job[c].sent[x]>> \in written \/ catalog[x] = Absent
      BY <1>1, <3>1 DEF CurationInv, Telling
    <3> QED BY <3>1, <3>2
  <2>3. ASSUME NEW d \in CardId, job'[d].at = "write"
        PROVE  /\ job'[d].left \subseteq C!Differing(job'[d].sent, job'[d].seen)
               /\ \A x \in C!Differing(job'[d].sent, job'[d].seen) \ job'[d].left :
                    <<d, x, job'[d].sent[x]>> \in written' \/ catalog'[x] = Absent
    BY <1>1, <1>5, <2>3 DEF CurationInv, Telling
  <2>4. \A d \in CardId : C!Differing(job[d].sent, job[d].seen)' = C!Differing(job'[d].sent, job'[d].seen)
    BY DEF C!Differing, C!Row
  <2> QED BY <2>1, <2>2, <2>3, <2>4 DEF Telling
<1> QED BY <1>4, <1>7, <1>8, <1>9 DEF CurationInv

\* A creation that starts writes its rows from the top.
LEMMA CreateStep ==
  ASSUME C!CurationAssumption, CurationInv, NEW c \in CardId, C!Create(c)
  PROVE  CurationInv'
<1> DEFINE L == {k \in Key : job[c].sent[k] # Absent}
           bare == [x \in C!Row |-> IF x = Product THEN job[c].sent[x] ELSE Absent]
<1>1. /\ job' = [job EXCEPT ![c].at = "create", ![c].left = L]
      /\ born' = [born EXCEPT ![c] = bare]
      /\ UNCHANGED <<catalog, history, holding, card, written, lost>>
      /\ job[c].at = "read" /\ ~job[c].known
  BY DEF C!Create, C!Server, C!told
<1>2. job[c] \in AJob /\ job[c].sent \in C!Rows
  BY <1>1 DEF CurationInv, CurationTypes, Sending
<1>3. bare \in C!Rows
  BY <1>2 DEF C!Rows, C!Value
<1>4. job' \in [CardId -> AJob] /\ born' \in [CardId -> C!Rows \cup {Absent}]
  BY <1>1, <1>2, <1>3 DEF CurationInv, CurationTypes, AJob, C!Row
<1>5. CurationTypes'
  BY <1>1, <1>4 DEF CurationInv, CurationTypes
<1>6. /\ job'[c].at = "create" /\ ~job'[c].known /\ job'[c].sent = job[c].sent /\ job'[c].left = L
      /\ born'[c] = bare
      /\ \A d \in CardId \ {c} : job'[d] = job[d] /\ born'[d] = born[d]
  BY <1>1, <1>2 DEF CurationInv, CurationTypes, AJob
<1>10. Rooted(bare)
  BY DEF Rooted, C!CurationAssumption, C!Row
<1>11. \A k \in C!Row : (job[c].sent[k] # Absent /\ k \notin L) => bare[k] = job[c].sent[k]
  BY DEF C!Row
<1>12. \A k \in L : job[c].sent[k] # Absent
  OBVIOUS
<1> HIDE DEF L, bare
<1>7. Gone' /\ Sending' /\ Updating' /\ Holding'
  <2>4. UNCHANGED <<catalog, history, holding>> /\ job[c].at = "read"
    BY <1>1
  <2>1. Gone' /\ Sending'
    BY <1>2, <2>4, <1>6 DEF CurationInv, Gone, Sending
  <2>2. Updating'
    <3>1. \A d \in CardId \ {c} : C!Changes(d)' = C!Changes(d)
      BY <1>6 DEF C!Changes
    <3> QED BY <2>4, <1>6, <3>1 DEF CurationInv, Updating
  <2>3. Holding'
    BY <2>4, <1>6 DEF CurationInv, Holding
  <2> QED BY <2>1, <2>2, <2>3
<1>13. Telling'
  BY <1>1, <1>6, ToldKept DEF CurationInv
<1>9. C!BornHasParents'
  BY <1>6, <1>10 DEF CurationInv, C!BornHasParents, Rooted
<1>8. Creating'
  BY <1>3, <1>6, <1>10, <1>11, <1>12 DEF CurationInv, Creating, Rooted
<1> QED BY <1>5, <1>7, <1>8, <1>9, <1>13 DEF CurationInv

\* A row is created under a parent that is there already.
LEMMA CreateRowStep ==
  ASSUME C!CurationAssumption, CurationInv, NEW c \in CardId, NEW k \in Key, C!CreateRow(c, k)
  PROVE  CurationInv'
<1>1. /\ job' = [job EXCEPT ![c].left = @ \ {k}]
      /\ born' = [born EXCEPT ![c][k] = job[c].sent[k]]
      /\ UNCHANGED <<catalog, history, holding, card, written, lost>>
      /\ job[c].at = "create" /\ k \in job[c].left
      /\ born[c][Parent[k]] # Absent
  BY DEF C!CreateRow, C!Server, C!First, C!told
<1>2. /\ job[c] \in AJob /\ job[c].sent \in C!Rows /\ job[c].sent[k] # Absent
      /\ ~job[c].known /\ born[c] \in C!Rows /\ k \in C!Row
  BY <1>1 DEF CurationInv, CurationTypes, Sending, Creating, C!Row
<1>3. job' \in [CardId -> AJob]
  BY <1>1, <1>2 DEF CurationInv, CurationTypes, AJob
<1>4. /\ born'[c] = [born[c] EXCEPT ![k] = job[c].sent[k]]
      /\ born' = [d \in CardId |-> born'[d]]
      /\ \A d \in CardId \ {c} : born'[d] = born[d]
  BY <1>1, <1>2 DEF CurationInv, CurationTypes
<1>5. /\ born'[c] \in C!Rows /\ born'[c][k] = job[c].sent[k]
      /\ \A x \in C!Row \ {k} : born'[c][x] = born[c][x]
  BY <1>2, <1>4 DEF C!Rows
<1>6. born' \in [CardId -> C!Rows \cup {Absent}]
  BY <1>4, <1>5 DEF CurationInv, CurationTypes
<1>7. CurationTypes'
  BY <1>1, <1>3, <1>6 DEF CurationInv, CurationTypes
<1>8. \A d \in CardId :
        /\ job'[d].at = job[d].at /\ job'[d].known = job[d].known
        /\ job'[d].sent = job[d].sent /\ job'[d].seen = job[d].seen
        /\ job'[d].left = IF d = c THEN job[c].left \ {k} ELSE job[d].left
  BY <1>1, <1>2 DEF CurationInv, CurationTypes, AJob
<1>9. UNCHANGED <<catalog, history, holding>>
  BY <1>1
<1>10. Gone' /\ Sending' /\ Updating' /\ Holding'
  <2>1. \A d \in CardId : C!Changes(d)' = C!Changes(d)
    BY <1>8 DEF C!Changes
  <2> QED BY <1>8, <1>9, <2>1 DEF CurationInv, Gone, Sending, Updating, Holding
<1>14. Telling'
  <2>1. \A d \in CardId \ {c} : job'[d] = job[d]
    BY <1>1 DEF CurationInv, CurationTypes
  <2>2. job'[c].at = "create"
    BY <1>1, <1>8
  <2> QED BY <1>1, <2>1, <2>2, ToldKept DEF CurationInv
<1>11. Rooted(born'[c])
  <2> SUFFICES ASSUME NEW x \in Key, born'[c][x] # Absent
               PROVE  born'[c][Parent[x]] # Absent
    BY DEF Rooted
  <2>1. born[c][Parent[x]] # Absent
    <3>1. CASE x = k
      BY <1>1, <3>1
    <3>2. CASE x # k
      BY <1>1, <1>2, <1>5, <3>2 DEF CurationInv, Creating, Rooted, C!Row
    <3> QED BY <3>1, <3>2
  <2>2. Parent[x] \in C!Row
    BY DEF C!CurationAssumption
  <2>3. CASE Parent[x] = k
    BY <1>2, <1>5, <2>3
  <2>4. CASE Parent[x] # k
    BY <1>5, <2>1, <2>2, <2>4
  <2> QED BY <2>3, <2>4
<1>12. Creating'
  <2>1. \A d \in CardId \ {c} :
          /\ job'[d].at = job[d].at /\ job'[d].known = job[d].known /\ job'[d].sent = job[d].sent
          /\ job'[d].left = job[d].left /\ born'[d] = born[d]
    BY <1>4, <1>8
  <2>2. /\ job'[c].at = "create" /\ ~job'[c].known /\ job'[c].sent = job[c].sent
        /\ job'[c].left = job[c].left \ {k}
    BY <1>1, <1>2, <1>8
  <2>3. /\ \A x \in C!Row : (job[c].sent[x] # Absent /\ x \notin job[c].left) => born[c][x] = job[c].sent[x]
        /\ \A x \in job[c].left : job[c].sent[x] # Absent
    BY <1>1, <1>2 DEF CurationInv, Creating
  <2>4. \A x \in C!Row : (job'[c].sent[x] # Absent /\ x \notin job'[c].left) => born'[c][x] = job'[c].sent[x]
    BY <1>5, <2>2, <2>3
  <2>5. \A x \in job'[c].left : job'[c].sent[x] # Absent
    BY <2>2, <2>3
  <2> SUFFICES ASSUME NEW d \in CardId
               PROVE  /\ job'[d].at = "create" => ~job'[d].known
                      /\ (job'[d].at \in {"create", "hold", "done"} /\ ~job'[d].known) =>
                           /\ born'[d] \in C!Rows
                           /\ \A x \in C!Row : (job'[d].sent[x] # Absent /\ x \notin job'[d].left) => born'[d][x] = job'[d].sent[x]
                           /\ \A x \in job'[d].left : job'[d].sent[x] # Absent
                           /\ Rooted(born'[d])
                      /\ (job'[d].at \in {"hold", "done"} /\ ~job'[d].known) => job'[d].left = {}
    BY DEF Creating, Rooted
  <2>6. CASE d = c
    BY <1>5, <1>11, <2>2, <2>4, <2>5, <2>6
  <2>7. CASE d # c
    BY <2>1, <2>7 DEF CurationInv, Creating
  <2> QED BY <2>6, <2>7
<1>13. C!BornHasParents'
  <2>1. \A d \in CardId \ {c} : born'[d] = born[d]
    BY <1>4
  <2> QED BY <1>11, <2>1 DEF CurationInv, C!BornHasParents, Rooted
<1> QED BY <1>7, <1>10, <1>12, <1>13, <1>14 DEF CurationInv

\* A creation that is recorded has written all its rows.
LEMMA RecordCreateStep ==
  ASSUME CurationInv, NEW c \in CardId, C!RecordCreate(c)
  PROVE  CurationInv'
<1>1. /\ job' = [job EXCEPT ![c].at = "hold"] /\ history' = history \cup {<<c, Product, Null>>}
      /\ UNCHANGED <<catalog, born, holding, card, written, lost>>
      /\ job[c].at = "create" /\ job[c].left = {}
  BY DEF C!RecordCreate, C!Server, C!told
<1>2. job[c] \in AJob /\ ~job[c].known
  BY <1>1 DEF CurationInv, CurationTypes, Creating
<1>3. CurationTypes'
  <2>1. job' \in [CardId -> AJob]
    BY <1>1, <1>2 DEF CurationInv, CurationTypes, AJob
  <2> QED BY <1>1, <2>1 DEF CurationInv, CurationTypes, C!Row
<1>4. \A d \in CardId :
        /\ job'[d].at = (IF d = c THEN "hold" ELSE job[d].at) /\ job'[d].known = job[d].known
        /\ job'[d].sent = job[d].sent /\ job'[d].seen = job[d].seen /\ job'[d].left = job[d].left
  BY <1>1, <1>2 DEF CurationInv, CurationTypes, AJob
<1>5. Gone' /\ Sending' /\ Creating' /\ Holding' /\ C!BornHasParents'
  BY <1>1, <1>2, <1>4 DEF CurationInv, Gone, Sending, Creating, Holding, C!BornHasParents
<1>6. Updating'
  <2>1. \A d \in CardId : C!Changes(d)' = C!Changes(d)
    BY <1>4 DEF C!Changes
  <2> QED BY <1>1, <1>2, <1>4, <2>1 DEF CurationInv, Updating
<1>7. Telling'
  <2>1. \A d \in CardId \ {c} : job'[d] = job[d]
    BY <1>1 DEF CurationInv, CurationTypes
  <2>2. job'[c].at = "hold"
    BY <1>4
  <2> QED BY <1>1, <2>1, <2>2, ToldKept DEF CurationInv
<1> QED BY <1>3, <1>5, <1>6, <1>7 DEF CurationInv

\* A holding is linked to a row that stands with its parents and its history.
LEMMA HoldStep ==
  ASSUME CurationInv, NEW c \in CardId, C!Hold(c)
  PROVE  CurationInv'
<1>1. /\ job' = [job EXCEPT ![c].at = "done"]
      /\ holding' = [holding EXCEPT ![c] = IF job[c].known THEN "linked" ELSE "created"]
      /\ UNCHANGED <<catalog, born, history, card, written, lost>> /\ job[c].at = "hold"
  BY DEF C!Hold, C!Server, C!told
<1>2. job[c] \in AJob
  BY DEF CurationInv, CurationTypes
<1>3. CurationTypes'
  <2>1. job' \in [CardId -> AJob]
    BY <1>1, <1>2 DEF CurationInv, CurationTypes, AJob
  <2>2. holding' \in [CardId -> {"none", "linked", "created"}]
    BY <1>1 DEF CurationInv, CurationTypes
  <2> QED BY <1>1, <2>1, <2>2 DEF CurationInv, CurationTypes
<1>4. \A d \in CardId :
        /\ job'[d].at = (IF d = c THEN "done" ELSE job[d].at) /\ job'[d].known = job[d].known
        /\ job'[d].sent = job[d].sent /\ job'[d].seen = job[d].seen /\ job'[d].left = job[d].left
        /\ holding'[d] = IF d = c THEN IF job[c].known THEN "linked" ELSE "created" ELSE holding[d]
  BY <1>1, <1>2 DEF CurationInv, CurationTypes, AJob
<1>5. Gone' /\ Sending' /\ Creating' /\ Holding' /\ C!BornHasParents'
  BY <1>1, <1>2, <1>4 DEF CurationInv, Gone, Sending, Creating, Holding, C!BornHasParents
<1>6. Updating'
  <2>1. \A d \in CardId : C!Changes(d)' = C!Changes(d)
    BY <1>4 DEF C!Changes
  <2> QED BY <1>1, <1>2, <1>4, <2>1 DEF CurationInv, Updating
<1>7. Telling'
  <2>1. \A d \in CardId \ {c} : job'[d] = job[d]
    BY <1>1 DEF CurationInv, CurationTypes
  <2>2. job'[c].at = "done"
    BY <1>4
  <2> QED BY <1>1, <2>1, <2>2, ToldKept DEF CurationInv
<1> QED BY <1>3, <1>5, <1>6, <1>7 DEF CurationInv

\* Others that write or delete rows of the product touch nothing a request
\* relies on, and bring back nothing that is gone.
LEMMA MeanwhileStep ==
  ASSUME C!CurationAssumption, CurationInv,
         \/ \E r \in C!Row, v \in C!Fraction \cup Allocation : C!Sync(r, v)
         \/ \E r \in C!Row : C!Delete(r)
  PROVE  CurationInv'
<1>1. UNCHANGED <<born, history, written, lost, holding, card, job>>
  BY DEF C!Sync, C!Delete, C!Meanwhile, C!told
<1>2. /\ catalog' \in C!Rows /\ \A x \in C!Row : catalog[x] = Absent => catalog'[x] = Absent
      /\ Gone'
  <2>1. ASSUME NEW r \in C!Row, NEW v \in C!Fraction \cup Allocation, C!Sync(r, v)
        PROVE  /\ catalog' \in C!Rows /\ \A x \in C!Row : catalog[x] = Absent => catalog'[x] = Absent
               /\ \A x \in C!Row : catalog'[x] = Absent => catalog[x] = Absent
    BY <2>1 DEF CurationInv, CurationTypes, C!Sync, C!Rows, C!Value, C!CurationAssumption
  <2>2. ASSUME NEW r \in C!Row, C!Delete(r)
        PROVE  /\ catalog' \in C!Rows /\ \A x \in C!Row : catalog[x] = Absent => catalog'[x] = Absent
               /\ catalog'[Product] = Absent => catalog[Product] = Absent \/ r = Product
               /\ r = Product => \A k \in Key : catalog'[k] = Absent
    <3> DEFINE gone == IF r = Product THEN C!Row ELSE {r} \cup {x \in Key : Parent[x] = r}
    <3>1. catalog' = [x \in C!Row |-> IF x \in gone THEN Absent ELSE catalog[x]]
      BY <2>2 DEF C!Delete
    <3>2. Product \in C!Row /\ Product \notin Key /\ Key \subseteq C!Row
      BY DEF C!Row, C!CurationAssumption
    <3>3. Product \in gone => r = Product
      BY <3>2
    <3>4. r = Product => \A k \in Key : k \in gone
      BY <3>2
    <3> HIDE DEF gone
    <3>5. catalog' \in C!Rows
      BY <3>1 DEF CurationInv, CurationTypes, C!Rows, C!Value
    <3> QED BY <3>1, <3>2, <3>3, <3>4, <3>5
  <2>3. Product \in C!Row /\ \A k \in Key : k \in C!Row
    BY DEF C!Row
  <2> QED BY <2>1, <2>2, <2>3 DEF CurationInv, Gone
<1>3. Telling'
  BY <1>1, <1>2, ToldKept DEF CurationInv
<1> QED BY <1>1, <1>2, <1>3 DEF CurationInv, CurationTypes, Sending, Updating, Creating, Holding,
                                C!BornHasParents, C!Changes, C!Differing

\* Every step keeps the invariant.
LEMMA CurationStep == C!CurationAssumption /\ CurationInv /\ [C!Next]_C!vars => CurationInv'
<1> SUFFICES ASSUME C!CurationAssumption, CurationInv, [C!Next]_C!vars PROVE CurationInv'
  OBVIOUS
<1>1. CASE UNCHANGED C!vars
  <2>1. card' \in [CardId -> ACard] /\ UNCHANGED <<catalog, born, history, written, lost, holding, job>>
    BY <1>1 DEF C!vars, C!told, CurationInv, CurationTypes
  <2> QED BY <2>1, CardKept
<1>2. CASE \/ \E k \in Key, v \in C!Fraction : C!Sync(k, v)
           \/ \E a \in Allocation : C!Sync(Product, a)
           \/ \E r \in C!Row : C!Delete(r)
  BY <1>2, MeanwhileStep DEF C!Row
<1>3. CASE C!Next
  BY <1>2, <1>3, CardEdited, ApproveStep, ReadStep, WriteStep, RecordStep, CreateStep,
     CreateRowStep, RefuseStep, RecordCreateStep, HoldStep, CrashStep DEF C!Next
<1> QED BY <1>1, <1>3

\* What the invariant is for.
LEMMA CurationWanted == CurationInv => C!TypeOK /\ C!HoldingIsWhole
<1> SUFFICES ASSUME CurationInv PROVE C!TypeOK /\ C!HoldingIsWhole
  OBVIOUS
<1>1. C!TypeOK
  BY DEF CurationInv, CurationTypes, Sending, C!TypeOK, ACard, AJob, ATable
<1>2. C!HoldingIsComplete
  <2> SUFFICES ASSUME NEW c \in CardId
               PROVE  /\ holding[c] = "created" =>
                           \A r \in C!Row : job[c].sent[r] # Absent => born[c][r] = job[c].sent[r]
                      /\ holding[c] = "linked" => C!Changes(c) \subseteq history
    BY DEF C!HoldingIsComplete
  <2>1. /\ holding[c] # "none" => job[c].at = "done"
        /\ holding[c] = "created" => ~job[c].known
        /\ holding[c] = "linked" => job[c].known
    BY DEF CurationInv, Holding
  <2> QED BY <2>1 DEF CurationInv, Updating, Creating
<1>3. C!ChangesAreTold
  BY DEF CurationInv, Telling, C!ChangesAreTold
<1> QED BY <1>1, <1>2, <1>3 DEF CurationInv, C!HoldingIsWhole

-----------------------------------------------------------------------------
(* The curation: numbers nobody touched *)

\* A number that is shown and read back is off by less than half of what the
\* card shows.
LEMMA ShownAndReadBack ==
  ASSUME C!CurationAssumption, NEW v \in C!Fraction, v # Null,
         C!PercentToFraction(C!FormatFractionValue(v)) # Null
  PROVE  C!Near(C!PercentToFraction(C!FormatFractionValue(v)), v)
<1> DEFINE h == Grain \div 2
           q == (v + h) \div Grain
<1>1. Grain \in Nat \ {0} /\ Grain % 2 = 1 /\ v \in Nat
  BY DEF C!CurationAssumption, C!Fraction
<1>2. h \in Nat /\ Grain = 2 * h + 1
  BY <1>1
<1>3. q \in Nat /\ q * Grain <= v + h /\ v + h < q * Grain + Grain
  BY <1>1, <1>2
<1>4. C!FormatFractionValue(v) = q /\ C!PercentToFraction(q) = q * Grain
  BY DEF C!FormatFractionValue, C!PercentToFraction
<1>5. q * Grain \in C!Fraction
  <2>1. C!FormatFractionValue(v) \in C!Text
    BY FormatType
  <2>2. C!PercentToFraction(C!FormatFractionValue(v)) \in C!Fraction \cup {Null}
    BY <2>1, PercentType
  <2> QED BY <1>4, <2>2
<1>6. q * Grain \in Nat
  BY <1>1, <1>3
<1> DEFINE w == q * Grain
<1>7. w \in Nat /\ w <= v + h /\ v + h < w + Grain
  BY <1>3, <1>6
<1> HIDE DEF w, q, h
<1>8. 2 * (w - v) < Grain /\ 2 * (v - w) < Grain
  BY <1>1, <1>2, <1>7
<1> QED BY <1>4, <1>5, <1>8 DEF C!Near, w

-----------------------------------------------------------------------------
(* The fichas *)

\* The two sides run apart, each under its own specification.
LEMMA Sides == FichaSpec => Spec /\ C!Spec
<1>1. FichaInit => Init /\ C!Init
  BY DEF FichaInit
<1>2. [FichaNext]_<<side, vars, cVars>> => [Next]_vars /\ [C!Next]_C!vars
  BY DEF FichaNext, cVars, C!vars, C!told
<1> QED BY <1>1, <1>2, PTL DEF FichaSpec, Spec, C!Spec

\* The invariant of the curation always holds.
LEMMA CurationInvariance == C!Spec => []CurationInv
<1>1. C!Init => CurationInv
  BY CurationInstance, CurationInit
<1>2. CurationInv /\ [C!Next]_C!vars => CurationInv'
  BY CurationInstance, CurationStep
<1> QED BY <1>1, <1>2, PTL DEF C!Spec

\* Page, calls and tables keep their types, and the table is mounted exactly
\* under a review (page.tsx); every table a card holds is made of texts it can
\* show, and every request carries numbers the columns of the catalog hold
\* (reviewTableShared.ts).
THEOREM TypeCorrect == FichaSpec => []FichaTypeOK
<1>1. IInv /\ CurationInv => FichaTypeOK
  <2>1. IInv => TypeOK
    BY DEF IInv, DbInv, PageInv, TypeOK
  <2> QED BY <2>1, CurationWanted DEF FichaTypeOK
<1> QED BY <1>1, Sides, Invariance, CurationInvariance, PTL

\* A holding comes from a line the admin approved on the screen, and goes to the
\* client of that line's ficha, whatever calls are answered late, lost, or made
\* by a table that is gone; and only a ficha that was imported is confirmed
\* (ReviewTable.tsx, page.tsx, admin_routes.py).
THEOREM HoldingsApproved == Spec => []HoldingsAreApproved
<1>1. IInv => HoldingsAreApproved
  BY DEF IInv, DbInv
<1> QED BY <1>1, Invariance, PTL

\* The page never waits for nothing: every indicator has its call (page.tsx,
\* ReviewTable.tsx).
THEOREM WaitsHaveCalls == Spec => []WaitingHasCalls
<1>1. IInv => WaitingHasCalls
  BY DEF IInv
<1> QED BY <1>1, Invariance, PTL

\* A holding comes after all its approve had to do in the catalog.  A product
\* created for it is whole; in a matched one, what the approve found different is
\* in the history, and a product deleted meanwhile is passed over in silence.
\* Every change of an approve that is over is told, unless the request died
\* between the change and its history row, and nothing is told that was not done
\* but for rows deleted meanwhile.  No row stands without its parent in a product
\* made from a card (catalog_curation.py, admin_routes.py).
THEOREM HoldingsWhole == FichaSpec => []HoldingIsWhole
<1>1. CurationInv => HoldingIsWhole
  BY CurationWanted DEF HoldingIsWhole
<1> QED BY <1>1, Sides, CurationInvariance, PTL

\* An approve writes over a number that nobody edited on its card, and that is
\* still the one the card was made of, only with the same number as far as the
\* card shows it; and over the classes of the product, in that case, only with
\* the first of them at 100 (reviewTableShared.ts, catalog_curation.py).
THEOREM UntouchedNumbersKept == FichaSpec => UntouchedKept
<1>1. CurationInv /\ [C!Next]_C!vars
        => [\A c \in CardId, r \in C!Row :
              (job'[c].left # job[c].left /\ catalog'[r] # catalog[r])
                => \/ job[c].sent[r] # C!Requested(card[c].first, Whole[card[c].origin[Product]])[r]
                   \/ catalog[r] # card[c].origin[r]
                   \/ C!Near(catalog'[r], catalog[r])
                   \/ r = Product /\ catalog'[r] = Whole[catalog[r]]]_C!vars
  <2> SUFFICES ASSUME CurationInv, C!Next,
                      NEW c \in CardId, NEW r \in C!Row,
                      job'[c].left # job[c].left, catalog'[r] # catalog[r],
                      job[c].sent[r] = C!Requested(card[c].first, Whole[card[c].origin[Product]])[r],
                      catalog[r] = card[c].origin[r]
               PROVE  C!Near(catalog'[r], catalog[r]) \/ (r = Product /\ catalog'[r] = Whole[catalog[r]])
    OBVIOUS
  <2>1. PICK d \in CardId, x \in C!Row : C!Write(d, x)
    BY DEF C!Next, C!EditNumber, C!AddRow, C!RemoveRow, C!ChooseClass, C!Research, C!SetTable, C!Act,
           C!Approve, C!Read, C!Record, C!Create, C!RecordCreate, C!Hold, C!Crash, C!CreateRow,
           C!RefuseRow, C!Sync, C!Delete, C!Meanwhile, C!Server
  <2>2. /\ job' = [job EXCEPT ![d].left = @ \ {x}] /\ job[d].at = "write" /\ x \in job[d].left
        /\ catalog' = [catalog EXCEPT ![x] = job[d].sent[x]]
    BY <2>1 DEF C!Write, C!First
  <2>3. job \in [CardId -> AJob] /\ catalog \in C!Rows /\ card[c] \in ACard
    BY DEF CurationInv, CurationTypes
  <2>4. d = c /\ x = r /\ catalog'[r] = job[c].sent[r]
    BY <2>2, <2>3 DEF C!Rows
  <2>5. job[c].sent[r] \notin {Absent, Null}
    BY <2>2, <2>4 DEF CurationInv, Telling, C!Differing
  <2>6. card[c].origin = StoredRows
    BY <2>3 DEF ACard
  <2>7. CASE r = Product
    BY <2>4, <2>6, <2>7 DEF C!Requested
  <2>8. CASE r \in Key /\ r # Product
    <3>1. card[c].first[r] # NoRow /\ job[c].sent[r] = C!PercentToFraction(card[c].first[r])
      BY <2>5, <2>8 DEF C!Requested
    <3>2. card[c].first = C!EditableRows(StoredRows)
      BY <2>3, <2>8, <3>1 DEF ACard
    <3>3. card[c].first[r] = C!FormatFractionValue(catalog[r]) /\ catalog[r] # Absent
      BY <2>6, <2>8, <3>1, <3>2 DEF C!EditableRows
    <3>4. catalog[r] # Null
      BY <2>5, <3>1, <3>3 DEF C!FormatFractionValue, C!PercentToFraction
    <3>5. catalog[r] \in C!Fraction
      BY <2>6, <2>8, <3>3, <3>4, CurationInstance DEF C!CurationAssumption
    <3> QED BY <2>4, <2>5, <3>1, <3>3, <3>4, <3>5, CurationInstance, ShownAndReadBack
  <2> QED BY <2>7, <2>8 DEF C!Row
<1>2. C!Spec => C!UntouchedKept
  BY <1>1, CurationInvariance, PTL DEF C!Spec, C!UntouchedKept
<1> QED BY <1>2, Sides, PTL DEF UntouchedKept
=============================================================================
