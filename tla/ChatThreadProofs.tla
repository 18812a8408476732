-------------------------- MODULE ChatThreadProofs --------------------------
(* Machine-checked proofs about ChatThread, for every set of cards and names, *)
(* overlapping ones among them, and any number of messages and failures.      *)
EXTENDS ChatThread, SequenceTheorems, FiniteSetTheorems, WellFoundedInduction, TLAPS

-----------------------------------------------------------------------------
(* Sequences of messages, as the sets of what they hold *)

Msgs(ms) == {ms[i] : i \in DOMAIN ms}

LEMMA MsgsAppend ==
  ASSUME NEW ms \in Seq(AMessage), NEW m \in AMessage
  PROVE  /\ Append(ms, m) \in Seq(AMessage)
         /\ Len(Append(ms, m)) = Len(ms) + 1
         /\ Append(ms, m)[Len(ms) + 1] = m
         /\ Msgs(Append(ms, m)) = Msgs(ms) \cup {m}
<1>1. /\ Append(ms, m) \in Seq(AMessage) /\ Len(Append(ms, m)) = Len(ms) + 1
      /\ \A i \in 1 .. Len(ms) : Append(ms, m)[i] = ms[i]
      /\ Append(ms, m)[Len(ms) + 1] = m
  BY AppendProperties
<1>2. DOMAIN Append(ms, m) = 1 .. Len(ms) + 1 /\ DOMAIN ms = 1 .. Len(ms) /\ Len(ms) \in Nat
  BY <1>1, LenProperties
<1>3. 1 .. Len(ms) + 1 = (1 .. Len(ms)) \cup {Len(ms) + 1}
  BY <1>2
<1>4. Msgs(Append(ms, m)) = {Append(ms, m)[i] : i \in 1 .. Len(ms)} \cup {m}
  BY <1>1, <1>2, <1>3 DEF Msgs
<1> QED BY <1>1, <1>2, <1>4 DEF Msgs

LEMMA MsgsSubSeq ==
  ASSUME NEW ms \in Seq(AMessage), NEW k \in 0 .. Len(ms)
  PROVE  /\ SubSeq(ms, 1, k) \in Seq(AMessage) /\ Len(SubSeq(ms, 1, k)) = k
         /\ Msgs(SubSeq(ms, 1, k)) = {ms[i] : i \in 1 .. k}
<1>1. Len(ms) \in Nat /\ DOMAIN ms = 1 .. Len(ms) /\ \A i \in 1 .. Len(ms) : ms[i] \in AMessage
  BY LenProperties, ElementOfSeq
<1>2. /\ SubSeq(ms, 1, k) \in Seq(AMessage) /\ Len(SubSeq(ms, 1, k)) = k
      /\ \A i \in 1 .. k : SubSeq(ms, 1, k)[i] = ms[i]
  BY <1>1, SubSeqProperties
<1>3. DOMAIN SubSeq(ms, 1, k) = 1 .. k
  BY <1>2, LenProperties
<1>4. {SubSeq(ms, 1, k)[i] : i \in 1 .. k} = {ms[i] : i \in 1 .. k}
  BY <1>2
<1> QED BY <1>2, <1>3, <1>4 DEF Msgs

\* A finite set of positions has a last one.
LEMMA LastPosition ==
  ASSUME NEW n \in Nat, NEW S, S \subseteq 0 .. n, S # {}
  PROVE  Max(S) \in S /\ \A i \in S : i <= Max(S)
<1> DEFINE Above(i) == {j \in S : i < j}
           R == {Above(i) : i \in S}
<1>1. IsFiniteSet(0 .. n)
  BY FS_Interval
<1>2. R \subseteq FiniteSubsetsOf(S) /\ R # {}
  <2>1. IsFiniteSet(S)
    BY <1>1, FS_Subset
  <2>2. \A i \in S : Above(i) \subseteq S /\ IsFiniteSet(Above(i))
    BY <2>1, FS_Subset
  <2> QED BY <2>2 DEF FiniteSubsetsOf
<1> HIDE DEF R
<1>3. PICK A \in R : \A B \in R : <<B, A>> \notin StrictSubsetOrdering(S)
  BY <1>2, WFMin, FS_StrictSubsetOrderingWellFounded
<1>4. PICK i \in S : A = Above(i)
  BY DEF R
<1>5. Above(i) = {}
  <2> SUFFICES ASSUME NEW j \in Above(i) PROVE FALSE
    OBVIOUS
  <2>0. j \in S /\ i < j /\ j \in Int /\ i \in Int /\ \A k \in S : k \in Int
    OBVIOUS
  <2>1. Above(j) \subseteq Above(i) /\ j \notin Above(j)
    <3>1. \A k \in S : j < k => i < k
      BY <2>0
    <3>2. ~(j < j)
      BY <2>0
    <3> QED BY <3>1, <3>2, Zenon
  <2>2. <<Above(j), Above(i)>> \in StrictSubsetOrdering(S)
    BY <2>1 DEF StrictSubsetOrdering
  <2>3. Above(j) \in R
    BY DEF R
  <2> QED BY <1>3, <1>4, <2>2, <2>3
<1>6. \A j \in S : i >= j
  BY <1>5
<1>7. \E x \in S : \A y \in S : x >= y
  BY <1>6
<1> QED BY <1>7 DEF Max

\* The last message of the user, if there is one.
LEMMA LastUserFound ==
  ASSUME NEW ms \in Seq(AMessage)
  PROVE  /\ LastUser(ms) \in 0 .. Len(ms)
         /\ LastUser(ms) > 0 => ByUser(ms[LastUser(ms)])
         /\ \A i \in DOMAIN ms : ByUser(ms[i]) => i <= LastUser(ms)
<1> DEFINE S == {0} \cup {i \in DOMAIN ms : ByUser(ms[i])}
<1>1. Len(ms) \in Nat /\ DOMAIN ms = 1 .. Len(ms)
  BY LenProperties
<1>2. S \subseteq 0 .. Len(ms) /\ S # {}
  BY <1>1
<1>3. Max(S) \in S /\ \A i \in S : i <= Max(S)
  BY <1>1, <1>2, LastPosition
<1> QED BY <1>1, <1>2, <1>3 DEF LastUser

-----------------------------------------------------------------------------
(* The inductive invariant *)

\* What the thread and the page hold, and the message that is on its way.
Page   == IF shown = None THEN <<>> ELSE shown
T      == Msgs(thread)
P      == Msgs(Page)
Flight == IF call # None /\ call.stage = "sent" /\ ~call.retry THEN {call.msg} ELSE {}

YesIn(S, c)   == \E m \in S : m.verb = "yes" /\ c \in DOMAIN m.as
ToldIn(S, c)  == \E m \in S : m.verb \in {"yes", "no"} /\ c \in DOMAIN m.as
AddedIn(S, c) == \E m \in S : m.verb = "add" /\ c \in DOMAIN m.as

\* The product of the card is about to be added.
Going(c) == YesIn(Flight, c) \/ (call # None /\ c \in call.todo)

\* Cards whose answer a later load need not find.
Excused(c) == c \in reworded \cup rewound

\* A message names its cards as they were proposed or typed, and accepts only
\* what the user accepted.
Fair(m) ==
  /\ m \in AMessage /\ Named(m)
  /\ m.verb \in {"ask", "waiting", "error"} => DOMAIN m.as = {}
  /\ \A c \in DOMAIN m.as :
       m.as[c] \in {NameOf[c], Other, None} /\ (c \in reworded \/ m.as[c] = NameOf[c])
  /\ m.verb = "yes" => DOMAIN m.as \subseteq agreed

MessagesInv ==
  /\ thread \in Seq(AMessage) /\ Page \in Seq(AMessage)
  /\ shown = None \/ shown \in Seq(AMessage)
  /\ \A m \in T \cup P : Fair(m)

\* The turn that runs is of a message the user sent, and owes what it accepts.
CallInv ==
  /\ running = (call # None)
  /\ call # None =>
       /\ call \in ACall /\ Fair(call.msg) /\ ByUser(call.msg)
       /\ shown # None /\ shown # <<>> /\ shown[Len(shown)] = Waiting
       /\ call.stage = "sent" => call.todo = {} /\ call.msg \in P
       /\ call.stage # "sent" => call.msg \in T
       /\ call.todo # {} => call.msg.verb = "yes" /\ call.todo \subseteq DOMAIN call.msg.as

StateInv ==
  /\ answered \in [Card -> {None, "yes", "no"}] /\ said \in [Card -> {None, "yes", "no"}]
  /\ typed \in [Card -> Name \cup {None}] /\ book \in [Card -> Nat]
  /\ \A c \in Card : typed[c] \in {NameOf[c], Other, None}
  /\ UNION {agreed, dropped, broken, reworded, retried, rewound} \subseteq Card
  /\ turns \in 0 .. MaxTurns /\ faults \in 0 .. MaxFaults

\* What the page and the server know of one card.  A card that was answered
\* in the thread is answered on the page that shows it, so that it is not
\* answered again; what was accepted was added, broke off or is under way.
CardInv(c) ==
  /\ answered[c] # None => answered[c] = said[c]
  /\ book[c] > 0 => YesIn(T, c)
  /\ (Visible(c) /\ ToldIn(T \cup Flight, c) /\ ~Excused(c)) => (answered[c] # None \/ ToldIn(P, c))
  /\ (Going(c) /\ ~Excused(c) /\ c \notin retried) => book[c] = 0
  /\ book[c] <= 1 \/ Excused(c) \/ c \in retried
  /\ ((answered[c] = "yes" /\ c \notin dropped) \/ YesIn(T \cup P, c))
       => (book[c] > 0 \/ c \in broken \/ Going(c))
  /\ AddedIn(T \cup P, c) => book[c] > 0
  /\ ~Excused(c) =>
       \A m \in T \cup P : c \in DOMAIN m.as =>
         /\ m.verb \in {"yes", "no"} => m.verb = said[c]
         /\ m.verb = "add" => said[c] = "yes"

IInv == MessagesInv /\ CallInv /\ StateInv /\ \A c \in Card : CardInv(c)

-----------------------------------------------------------------------------
(* Messages, old and new *)

LEMMA MessageTyped ==
  ASSUME NEW verb \in Verbs, NEW cs \in SUBSET Card, NEW as \in [cs -> Name \cup {None}]
  PROVE  /\ Message(verb, as) \in AMessage
         /\ Message(verb, as).verb = verb /\ Message(verb, as).as = as /\ DOMAIN as = cs
  BY DEF Message, AMessage

LEMMA PlainMessages ==
  ASSUME NEW verb \in {"ask", "waiting", "error"}
  PROVE  /\ Message(verb, NoCards) \in AMessage /\ Fair(Message(verb, NoCards)) /\ Fair(Message(verb, NoCards))'
         /\ Message(verb, NoCards).verb = verb /\ DOMAIN Message(verb, NoCards).as = {}
<1>1. NoCards \in [{} -> Name \cup {None}] /\ verb \in Verbs
  BY DEF NoCards, Verbs
<1>2. /\ Message(verb, NoCards) \in AMessage /\ Message(verb, NoCards).verb = verb
      /\ DOMAIN Message(verb, NoCards).as = {}
  BY <1>1, MessageTyped
<1> QED BY <1>2 DEF Fair, Named

\* A message stays what it is as cards are accepted and reworded.
LEMMA FairKept ==
  ASSUME agreed \subseteq agreed', reworded \subseteq reworded', NEW m, Fair(m)
  PROVE  Fair(m)'
  BY DEF Fair

LEMMA SeenOnPage ==
  ASSUME NEW c \in Card
  PROVE  /\ Visible(c) <=> \E m \in P : Proposes(m, c)
         /\ Visible(c)' <=> \E m \in P' : Proposes(m, c)
<1>1. CASE shown = None
  BY <1>1 DEF Visible, P, Page, Msgs
<1>2. CASE shown # None
  BY <1>2 DEF P, Page, Msgs, Visible
<1>3. CASE shown' = None
  BY <1>3 DEF Visible, P, Page, Msgs
<1>4. CASE shown' # None
  BY <1>4 DEF P, Page, Msgs, Visible
<1> QED BY <1>1, <1>2, <1>3, <1>4

\* What a stream starts with: the page waits below what it had.
LEMMA Streamed ==
  ASSUME NEW base \in Seq(AMessage), NEW m \in AMessage, NEW r \in BOOLEAN, Stream(base, m, r)
  PROVE  /\ shown' \in Seq(AMessage) /\ shown' # None /\ Page' = shown'
         /\ P' = Msgs(base) \cup {Waiting}
         /\ shown' # <<>> /\ shown'[Len(shown')] = Waiting
         /\ call' \in ACall /\ call' # None /\ call'.msg = m /\ call'.todo = {}
         /\ call'.stage = "sent" /\ call'.retry = r
         /\ Flight' = IF r THEN {} ELSE {m}
<1>1. Waiting \in AMessage
  BY PlainMessages DEF Waiting
<1>2. /\ shown' = Append(base, Waiting) /\ Len(base) \in Nat
      /\ call' = [stage |-> "sent", retry |-> r, msg |-> m, todo |-> {}]
  BY LenProperties DEF Stream
<1>3. /\ shown' \in Seq(AMessage) /\ shown'[Len(shown')] = Waiting /\ Len(shown') = Len(base) + 1
      /\ Msgs(shown') = Msgs(base) \cup {Waiting}
  BY <1>1, <1>2, MsgsAppend
<1>4. shown' # None /\ shown' # <<>>
  BY <1>2, <1>3, ChatAssumption
<1>5. Page' = shown' /\ P' = Msgs(base) \cup {Waiting}
  BY <1>3, <1>4 DEF Page, P, Msgs
<1>6. call' \in ACall
  BY <1>2 DEF ACall
<1>7. call' # None
  BY <1>6, ChatAssumption
<1> QED BY <1>2, <1>3, <1>4, <1>5, <1>6, <1>7 DEF Flight

\* What broke leaves the error in the place of the answer.
LEMMA BrokenPage ==
  ASSUME MessagesInv, CallInv, call # None, Broken
  PROVE  /\ shown' \in Seq(AMessage) /\ Page' = shown' /\ shown' # None
         /\ P' \subseteq P \cup {Message("error", NoCards)}
         /\ \A m \in P : m = Waiting \/ m \in P'
         /\ call' = None /\ running' = FALSE /\ Flight' = {}
<1>1. /\ shown \in Seq(AMessage) /\ shown # None /\ shown # <<>> /\ shown[Len(shown)] = Waiting
      /\ Page = shown
  BY DEF CallInv, MessagesInv, Page
<1>2. Len(shown) \in Nat \ {0} /\ DOMAIN shown = 1 .. Len(shown)
  BY <1>1, EmptySeq, LenProperties
<1> DEFINE base == SubSeq(shown, 1, Len(shown) - 1)
<1>3. base \in Seq(AMessage) /\ Msgs(base) = {shown[i] : i \in 1 .. Len(shown) - 1}
  BY <1>1, <1>2, MsgsSubSeq
<1>4. Message("error", NoCards) \in AMessage
  BY PlainMessages
<1> HIDE DEF base
<1>5. shown' \in Seq(AMessage) /\ Msgs(shown') = Msgs(base) \cup {Message("error", NoCards)}
  BY <1>3, <1>4, MsgsAppend DEF Broken, base
<1>6. shown' # None
  BY <1>5, ChatAssumption
<1>7. Page' = shown' /\ P' = Msgs(shown')
  BY <1>6 DEF Page, P, Msgs
<1>8. P = {shown[i] : i \in 1 .. Len(shown)}
  BY <1>1, <1>2 DEF P, Msgs
<1>9. \A m \in P : m = Waiting \/ m \in Msgs(base)
  <2>1. \A n \in Nat : \A i \in 1 .. n : i \in 1 .. n - 1 \/ i = n
    OBVIOUS
  <2>2. \A i \in 1 .. Len(shown) : i \in 1 .. Len(shown) - 1 \/ i = Len(shown)
    BY <1>2, <2>1
  <2> QED BY <1>1, <1>3, <1>8, <2>2
<1>11. Msgs(base) \subseteq P
  <2>1. \A n \in Nat : 1 .. n - 1 \subseteq 1 .. n
    OBVIOUS
  <2> QED BY <1>2, <1>3, <1>8, <2>1
<1>10. call' = None /\ running' = FALSE
  BY DEF Broken, StopRunning
<1> QED BY <1>5, <1>6, <1>7, <1>9, <1>10, <1>11 DEF Flight

-----------------------------------------------------------------------------
(* What a card shows *)

\* A tool result or an answer of the user, of a product that may be the card's.
Adds(m, c)  == m.verb = "add" /\ \E d \in DOMAIN m.as : SameProduct(NameOf[c], m.as[d])
Tells(m, c) == m.verb \in {"yes", "no"} /\ Mentions(m, NameOf[c])

\* deriveResponseForProductFromThread: a tool result, else the last answer.
LEMMA WhatThreadSays ==
  ASSUME NEW ms \in Seq(AMessage), NEW c \in Card
  PROVE  \/ ThreadSays(c, ms) = "yes" /\ \E m \in Msgs(ms) : Adds(m, c)
         \/ /\ \A m \in Msgs(ms) : ~Adds(m, c)
            /\ \E m \in Msgs(ms) : Tells(m, c) /\ ThreadSays(c, ms) = m.verb
         \/ /\ \A m \in Msgs(ms) : ~Adds(m, c) /\ ~Tells(m, c)
            /\ ThreadSays(c, ms) = None
<1> DEFINE added == \E i \in DOMAIN ms : Adds(ms[i], c)
           texts == {i \in DOMAIN ms : Tells(ms[i], c)}
<1>1. ThreadSays(c, ms) = IF added THEN "yes" ELSE IF texts # {} THEN ms[Max(texts)].verb ELSE None
  BY DEF ThreadSays, Adds, Tells
<1>2. added <=> \E m \in Msgs(ms) : Adds(m, c)
  BY DEF Msgs
<1>3. (\E m \in Msgs(ms) : Tells(m, c)) <=> texts # {}
  BY DEF Msgs
<1> HIDE DEF added
<1>4. CASE added
  BY <1>1, <1>2, <1>4
<1>5. CASE ~added /\ texts # {}
  <2>1. Len(ms) \in Nat /\ texts \subseteq 0 .. Len(ms)
    BY LenProperties
  <2>2. Max(texts) \in texts
    BY <1>5, <2>1, LastPosition
  <2>3. Max(texts) \in DOMAIN ms /\ Tells(ms[Max(texts)], c)
    BY <2>2
  <2>4. ThreadSays(c, ms) = ms[Max(texts)].verb
    BY <1>1, <1>5
  <2> HIDE DEF texts
  <2> QED BY <1>2, <1>5, <2>3, <2>4 DEF Msgs
<1>6. CASE ~added /\ texts = {}
  <2>1. ThreadSays(c, ms) = None
    BY <1>1, <1>6
  <2> QED BY <1>2, <1>3, <1>6, <2>1
<1> QED BY <1>4, <1>5, <1>6

\* A message about the card, under the name it was proposed, tells or adds it.
LEMMA OwnName ==
  ASSUME NEW c \in Card, NEW m, Fair(m), c \in DOMAIN m.as, c \notin reworded
  PROVE  /\ m.verb \in {"yes", "no"} => Tells(m, c)
         /\ m.verb = "add" => Adds(m, c)
<1>1. m.as[c] = NameOf[c] /\ NameOf[c] \in Name /\ NameOf[c] # None /\ NameOf[c] \in Inside[NameOf[c]]
  BY ChatAssumption DEF Fair
<1> QED BY <1>1 DEF Tells, Adds, Mentions, SameProduct

\* A card on the page that waits for an answer was never answered in the thread.
LEMMA Unanswered ==
  ASSUME IInv, NEW c \in Card, Visible(c), Response(c) = None, ~Excused(c)
  PROVE  /\ answered[c] = None /\ ~ToldIn(T \cup P \cup Flight, c) /\ ~AddedIn(T \cup P, c)
         /\ book[c] = 0 /\ ~Going(c)
<1>0. None \notin {"yes", "no"}
  BY ChatAssumption
<1>1. MessagesInv /\ CallInv /\ CardInv(c) /\ shown # None /\ Page = shown /\ shown \in Seq(AMessage)
  BY DEF IInv, Visible, Page, MessagesInv
<1>2. answered[c] = None /\ ThreadSays(c, shown) = None
  BY DEF Response
<1>3. \A m \in P : ~Adds(m, c) /\ ~Tells(m, c)
  <2>1. \A m \in P : m.verb \in Verbs
    BY <1>1 DEF MessagesInv, Fair, AMessage
  <2>2. \A m \in P : Tells(m, c) => m.verb # None
    BY <1>0 DEF Tells
  <2> QED BY <1>0, <1>1, <1>2, <2>2, WhatThreadSays DEF P
<1>4. ~ToldIn(P, c) /\ ~AddedIn(P, c)
  BY <1>1, <1>3, OwnName DEF ToldIn, AddedIn, Excused, MessagesInv
<1>5. ~ToldIn(T \cup Flight, c)
  BY <1>1, <1>2, <1>4 DEF CardInv
<1>6. ~YesIn(T, c) /\ ~YesIn(Flight, c)
  BY <1>5 DEF ToldIn, YesIn
<1>7. ~(book[c] > 0)
  BY <1>1, <1>6 DEF CardInv
<1>8. book[c] = 0
  BY <1>7 DEF IInv, StateInv
<1>9. ~AddedIn(T \cup P, c)
  BY <1>1, <1>7 DEF CardInv
<1>10. call # None => c \notin call.todo
  BY <1>1, <1>6 DEF CallInv, YesIn
<1> QED BY <1>2, <1>4, <1>5, <1>6, <1>8, <1>9, <1>10 DEF ToldIn, Going

-----------------------------------------------------------------------------
(* What a step leaves of a card *)

\* A step that answers nothing, adds nothing and takes no message of the user
\* from the thread leaves what is known of a card.
LEMMA CardKept ==
  ASSUME NEW c \in Card, CardInv(c),
         \A m \in (T \cup P)' : m.verb \in {"yes", "no", "add"} /\ c \in DOMAIN m.as => m \in T \cup P,
         YesIn(T, c) => YesIn(T, c)',
         (Visible(c) /\ ToldIn(T \cup Flight, c) /\ ~Excused(c))' => (answered[c]' # None \/ ToldIn(P, c)'),
         Going(c)' => Going(c) \/ c \in retried',
         Going(c) => Going(c)' \/ c \in broken',
         book'[c] = book[c], said'[c] = said[c], answered'[c] \in {answered[c], None},
         Excused(c) => Excused(c)', c \in retried => c \in retried', c \in broken => c \in broken',
         (c \in dropped /\ answered'[c] # None) => c \in dropped'
  PROVE  CardInv(c)'
<1>1. YesIn(T \cup P, c)' => YesIn(T \cup P, c)
  BY DEF YesIn
<1>2. AddedIn(T \cup P, c)' => AddedIn(T \cup P, c)
  BY DEF AddedIn
<1>3. (answered[c]' = "yes" /\ c \notin dropped') => (answered[c] = "yes" /\ c \notin dropped)
  BY ChatAssumption
<1> QED BY <1>1, <1>2, <1>3 DEF CardInv

-----------------------------------------------------------------------------
(* The user *)

LEMMA InitIInv == Init => IInv
<1> SUFFICES ASSUME Init PROVE IInv
  OBVIOUS
<1>1. thread = <<>> /\ Page = <<>> /\ T = {} /\ P = {}
  BY DEF Init, T, P, Page, Msgs
<1>2. MessagesInv
  BY <1>1 DEF MessagesInv, Init
<1>3. CallInv
  BY DEF CallInv, Init
<1>4. StateInv
  BY ChatAssumption DEF StateInv, Init, Draft
<1>5. Flight = {}
  BY DEF Flight, Init
<1>6. ASSUME NEW c \in Card PROVE CardInv(c)
  BY <1>1, <1>5, ChatAssumption DEF CardInv, Init, YesIn, ToldIn, AddedIn, Going
<1> QED BY <1>2, <1>3, <1>4, <1>6 DEF IInv

\* The message of an answer.
LEMMA AnswerMessage ==
  ASSUME StateInv, NEW verb \in {"yes", "no"}, NEW cs \in SUBSET Card, Answer(verb, cs),
         verb = "yes" => \A c \in cs : typed[c] # None,
         NEW m, m = Message(verb, [c \in cs |-> typed[c]])
  PROVE  m \in AMessage /\ Fair(m)' /\ m.verb = verb /\ DOMAIN m.as = cs /\ ByUser(m)
<1>1. [c \in cs |-> typed[c]] \in [cs -> Name \cup {None}] /\ verb \in Verbs
  BY DEF StateInv, Verbs
<1>2. /\ m \in AMessage /\ m.verb = verb /\ m.as = [c \in cs |-> typed[c]] /\ DOMAIN m.as = cs
  BY <1>1, MessageTyped
<1>3. \A c \in cs : m.as[c] = typed[c]
  BY <1>2
<1>4. \A c \in cs : typed[c] \in Name \cup {None} /\ typed[c] \in {NameOf[c], Other, None}
  BY DEF StateInv
<1>5. Named(m)
  BY <1>2, <1>3, <1>4 DEF Named
<1>6. /\ \A c \in cs : c \in reworded' \/ typed[c] = NameOf[c]
      /\ verb = "yes" => cs \subseteq agreed'
  BY DEF Answer
<1> QED BY <1>2, <1>3, <1>4, <1>5, <1>6 DEF Fair, ByUser

\* Cards that wait for an answer get it, sent or dropped.
LEMMA AnswerKeeps ==
  ASSUME IInv, NEW verb \in {"yes", "no"}, NEW cs \in SUBSET Card, Answer(verb, cs), shown # None,
         verb = "yes" => \A c \in cs : typed[c] # None,
         \A c \in cs : Visible(c) /\ Response(c) = None
  PROVE  IInv'
<1>m. PICK m : m = Message(verb, [c \in cs |-> typed[c]])
  OBVIOUS
<1>0. MessagesInv /\ CallInv /\ StateInv /\ \A c \in Card : CardInv(c)
  BY DEF IInv
<1>1. m \in AMessage /\ Fair(m)' /\ m.verb = verb /\ DOMAIN m.as = cs /\ ByUser(m)
  BY <1>0, <1>m, AnswerMessage
<1>2. /\ Say(m) /\ UNCHANGED <<thread, typed, book, broken, retried, rewound, faults>>
      /\ answered' = [c \in Card |-> IF c \in cs THEN verb ELSE answered[c]]
      /\ said' = [c \in Card |-> IF c \in cs THEN verb ELSE said[c]]
      /\ agreed' = IF verb = "yes" THEN agreed \cup cs ELSE agreed
      /\ reworded' = reworded \cup {c \in cs : typed[c] # NameOf[c]}
  BY <1>m DEF Answer
<1>3. /\ agreed \subseteq agreed' /\ reworded \subseteq reworded' /\ T' = T
      /\ \A c \in Card : Excused(c) => Excused(c)'
  BY <1>2 DEF T, Excused
<1>4. \A n : Fair(n) => Fair(n)'
  BY <1>3, FairKept
<1>5. /\ \A c \in cs : answered'[c] = verb /\ said'[c] = verb
      /\ \A c \in Card \ cs : answered'[c] = answered[c] /\ said'[c] = said[c]
      /\ verb # None
  BY <1>2, ChatAssumption
<1>6. \A c \in cs : ~Excused(c)' => ~ToldIn(T \cup P \cup Flight, c) /\ ~AddedIn(T \cup P, c)
                                     /\ book[c] = 0 /\ ~Going(c)
  BY <1>3, Unanswered
<1>7. StateInv' /\ (running => turns' = turns)
  <2>1. dropped' \subseteq Card /\ turns' \in 0 .. MaxTurns /\ (running => turns' = turns)
    BY <1>0, <1>1, <1>2, ChatAssumption DEF Say, Stream, StateInv
  <2> QED BY <1>0, <1>2, <2>1 DEF StateInv
<1>8. CASE running
  <2>1. UNCHANGED <<shown, running, call>> /\ dropped' = dropped \cup cs
    BY <1>1, <1>2, <1>8 DEF Say
  <2>2. Page' = Page /\ P' = P /\ Flight' = Flight
    BY <2>1 DEF Page, P, Flight
  <2>3. MessagesInv' /\ CallInv'
    BY <1>0, <1>2, <1>3, <1>4, <2>1, <2>2 DEF MessagesInv, CallInv
  <2>4. ASSUME NEW c \in Card PROVE CardInv(c)'
    <3>1. /\ (Visible(c) <=> Visible(c)') /\ (Going(c) <=> Going(c)')
          /\ book' = book /\ retried' = retried /\ broken' = broken /\ rewound' = rewound
      BY <1>2, <2>1, <2>2 DEF Visible, Going
    <3>2. CASE c \in cs
      <4>1. answered'[c] = verb /\ said'[c] = verb /\ c \in dropped'
        BY <1>5, <2>1, <3>2
      <4>2. YesIn(T \cup P, c) => (book[c] > 0 \/ c \in broken \/ Going(c))
        BY <1>0 DEF CardInv
      <4>3. ~Excused(c)' => ~ToldIn(T \cup P, c) /\ ~AddedIn(T \cup P, c)
        BY <1>6, <3>2 DEF ToldIn
      <4>4. ~Excused(c)' => \A n \in T \cup P : c \in DOMAIN n.as => n.verb \notin {"yes", "no", "add"}
        BY <4>3 DEF ToldIn, AddedIn
      <4> QED BY <1>0, <1>3, <1>5, <2>2, <3>1, <4>1, <4>2, <4>4 DEF CardInv
    <3>3. CASE c \notin cs
      <4>1. answered'[c] = answered[c] /\ said'[c] = said[c] /\ (c \in dropped' <=> c \in dropped)
        BY <1>5, <2>1, <3>3
      <4>2. (Visible(c) /\ ToldIn(T \cup Flight, c) /\ ~Excused(c))' => (answered[c]' # None \/ ToldIn(P, c)')
        BY <1>0, <1>3, <2>2, <3>1, <4>1 DEF CardInv
      <4> QED BY <1>0, <1>3, <2>2, <3>1, <4>1, <4>2, CardKept
    <3> QED BY <3>2, <3>3
  <2> QED BY <1>7, <2>3, <2>4 DEF IInv
<1>9. CASE ~running
  <2>1. /\ call = None /\ Stream(Append(shown, m), m, FALSE) /\ dropped' = dropped \ cs
        /\ \A c \in Card : ~Going(c)
    BY <1>0, <1>1, <1>2, <1>9 DEF Say, CallInv, Going, Flight, YesIn
  <2>2. shown \in Seq(AMessage) /\ Page = shown
    BY <1>0 DEF MessagesInv, Page
  <2>3. PICK base \in Seq(AMessage) : base = Append(shown, m) /\ Msgs(base) = P \cup {m}
    BY <1>1, <2>2, MsgsAppend DEF P
  <2>4. /\ shown' \in Seq(AMessage) /\ shown' # None /\ Page' = shown' /\ P' = P \cup {m, Waiting}
        /\ shown' # <<>> /\ shown'[Len(shown')] = Waiting
        /\ call' \in ACall /\ call' # None /\ call'.msg = m /\ call'.todo = {}
        /\ call'.stage = "sent" /\ Flight' = {m}
    BY <1>1, <2>1, <2>3, Streamed
  <2>5. Fair(Waiting)' /\ DOMAIN Waiting.as = {} /\ Waiting.verb = "waiting"
    BY PlainMessages DEF Waiting
  <2>6. MessagesInv'
    BY <1>0, <1>1, <1>2, <1>3, <1>4, <2>4, <2>5 DEF MessagesInv
  <2>7. running' = TRUE
    BY <2>1 DEF Stream
  <2>8. CallInv'
    BY <1>1, <2>4, <2>7 DEF CallInv
  <2>9. ASSUME NEW c \in Card PROVE CardInv(c)'
    <3>1. /\ YesIn(T \cup P, c)' => YesIn(T \cup P, c) \/ (verb = "yes" /\ c \in cs)
          /\ AddedIn(T \cup P, c)' => AddedIn(T \cup P, c)
          /\ Going(c)' <=> verb = "yes" /\ c \in cs
      BY <1>1, <1>3, <2>4, <2>5 DEF YesIn, AddedIn, Going
    <3>2. book' = book /\ retried' = retried /\ broken' = broken
      BY <1>2
    <3>3. CASE c \in cs
      <4>1. answered'[c] = verb /\ said'[c] = verb
        BY <1>5, <3>3
      <4>2. YesIn(T \cup P, c) => (book[c] > 0 \/ c \in broken)
        BY <1>0, <2>1 DEF CardInv
      <4>3. ~Excused(c)' => \A n \in T \cup P : c \in DOMAIN n.as => n.verb \notin {"yes", "no", "add"}
        BY <1>6, <3>3 DEF ToldIn, AddedIn
      <4>4. ~Excused(c)' => \A n \in (T \cup P)' : c \in DOMAIN n.as =>
              n = m \/ n.verb \notin {"yes", "no", "add"}
        BY <1>3, <2>4, <2>5, <4>3
      <4>5. book[c] > 0 => YesIn(T, c)'
        BY <1>0, <1>3 DEF CardInv
      <4>6. (Going(c) /\ ~Excused(c) /\ c \notin retried)' => book'[c] = 0
        BY <1>6, <3>2, <3>3
      <4>7. book'[c] <= 1 \/ Excused(c)' \/ c \in retried'
        BY <1>0, <1>3, <3>2 DEF CardInv
      <4>8. ((answered[c] = "yes" /\ c \notin dropped) \/ YesIn(T \cup P, c))'
              => (book[c] > 0 \/ c \in broken \/ Going(c))'
        BY <3>1, <3>2, <3>3, <4>1, <4>2
      <4>9. AddedIn(T \cup P, c)' => book'[c] > 0
        BY <1>0, <3>1, <3>2 DEF CardInv
      <4>10. ~Excused(c)' => \A n \in (T \cup P)' : c \in DOMAIN n.as =>
               /\ n.verb \in {"yes", "no"} => n.verb = said'[c]
               /\ n.verb = "add" => said'[c] = "yes"
        BY <1>1, <4>1, <4>4
      <4> QED BY <1>5, <3>2, <4>1, <4>5, <4>6, <4>7, <4>8, <4>9, <4>10 DEF CardInv
    <3>4. CASE c \notin cs
      <4>1. answered'[c] = answered[c] /\ said'[c] = said[c] /\ (c \in dropped' <=> c \in dropped)
        BY <1>5, <2>1, <3>4
      <4>2. \A n \in (T \cup P)' : n.verb \in {"yes", "no", "add"} /\ c \in DOMAIN n.as => n \in T \cup P
        BY <1>1, <1>3, <2>4, <2>5, <3>4
      <4>3. Visible(c)' => Visible(c)
        <5>1. \A n \in P' : Proposes(n, c) => n \in P
          BY <1>1, <2>4, <2>5, <3>4 DEF Proposes
        <5> QED BY <5>1, SeenOnPage
      <4>4. ToldIn(T \cup Flight, c)' => ToldIn(T, c)
        BY <1>1, <1>3, <2>4, <3>4 DEF ToldIn
      <4>5. ToldIn(T, c) => ToldIn(T \cup Flight, c)
        BY DEF ToldIn
      <4>6. ToldIn(P, c) => ToldIn(P, c)'
        BY <2>4 DEF ToldIn
      <4>7. (Visible(c) /\ ToldIn(T \cup Flight, c) /\ ~Excused(c))' => (answered[c]' # None \/ ToldIn(P, c)')
        BY <1>0, <1>3, <4>1, <4>3, <4>4, <4>5, <4>6 DEF CardInv
      <4> QED BY <1>0, <1>3, <2>1, <3>1, <3>2, <3>4, <4>1, <4>2, <4>7, CardKept DEF YesIn
    <3> QED BY <3>3, <3>4
  <2> QED BY <1>7, <2>6, <2>8, <2>9 DEF IInv
<1> QED BY <1>8, <1>9

\* A stream that starts with a question, or again with a message of the page:
\* the answers it takes off the page are recorded.
LEMMA StreamKeeps ==
  ASSUME IInv, call = None, NEW base \in Seq(AMessage), NEW m \in Msgs(base), NEW r \in BOOLEAN,
         Stream(base, m, r), Msgs(base) \subseteq P \cup {m}, Fair(m), ByUser(m),
         DOMAIN m.as = {} \/ (r /\ m \in P),
         \A n \in P : n \in Msgs(base) \/ (ByUser(n) => DOMAIN n.as \subseteq rewound'),
         rewound \subseteq rewound', rewound' \subseteq Card,
         typed' \in [Card -> Name \cup {None}], \A c \in Card : typed'[c] \in {NameOf[c], Other, None},
         UNCHANGED <<thread, answered, book, said, agreed, dropped, broken, reworded, retried, faults>>
  PROVE  IInv'
<1>0. MessagesInv /\ CallInv /\ StateInv /\ \A c \in Card : CardInv(c)
  BY DEF IInv
<1>1. m \in AMessage
  BY DEF Fair
<1>2. /\ shown' \in Seq(AMessage) /\ shown' # None /\ Page' = shown' /\ P' = Msgs(base) \cup {Waiting}
      /\ shown' # <<>> /\ shown'[Len(shown')] = Waiting
      /\ call' \in ACall /\ call' # None /\ call'.msg = m /\ call'.todo = {}
      /\ call'.stage = "sent" /\ Flight' = IF r THEN {} ELSE {m}
  BY <1>1, Streamed
<1>3. Fair(Waiting)' /\ DOMAIN Waiting.as = {} /\ Waiting.verb = "waiting"
  BY PlainMessages DEF Waiting
<1>4. T' = T /\ \A n : Fair(n) => Fair(n)'
  BY FairKept DEF T
<1>5. MessagesInv'
  BY <1>0, <1>2, <1>3, <1>4 DEF MessagesInv
<1>6. CallInv'
  <2>1. running' = TRUE
    BY DEF Stream
  <2> QED BY <1>2, <1>4, <2>1 DEF CallInv
<1>7. StateInv'
  <2>1. turns' \in 0 .. MaxTurns
    BY <1>0, ChatAssumption DEF Stream, StateInv
  <2> QED BY <1>0, <2>1 DEF StateInv
<1>8. ASSUME NEW c \in Card PROVE CardInv(c)'
  <2>1. Excused(c) => Excused(c)'
    BY DEF Excused
  <2>2. \A n \in (T \cup P)' : c \in DOMAIN n.as => n \in T \cup P
    BY <1>2, <1>3, <1>4
  <2>3. ~Going(c) /\ ~Going(c)'
    BY <1>2 DEF Going, Flight, YesIn
  <2>4. Visible(c)' => Visible(c)
    BY <2>2, SeenOnPage, <1>2, <1>3 DEF Proposes
  <2>5. ToldIn(T \cup Flight, c)' => ToldIn(T \cup Flight, c)
    BY <1>2, <1>4 DEF ToldIn
  <2>6. ToldIn(P, c) => ToldIn(P, c)' \/ Excused(c)'
    BY <1>2 DEF ToldIn, Excused, ByUser
  <2>7. (Visible(c) /\ ToldIn(T \cup Flight, c) /\ ~Excused(c))' => (answered[c]' # None \/ ToldIn(P, c)')
    BY <1>0, <2>1, <2>4, <2>5, <2>6 DEF CardInv
  <2>8. YesIn(T, c) => YesIn(T, c)'
    BY <1>4
  <2> QED BY <1>0, <2>1, <2>2, <2>3, <2>7, <2>8, CardKept
<1> QED BY <1>5, <1>6, <1>7, <1>8 DEF IInv

\* What is still typed in the cards.
LEMMA TypedKept ==
  ASSUME StateInv, NEW ms, typed' = StillTyped(ms) \/ typed' = [c \in Card |-> Draft(c)]
  PROVE  typed' \in [Card -> Name \cup {None}] /\ \A c \in Card : typed'[c] \in {NameOf[c], Other, None}
  BY ChatAssumption DEF StillTyped, Draft, StateInv

LEMMA AskKeeps == ASSUME IInv, Ask PROVE IInv'
<1>0. MessagesInv /\ CallInv /\ StateInv
  BY DEF IInv
<1>1. PICK m : m = Message("ask", NoCards)
  OBVIOUS
<1>2. m \in AMessage /\ Fair(m) /\ m.verb = "ask" /\ DOMAIN m.as = {} /\ ByUser(m)
  BY <1>1, PlainMessages DEF ByUser
<1>3. /\ Stream(Append(shown, m), m, FALSE) /\ dropped' = dropped \ {}
      /\ UNCHANGED <<thread, answered, typed, book, said, agreed, broken, reworded, retried, rewound, faults>>
  BY <1>1, <1>2 DEF Ask, Say
<1>4. shown \in Seq(AMessage) /\ Page = shown /\ call = None
  BY <1>0 DEF Ask, MessagesInv, CallInv, Page
<1>5. PICK base \in Seq(AMessage) : base = Append(shown, m) /\ Msgs(base) = P \cup {m}
  BY <1>2, <1>4, MsgsAppend DEF P
<1>6. dropped' = dropped
  BY <1>3
<1> QED BY <1>0, <1>2, <1>3, <1>4, <1>5, <1>6, StreamKeeps DEF StateInv

LEMMA RetryKeeps == ASSUME IInv, NEW i, Retry(i) PROVE IInv'
<1>0. MessagesInv /\ CallInv /\ StateInv
  BY DEF IInv
<1>1. /\ shown # None /\ i \in DOMAIN shown /\ ByUser(shown[i]) /\ ~running
      /\ Stream(SubSeq(shown, 1, i), shown[i], TRUE) /\ typed' = StillTyped(SubSeq(shown, 1, i))
      /\ rewound' = rewound \cup
           UNION {DOMAIN shown[j].as : j \in {k \in DOMAIN shown : k > i /\ ByUser(shown[k])}}
      /\ UNCHANGED <<thread, answered, book, said, agreed, dropped, broken, reworded, retried, faults>>
  BY DEF Retry
<1>2. /\ shown \in Seq(AMessage) /\ Page = shown /\ call = None /\ P = {shown[j] : j \in DOMAIN shown}
      /\ DOMAIN shown = 1 .. Len(shown) /\ Len(shown) \in Nat
  BY <1>0, <1>1, LenProperties DEF MessagesInv, CallInv, Page, P, Msgs
<1>2a. i \in Nat /\ i \in 0 .. Len(shown) /\ i \in 1 .. i /\ 1 .. i \subseteq DOMAIN shown
  BY <1>1, <1>2
<1>3. PICK m : m = shown[i]
  OBVIOUS
<1>4. PICK base \in Seq(AMessage) : base = SubSeq(shown, 1, i) /\ Msgs(base) = {shown[j] : j \in 1 .. i}
  <2>1. \E b \in Seq(AMessage) : b = SubSeq(shown, 1, i) /\ Msgs(b) = {shown[j] : j \in 1 .. i}
    BY <1>2, <1>2a, MsgsSubSeq
  <2> QED BY <2>1
<1>5. m \in Msgs(base) /\ m \in P /\ Msgs(base) \subseteq P /\ Fair(m) /\ ByUser(m)
  <2>1. m \in Msgs(base) /\ m \in P /\ ByUser(m)
    BY <1>1, <1>2, <1>3, <1>4, <1>2a
  <2>2. Msgs(base) \subseteq P
    BY <1>2, <1>4, <1>2a
  <2> QED BY <1>0, <2>1, <2>2 DEF MessagesInv
<1>6. \A n \in P : n \in Msgs(base) \/ (ByUser(n) => DOMAIN n.as \subseteq rewound')
  <2> SUFFICES ASSUME NEW j \in DOMAIN shown, ByUser(shown[j]), shown[j] \notin Msgs(base)
               PROVE  DOMAIN shown[j].as \subseteq rewound'
    BY <1>2
  <2>1. j > i
    BY <1>1, <1>2, <1>4
  <2> QED BY <1>1, <2>1
<1>7. rewound \subseteq rewound' /\ rewound' \subseteq Card
  <2>1. \A n \in P : DOMAIN n.as \subseteq Card
    BY <1>0 DEF MessagesInv, Fair, AMessage
  <2> QED BY <1>0, <1>1, <1>2, <2>1 DEF StateInv
<1>8. typed' \in [Card -> Name \cup {None}] /\ \A c \in Card : typed'[c] \in {NameOf[c], Other, None}
  BY <1>0, <1>1, TypedKept
<1> QED BY <1>1, <1>2, <1>3, <1>4, <1>5, <1>6, <1>7, <1>8, StreamKeeps

LEMMA AnswersKeep ==
  ASSUME IInv, \/ \E c \in Card : Confirm(c) \/ Reject(c)
               \/ \E i \in 1 .. 3 * MaxTurns : AcceptAll(i)
  PROVE  IInv'
<1>0. MessagesInv /\ StateInv
  BY DEF IInv
<1>1. ASSUME NEW c \in Card, Confirm(c) \/ Reject(c) PROVE IInv'
  <2>1. /\ Visible(c) /\ Response(c) = None /\ shown # None
        /\ Answer("no", {c}) \/ (Answer("yes", {c}) /\ typed[c] # None)
    BY <1>1 DEF Confirm, Reject, Pending, Visible
  <2> QED BY <2>1, AnswerKeeps
<1>2. ASSUME NEW i, AcceptAll(i) PROVE IInv'
  <2> DEFINE cs == ToAccept(i)
  <2>1. /\ shown # None /\ i \in DOMAIN shown /\ shown[i].verb = "propose"
        /\ \A c \in DOMAIN shown[i].as : Pending(c) => typed[c] # None
        /\ answered' = [c \in Card |-> IF c \in cs THEN "yes" ELSE answered[c]]
        /\ said' = [c \in Card |-> IF Pending(c) /\ c \in cs THEN "yes" ELSE said[c]]
        /\ agreed' = agreed \cup {c \in cs : Pending(c)}
        /\ reworded' = reworded \cup {c \in cs : typed[c] # NameOf[c]}
        /\ Say(Message("yes", [c \in cs |-> typed[c]]))
        /\ UNCHANGED <<thread, typed, book, broken, retried, rewound, faults>>
    BY <1>2 DEF AcceptAll
  <2>2. \A c \in cs : c \in DOMAIN shown[i].as /\ Response(c) = None
    BY DEF ToAccept
  <2>3. \A c \in cs : Visible(c) /\ Pending(c)
    BY <2>1, <2>2 DEF Visible, Pending, Proposes
  <2>4. cs \subseteq Card
    <3>1. shown[i] \in P
      BY <2>1 DEF P, Page, Msgs
    <3> QED BY <1>0, <2>2, <3>1 DEF MessagesInv, Fair, AMessage
  <2> HIDE DEF cs
  <2>5. /\ said' = [c \in Card |-> IF c \in cs THEN "yes" ELSE said[c]]
        /\ agreed' = agreed \cup cs
    BY <2>1, <2>3
  <2>6. Answer("yes", cs) /\ \A c \in cs : typed[c] # None
    BY <2>1, <2>2, <2>3, <2>5 DEF Answer
  <2> QED BY <2>1, <2>2, <2>3, <2>4, <2>6, AnswerKeeps
<1> QED BY <1>1, <1>2

LEMMA EditKeeps == ASSUME IInv, NEW c \in Card, NEW v \in {NameOf[c], Other, None}, EditCard(c, v) PROVE IInv'
<1>0. MessagesInv /\ CallInv /\ StateInv /\ \A d \in Card : CardInv(d)
  BY DEF IInv
<1>1. /\ typed' = [typed EXCEPT ![c] = v]
      /\ UNCHANGED <<thread, shown, running, answered, call, book, history, spent>>
  BY DEF EditCard
<1>2. StateInv'
  BY <1>0, <1>1, ChatAssumption DEF StateInv, history, spent
<1>3. T' = T /\ P' = P /\ Page' = Page /\ Flight' = Flight /\ UNCHANGED <<agreed, reworded>>
  BY <1>1 DEF T, P, Page, Flight, history
<1>4. MessagesInv' /\ CallInv'
  BY <1>0, <1>1, <1>3 DEF MessagesInv, CallInv, Fair
<1>5. ASSUME NEW d \in Card PROVE CardInv(d)'
  BY <1>0, <1>1, <1>3 DEF CardInv, Going, Excused, Visible, history
<1> QED BY <1>2, <1>4, <1>5 DEF IInv

\* The page is left: what it showed goes, and a turn that was cut is recorded.
LEMMA LeaveKeeps == ASSUME IInv, Reload \/ Return PROVE IInv'
<1>0. MessagesInv /\ CallInv /\ StateInv /\ \A c \in Card : CardInv(c)
  BY DEF IInv
<1>1. /\ shown' = None /\ running' = FALSE /\ call' = None /\ typed' = [c \in Card |-> Draft(c)]
      /\ \A c \in Card : answered'[c] \in {answered[c], None}
      /\ answered' \in [Card -> {None, "yes", "no"}]
      /\ broken \subseteq broken' /\ broken' \subseteq Card
      /\ \A c \in Card : Going(c) => c \in broken'
      /\ UNCHANGED <<thread, book, said, agreed, dropped, reworded, retried, rewound, spent>>
  <2>1. CASE Reload
    <3>1. call # None => DOMAIN call.msg.as \subseteq Card /\ broken' = broken \cup DOMAIN call.msg.as
      BY <1>0, <2>1 DEF Reload, CallInv, Fair, AMessage
    <3>2. \A c \in Card : Going(c) => call # None /\ c \in DOMAIN call.msg.as
      BY <1>0 DEF CallInv, Going, YesIn, Flight
    <3>3. call = None => broken' = broken
      BY <2>1 DEF Reload
    <3>4. broken \subseteq broken' /\ broken' \subseteq Card
      BY <1>0, <3>1, <3>3 DEF StateInv
    <3> QED BY <2>1, <3>1, <3>2, <3>4 DEF Reload
  <2>2. CASE Return
    <3>1. call = None /\ running = FALSE /\ \A c \in Card : ~Going(c)
      BY <1>0, <2>2 DEF Return, CallInv, Going, YesIn, Flight
    <3>2. UNCHANGED <<running, answered, broken, thread, book, said, agreed, dropped, reworded, retried, rewound, spent>>
      BY <2>2 DEF Return, history
    <3> QED BY <1>0, <2>2, <3>1, <3>2 DEF Return, StateInv
  <2> QED BY <2>1, <2>2
<1>2. Page' = <<>> /\ P' = {} /\ T' = T /\ Flight' = {}
  BY <1>1 DEF Page, P, T, Flight, Msgs
<1>3. MessagesInv' /\ CallInv'
  <2>1. \A m : Fair(m) => Fair(m)'
    BY <1>1, FairKept
  <2>2. <<>> \in Seq(AMessage)
    BY EmptySeq
  <2>3. MessagesInv'
    BY <1>0, <1>1, <1>2, <2>1, <2>2 DEF MessagesInv
  <2> QED BY <1>1, <2>3 DEF CallInv
<1>4. StateInv'
  <2>1. typed' \in [Card -> Name \cup {None}] /\ \A c \in Card : typed'[c] \in {NameOf[c], Other, None}
    BY <1>0, <1>1, TypedKept
  <2> QED BY <1>0, <1>1, <2>1 DEF StateInv, spent
<1>5. ASSUME NEW c \in Card PROVE CardInv(c)'
  <2>1. ~Visible(c)' /\ ~Going(c)' /\ (Excused(c) <=> Excused(c)')
    BY <1>1, <1>2 DEF Visible, Going, YesIn, Excused
  <2>2. YesIn(T, c) => YesIn(T, c)'
    BY <1>2
  <2> QED BY <1>0, <1>1, <1>2, <2>1, <2>2, CardKept
<1> QED BY <1>3, <1>4, <1>5 DEF IInv

-----------------------------------------------------------------------------
(* The server *)

\* What the server reads of a call that arrives.
LEMMA Received ==
  ASSUME IInv, Receive
  PROVE  \E msg \in P \cup T :
           /\ ByUser(msg)
           /\ thread' \in Seq(AMessage) /\ T' \subseteq T \cup {msg} /\ msg \in T'
           /\ \A m \in T : ByUser(m) => m \in T'
           /\ IF call.retry THEN retried' = retried \cup DOMAIN msg.as /\ Flight = {}
                            ELSE retried' = retried /\ Flight = {msg}
           /\ call' \in ACall /\ call' # None /\ call'.msg = msg /\ call'.stage = "turn"
           /\ call'.todo = IF msg.verb = "yes" THEN DOMAIN msg.as ELSE {}
<1> DEFINE k == LastUser(thread)
           msg == IF call.retry THEN thread[k] ELSE call.msg
<1>0. MessagesInv /\ CallInv
  BY DEF IInv
<1>1. /\ call # None /\ call \in ACall /\ call.stage = "sent" /\ (call.retry => k > 0)
      /\ thread' = IF call.retry THEN SubSeq(thread, 1, k) ELSE Append(thread, msg)
      /\ call' = [call EXCEPT !.stage = "turn", !.msg = msg,
                              !.todo = IF msg.verb = "yes" THEN DOMAIN msg.as ELSE {}]
      /\ retried' = IF call.retry THEN retried \cup DOMAIN msg.as ELSE retried
  BY <1>0 DEF Receive, CallInv
<1>2. thread \in Seq(AMessage) /\ Len(thread) \in Nat /\ DOMAIN thread = 1 .. Len(thread)
  BY <1>0, LenProperties DEF MessagesInv
<1>3. /\ msg \in P \cup T /\ ByUser(msg) /\ thread' \in Seq(AMessage)
      /\ T' \subseteq T \cup {msg} /\ msg \in T' /\ \A m \in T : ByUser(m) => m \in T'
  <2>1. CASE call.retry
    <3>1. /\ k \in 0 .. Len(thread) /\ k > 0 /\ ByUser(thread[k])
          /\ \A i \in DOMAIN thread : ByUser(thread[i]) => i <= k
      BY <1>1, <1>2, <2>1, LastUserFound
    <3> HIDE DEF k
    <3>2. thread' \in Seq(AMessage) /\ T' = {thread[i] : i \in 1 .. k}
      BY <1>1, <1>2, <2>1, <3>1, MsgsSubSeq DEF T
    <3>3. k \in Nat /\ k \in 1 .. k /\ 1 .. k \subseteq DOMAIN thread
      BY <1>2, <3>1
    <3>4. T' \subseteq T /\ thread[k] \in T'
      BY <3>2, <3>3 DEF T, Msgs
    <3>5. \A m \in T : ByUser(m) => m \in T'
      <4> SUFFICES ASSUME NEW i \in DOMAIN thread, ByUser(thread[i]) PROVE thread[i] \in T'
        BY DEF T, Msgs
      <4>1. i \in 1 .. k
        BY <1>2, <3>1
      <4> QED BY <3>2, <4>1
    <3> QED BY <2>1, <3>1, <3>2, <3>4, <3>5
  <2>2. CASE ~call.retry
    <3>1. call.msg \in P /\ ByUser(call.msg) /\ call.msg \in AMessage
      BY <1>0, <1>1 DEF CallInv, Fair
    <3>2. thread' \in Seq(AMessage) /\ T' = T \cup {call.msg}
      BY <1>1, <1>2, <2>2, <3>1, MsgsAppend DEF T
    <3> QED BY <2>2, <3>1, <3>2
  <2> QED BY <2>1, <2>2
<1>4. msg \in AMessage
  BY <1>0, <1>3 DEF MessagesInv, Fair
<1> HIDE DEF msg
<1>5. /\ call' \in ACall /\ call'.msg = msg /\ call'.stage = "turn"
      /\ call'.todo = IF msg.verb = "yes" THEN DOMAIN msg.as ELSE {}
  BY <1>1, <1>4 DEF ACall, AMessage
<1>6. call' # None
  BY <1>5, ChatAssumption
<1>7. Flight = IF call.retry THEN {} ELSE {msg}
  BY <1>1 DEF Flight, msg
<1> QED BY <1>1, <1>3, <1>5, <1>6, <1>7

LEMMA ReceiveKeeps == ASSUME IInv, Receive PROVE IInv'
<1>0. MessagesInv /\ CallInv /\ StateInv /\ \A c \in Card : CardInv(c)
  BY DEF IInv
<1>1. PICK msg \in P \cup T :
           /\ ByUser(msg)
           /\ thread' \in Seq(AMessage) /\ T' \subseteq T \cup {msg} /\ msg \in T'
           /\ \A m \in T : ByUser(m) => m \in T'
           /\ IF call.retry THEN retried' = retried \cup DOMAIN msg.as /\ Flight = {}
                            ELSE retried' = retried /\ Flight = {msg}
           /\ call' \in ACall /\ call' # None /\ call'.msg = msg /\ call'.stage = "turn"
           /\ call'.todo = IF msg.verb = "yes" THEN DOMAIN msg.as ELSE {}
  BY Received
<1>2. /\ UNCHANGED <<shown, running, answered, typed, book, said, agreed, dropped, broken, reworded, rewound, turns, faults>>
      /\ call # None /\ call.todo = {} /\ running = TRUE
  BY <1>0 DEF Receive, CallInv, page, spent
<1>3. Page' = Page /\ P' = P /\ Flight' = {}
  BY <1>1, <1>2 DEF Page, P, Flight
<1>4. Fair(msg) /\ DOMAIN msg.as \subseteq Card /\ \A m : Fair(m) => Fair(m)'
  <2>1. Fair(msg)
    BY <1>0 DEF MessagesInv
  <2> QED BY <1>2, <2>1, FairKept DEF Fair, AMessage
<1>5. MessagesInv'
  BY <1>0, <1>1, <1>2, <1>3, <1>4 DEF MessagesInv
<1>6. CallInv'
  BY <1>0, <1>1, <1>2, <1>4 DEF CallInv
<1>7. StateInv'
  BY <1>0, <1>1, <1>2, <1>4 DEF StateInv
<1>8. ASSUME NEW c \in Card PROVE CardInv(c)'
  <2>1. /\ Visible(c)' <=> Visible(c)
        /\ Excused(c)' <=> Excused(c)
    BY <1>2 DEF Visible, Excused
  <2>2. \A m \in (T \cup P)' : m \in T \cup P
    BY <1>1, <1>3
  <2>3. YesIn(T, c) => YesIn(T, c)'
    BY <1>1 DEF YesIn, ByUser
  <2>4. Going(c)' <=> msg.verb = "yes" /\ c \in DOMAIN msg.as
    BY <1>1, <1>3 DEF Going, YesIn
  <2>5. Going(c) => ~call.retry /\ Going(c)'
    BY <1>1, <1>2, <2>4 DEF Going, YesIn
  <2>6. Going(c)' => Going(c) \/ c \in retried'
    BY <1>1, <2>4 DEF Going, YesIn
  <2>7. ToldIn(T \cup Flight, c)' => ToldIn(T \cup Flight, c) \/ ToldIn(P, c)
    BY <1>1, <1>3 DEF ToldIn
  <2>8. (Visible(c) /\ ToldIn(T \cup Flight, c) /\ ~Excused(c))' => (answered[c]' # None \/ ToldIn(P, c)')
    BY <1>0, <1>2, <1>3, <2>1, <2>7 DEF CardInv
  <2>9. c \in retried => c \in retried'
    BY <1>1
  <2> QED BY <1>0, <1>2, <2>1, <2>2, <2>3, <2>5, <2>6, <2>8, <2>9, CardKept
<1> QED BY <1>5, <1>6, <1>7, <1>8 DEF IInv

LEMMA AddKeeps == ASSUME IInv, NEW a \in Card, AddProduct(a) PROVE IInv'
<1>0. MessagesInv /\ CallInv /\ StateInv /\ \A c \in Card : CardInv(c)
  BY DEF IInv
<1>1. /\ call # None /\ a \in call.todo /\ book' = [book EXCEPT ![a] = @ + 1]
      /\ thread' = Append(thread, Message("add", [d \in {a} |-> call.msg.as[d]]))
      /\ call' = [call EXCEPT !.todo = @ \ {a}]
      /\ UNCHANGED <<shown, running, answered, typed, said, agreed, dropped, broken, reworded,
                     retried, rewound, turns, faults>>
  BY DEF AddProduct, page, history, spent
<1>2. /\ call \in ACall /\ Fair(call.msg) /\ call.stage # "sent" /\ call.msg \in T
      /\ call.msg.verb = "yes" /\ call.todo \subseteq DOMAIN call.msg.as
  BY <1>0, <1>1 DEF CallInv
<1>3. PICK m : m = Message("add", [d \in {a} |-> call.msg.as[d]])
  OBVIOUS
<1>4. /\ m \in AMessage /\ Fair(m) /\ m.verb = "add" /\ DOMAIN m.as = {a}
  <2>1. a \in DOMAIN call.msg.as /\ call.msg.as[a] \in Name /\ "add" \in Verbs
    BY <1>1, <1>2 DEF Fair, Named, Verbs
  <2>2. [d \in {a} |-> call.msg.as[d]] \in [{a} -> Name \cup {None}]
    BY <2>1
  <2>3. /\ m \in AMessage /\ m.verb = "add" /\ m.as = [d \in {a} |-> call.msg.as[d]] /\ DOMAIN m.as = {a}
    BY <1>3, <2>1, <2>2, MessageTyped
  <2>4. m.as[a] = call.msg.as[a]
    BY <2>3
  <2> QED BY <1>2, <2>1, <2>3, <2>4 DEF Fair, Named
<1>5. thread' \in Seq(AMessage) /\ T' = T \cup {m} /\ Page' = Page /\ P' = P
  BY <1>0, <1>1, <1>3, <1>4, MsgsAppend DEF MessagesInv, T, Page, P
<1>6. /\ call' \in ACall /\ call'.msg = call.msg /\ call'.stage = call.stage /\ call'.todo = call.todo \ {a}
  BY <1>1, <1>2 DEF ACall
<1>7. call' # None /\ Flight = {} /\ Flight' = {}
  BY <1>2, <1>6, ChatAssumption DEF Flight
<1>8. \A n : Fair(n) => Fair(n)'
  BY <1>1, FairKept
<1>9. MessagesInv' /\ CallInv'
  BY <1>0, <1>1, <1>2, <1>4, <1>5, <1>6, <1>7, <1>8 DEF MessagesInv, CallInv
<1>10. StateInv'
  BY <1>0, <1>1 DEF StateInv
<1>11. ASSUME NEW c \in Card PROVE CardInv(c)'
  <2>1. /\ Visible(c)' <=> Visible(c)
        /\ Excused(c)' <=> Excused(c)
        /\ Going(c) <=> c \in call.todo
        /\ Going(c)' <=> c \in call.todo /\ c # a
    BY <1>1, <1>6, <1>7 DEF Visible, Excused, Going, YesIn
  <2>2. /\ YesIn(T, c) <=> YesIn(T, c)'
        /\ ToldIn(T \cup Flight, c)' => ToldIn(T \cup Flight, c)
    BY <1>4, <1>5, <1>7 DEF YesIn, ToldIn
  <2>3. (Visible(c) /\ ToldIn(T \cup Flight, c) /\ ~Excused(c))' => (answered[c]' # None \/ ToldIn(P, c)')
    BY <1>0, <1>1, <1>5, <2>1, <2>2 DEF CardInv
  <2>4. CASE c # a
    <3>1. book'[c] = book[c]
      BY <1>0, <1>1, <2>4 DEF StateInv
    <3>2. \A n \in (T \cup P)' : c \in DOMAIN n.as => n \in T \cup P
      BY <1>4, <1>5, <2>4
    <3> QED BY <1>0, <1>1, <2>1, <2>2, <2>3, <2>4, <3>1, <3>2, CardKept
  <2>5. CASE c = a
    <3>1. book'[c] = book[c] + 1 /\ book[c] \in Nat /\ book'[c] > 0 /\ Going(c) /\ ~Going(c)'
      BY <1>0, <1>1, <2>1, <2>5 DEF StateInv
    <3>2. YesIn(T, c)
      BY <1>1, <1>2, <2>5 DEF YesIn
    <3>3. book'[c] <= 1 \/ Excused(c)' \/ c \in retried'
      BY <1>0, <1>1, <2>1, <3>1 DEF CardInv
    <3>4. ~Excused(c)' =>
             \A n \in (T \cup P)' : c \in DOMAIN n.as =>
               /\ n.verb \in {"yes", "no"} => n.verb = said'[c]
               /\ n.verb = "add" => said'[c] = "yes"
      <4>1. ~Excused(c)' => said[c] = "yes"
        BY <1>0, <1>1, <1>2, <2>1, <2>5 DEF CardInv
      <4> QED BY <1>0, <1>1, <1>4, <1>5, <2>1, <4>1 DEF CardInv
    <3>5. answered'[c] # None => answered'[c] = said'[c]
      BY <1>0, <1>1 DEF CardInv
    <3> QED BY <2>2, <2>3, <3>1, <3>2, <3>3, <3>4, <3>5 DEF CardInv
  <2> QED BY <2>4, <2>5
<1> QED BY <1>9, <1>10, <1>11 DEF IInv

LEMMA ProposeKeeps == ASSUME IInv, NEW cs \in SUBSET Card, Propose(cs) PROVE IInv'
<1>0. MessagesInv /\ CallInv /\ StateInv /\ \A c \in Card : CardInv(c)
  BY DEF IInv
<1>1. /\ call # None /\ call.stage = "turn"
      /\ thread' = Append(thread, Message("propose", [c \in cs |-> NameOf[c]]))
      /\ call' = [call EXCEPT !.stage = "spoken"]
      /\ UNCHANGED <<shown, running, answered, typed, book, said, agreed, dropped, broken, reworded,
                     retried, rewound, turns, faults>>
  BY DEF Propose, page, history, spent
<1>2. call \in ACall /\ call.msg \in T
  BY <1>0, <1>1 DEF CallInv
<1>3. PICK m : m = Message("propose", [c \in cs |-> NameOf[c]])
  OBVIOUS
<1>4. m \in AMessage /\ Fair(m) /\ m.verb = "propose"
  <2>1. [c \in cs |-> NameOf[c]] \in [cs -> Name \cup {None}] /\ "propose" \in Verbs
    BY ChatAssumption DEF Verbs
  <2>2. /\ m \in AMessage /\ m.verb = "propose" /\ m.as = [c \in cs |-> NameOf[c]] /\ DOMAIN m.as = cs
    BY <1>3, <2>1, MessageTyped
  <2>3. \A c \in cs : m.as[c] = NameOf[c] /\ NameOf[c] \in Name
    BY <2>2, ChatAssumption
  <2> QED BY <2>2, <2>3 DEF Fair, Named
<1>5. thread' \in Seq(AMessage) /\ T' = T \cup {m} /\ Page' = Page /\ P' = P
  BY <1>0, <1>1, <1>3, <1>4, MsgsAppend DEF MessagesInv, T, Page, P
<1>6. call' \in ACall /\ call'.msg = call.msg /\ call'.stage = "spoken" /\ call'.todo = call.todo
  BY <1>1, <1>2 DEF ACall
<1>7. call' # None /\ Flight = {} /\ Flight' = {}
  BY <1>1, <1>6, ChatAssumption DEF Flight
<1>8. \A n : Fair(n) => Fair(n)'
  BY <1>1, FairKept
<1>9. MessagesInv' /\ CallInv'
  BY <1>0, <1>1, <1>2, <1>4, <1>5, <1>6, <1>7, <1>8 DEF MessagesInv, CallInv
<1>10. StateInv'
  BY <1>0, <1>1 DEF StateInv
<1>11. ASSUME NEW c \in Card PROVE CardInv(c)'
  <2>1. /\ Visible(c)' <=> Visible(c)
        /\ Excused(c)' <=> Excused(c)
        /\ Going(c)' <=> Going(c)
    BY <1>1, <1>6, <1>7 DEF Visible, Excused, Going, YesIn
  <2>2. /\ YesIn(T, c) => YesIn(T, c)'
        /\ ToldIn(T \cup Flight, c)' => ToldIn(T \cup Flight, c)
    BY <1>4, <1>5, <1>7 DEF YesIn, ToldIn
  <2>3. (Visible(c) /\ ToldIn(T \cup Flight, c) /\ ~Excused(c))' => (answered[c]' # None \/ ToldIn(P, c)')
    BY <1>0, <1>1, <1>5, <2>1, <2>2 DEF CardInv
  <2>4. \A n \in (T \cup P)' : n.verb \in {"yes", "no", "add"} => n \in T \cup P
    BY <1>4, <1>5
  <2> QED BY <1>0, <1>1, <2>1, <2>2, <2>3, <2>4, CardKept
<1> QED BY <1>9, <1>10, <1>11 DEF IInv

\* The page takes what the server keeps, or nothing, once no turn is under way.
LEMMA ShowKeeps ==
  ASSUME IInv, shown' \in {thread, <<>>}, call' = None, running' = FALSE, \A c \in Card : ~Going(c),
         faults' \in 0 .. MaxFaults,
         typed' \in [Card -> Name \cup {None}], \A c \in Card : typed'[c] \in {NameOf[c], Other, None},
         UNCHANGED <<thread, answered, book, history, turns>>
  PROVE  IInv'
<1>0. MessagesInv /\ CallInv /\ StateInv /\ \A c \in Card : CardInv(c)
  BY DEF IInv
<1>1. <<>> \in Seq(AMessage) /\ shown' \in Seq(AMessage) /\ shown' # None
  <2>1. <<>> \in Seq(AMessage) /\ thread \in Seq(AMessage)
    BY <1>0, EmptySeq DEF MessagesInv
  <2>2. shown' \in Seq(AMessage)
    BY <2>1
  <2> QED BY <2>1, <2>2, ChatAssumption
<1>2. Page' = shown' /\ T' = T /\ P' \in {T, {}} /\ Flight' = {}
  BY <1>1 DEF Page, P, T, Flight, Msgs
<1>3. UNCHANGED <<said, agreed, dropped, broken, reworded, retried, rewound>>
  BY DEF history
<1>4. \A n : Fair(n) => Fair(n)'
  BY <1>3, FairKept
<1>5. MessagesInv' /\ CallInv'
  BY <1>0, <1>1, <1>2, <1>4 DEF MessagesInv, CallInv
<1>6. StateInv'
  BY <1>0, <1>3 DEF StateInv
<1>7. ASSUME NEW c \in Card PROVE CardInv(c)'
  <2>1. ~Going(c) /\ ~Going(c)' /\ (Excused(c)' <=> Excused(c)) /\ (YesIn(T, c) => YesIn(T, c)')
    BY <1>2, <1>3 DEF Going, YesIn, Excused
  <2>2. (Visible(c) /\ ToldIn(T \cup Flight, c))' => ToldIn(P, c)'
    BY <1>2, SeenOnPage DEF ToldIn
  <2>3. \A n \in (T \cup P)' : n \in T \cup P
    BY <1>2
  <2> QED BY <1>0, <1>3, <2>1, <2>2, <2>3, CardKept
<1> QED BY <1>5, <1>6, <1>7 DEF IInv

LEMMA FinalKeeps == ASSUME IInv, Final \/ (\E ok \in BOOLEAN : History(ok)) PROVE IInv'
<1>0. MessagesInv /\ CallInv /\ StateInv
  BY DEF IInv
<1>1. CASE Final
  <2>1. \A c \in Card : ~Going(c)
    BY <1>1 DEF Final, Going, YesIn, Flight
  <2>2. /\ shown' = thread /\ call' = None /\ running' = FALSE /\ faults' \in 0 .. MaxFaults
        /\ UNCHANGED <<thread, answered, book, history, turns>> /\ typed' = StillTyped(thread)
    BY <1>0, <1>1 DEF Final, StateInv, spent
  <2>3. typed' \in [Card -> Name \cup {None}] /\ \A c \in Card : typed'[c] \in {NameOf[c], Other, None}
    BY <1>0, <2>2, TypedKept
  <2> QED BY <2>1, <2>2, <2>3, ShowKeeps
<1>2. ASSUME NEW ok \in BOOLEAN, History(ok) PROVE IInv'
  <2>1. call = None /\ running = FALSE /\ \A c \in Card : ~Going(c)
    BY <1>0, <1>2 DEF History, CallInv, Going, YesIn, Flight
  <2>2. /\ shown' \in {thread, <<>>} /\ call' = None /\ running' = FALSE /\ faults' \in 0 .. MaxFaults
        /\ UNCHANGED <<thread, answered, book, history, turns, typed>>
    BY <1>0, <1>2, <2>1, ChatAssumption DEF History, StateInv
  <2> QED BY <1>0, <2>1, <2>2, ShowKeeps DEF StateInv
<1> QED BY <1>1, <1>2

\* A turn that breaks, also one that has just added a product.
LEMMA BreakKeeps ==
  ASSUME IInv, call # None, Broken, thread' = thread, faults' \in 0 .. MaxFaults,
         \/ book' = book
         \/ \E a \in call.todo : book' = [book EXCEPT ![a] = @ + 1]
  PROVE  IInv'
<1>0. MessagesInv /\ CallInv /\ StateInv /\ \A c \in Card : CardInv(c)
  BY DEF IInv
<1>1. /\ shown' \in Seq(AMessage) /\ Page' = shown' /\ shown' # None
      /\ P' \subseteq P \cup {Message("error", NoCards)}
      /\ \A m \in P : m = Waiting \/ m \in P'
      /\ call' = None /\ running' = FALSE /\ Flight' = {}
  BY <1>0, BrokenPage
<1>2. /\ broken' = broken \cup DOMAIN call.msg.as
      /\ UNCHANGED <<answered, typed, said, agreed, dropped, reworded, retried, rewound, turns>>
  BY DEF Broken
<1>3. /\ T' = T /\ \A n : Fair(n) => Fair(n)'
  BY <1>2, FairKept DEF T
<1>4. /\ Fair(Message("error", NoCards))' /\ Message("error", NoCards).verb = "error"
      /\ DOMAIN Message("error", NoCards).as = {} /\ DOMAIN Waiting.as = {} /\ Waiting.verb = "waiting"
  BY PlainMessages DEF Waiting
<1>5. MessagesInv' /\ CallInv'
  BY <1>0, <1>1, <1>3, <1>4 DEF MessagesInv, CallInv
<1>6. DOMAIN call.msg.as \subseteq Card
  BY <1>0 DEF CallInv, Fair, AMessage
<1>7. StateInv'
  <2>1. call.todo \subseteq Card
    BY <1>0 DEF CallInv, ACall
  <2>2. book' \in [Card -> Nat]
    BY <1>0, <2>1 DEF StateInv
  <2> QED BY <1>0, <1>2, <1>6, <2>2 DEF StateInv
<1>8. ASSUME NEW c \in Card PROVE CardInv(c)'
  <2>1. ~Going(c)' /\ (Excused(c)' <=> Excused(c)) /\ (YesIn(T, c)' <=> YesIn(T, c))
    BY <1>1, <1>2, <1>3 DEF Going, YesIn, Excused
  <2>2. Going(c) => c \in broken'
    BY <1>0, <1>2 DEF Going, YesIn, Flight, CallInv
  <2>3. \A n \in (T \cup P)' : c \in DOMAIN n.as => n \in T \cup P
    BY <1>1, <1>3, <1>4
  <2>4. Visible(c)' => Visible(c)
    BY <1>1, <1>4, SeenOnPage DEF Proposes
  <2>5. /\ ToldIn(T \cup Flight, c)' => ToldIn(T \cup Flight, c)
        /\ ToldIn(P, c) => ToldIn(P, c)'
    BY <1>1, <1>3, <1>4 DEF ToldIn
  <2>6. (Visible(c) /\ ToldIn(T \cup Flight, c) /\ ~Excused(c))' => (answered[c]' # None \/ ToldIn(P, c)')
    BY <1>0, <1>2, <2>1, <2>4, <2>5 DEF CardInv
  <2>7. CASE book'[c] = book[c]
    BY <1>0, <1>2, <2>1, <2>2, <2>3, <2>6, <2>7, CardKept
  <2>8. CASE book'[c] # book[c]
    <3>1. c \in call.todo /\ book[c] \in Nat /\ book'[c] = book[c] + 1
      BY <1>0, <2>8 DEF StateInv
    <3>2. Going(c) /\ YesIn(T, c)
      BY <1>0, <3>1 DEF Going, YesIn, CallInv
    <3>3. book'[c] <= 1 \/ Excused(c)' \/ c \in retried'
      BY <1>0, <1>2, <2>1, <3>1, <3>2 DEF CardInv
    <3>4. book'[c] > 0
      BY <3>1
    <3> QED BY <1>0, <1>2, <2>1, <2>2, <2>3, <2>6, <3>2, <3>3, <3>4 DEF CardInv
  <2> QED BY <2>7, <2>8
<1> QED BY <1>5, <1>7, <1>8 DEF IInv

LEMMA BreaksKeep ==
  ASSUME IInv, Fail \/ NothingToRetry \/ \E a \in Card : FailAdded(a)
  PROVE  IInv'
<1>1. call # None /\ Broken /\ thread' = thread
  BY DEF Fail, NothingToRetry, FailAdded
<1>2. faults' \in 0 .. MaxFaults
  BY ChatAssumption DEF Fail, NothingToRetry, FailAdded, IInv, StateInv
<1>3. book' = book \/ \E a \in call.todo : book' = [book EXCEPT ![a] = @ + 1]
  BY DEF Fail, NothingToRetry, FailAdded
<1> QED BY <1>1, <1>2, <1>3, BreakKeeps

LEMMA NextIInv == IInv /\ [Next]_vars => IInv'
<1> SUFFICES ASSUME IInv, [Next]_vars PROVE IInv'
  OBVIOUS
<1>1. CASE User
  <2>1. CASE Ask
    BY <2>1, AskKeeps
  <2>2. CASE Reload \/ Return
    BY <2>2, LeaveKeeps
  <2>3. CASE \E c \in Card : Confirm(c) \/ Reject(c)
    BY <2>3, AnswersKeep
  <2>4. CASE \E c \in Card : \E v \in {NameOf[c], Other, None} : EditCard(c, v)
    BY <2>4, EditKeeps
  <2>5. CASE \E i \in 1 .. 3 * MaxTurns : AcceptAll(i)
    BY <2>5, AnswersKeep
  <2>6. CASE \E i \in 1 .. 3 * MaxTurns : Retry(i)
    BY <2>6, RetryKeeps
  <2> QED BY <1>1, <2>1, <2>2, <2>3, <2>4, <2>5, <2>6 DEF User
<1>2. CASE Server
  BY <1>2, ReceiveKeeps, FinalKeeps, BreaksKeep, AddKeeps, ProposeKeeps DEF Server
<1>3. CASE Faults
  BY <1>3, FinalKeeps, BreaksKeep DEF Faults
<1>4. CASE UNCHANGED vars
  <2>1. UNCHANGED <<thread, shown, running, answered, typed, call, book, said, agreed, dropped, broken,
                    reworded, retried, rewound, turns, faults>>
    BY <1>4 DEF vars, page, history, spent
  <2>2. T' = T /\ P' = P /\ Page' = Page /\ Flight' = Flight
    BY <2>1 DEF T, P, Page, Flight
  <2>3. MessagesInv' /\ CallInv' /\ StateInv'
    BY <2>1, <2>2 DEF IInv, MessagesInv, CallInv, StateInv, Fair
  <2>4. ASSUME NEW c \in Card PROVE CardInv(c)'
    BY <2>1, <2>2 DEF IInv, CardInv, Going, Excused, Visible
  <2> QED BY <2>3, <2>4 DEF IInv
<1> QED BY <1>1, <1>2, <1>3, <1>4 DEF Next

THEOREM Invariance == Spec => []IInv
  BY InitIInv, NextIInv, PTL DEF Spec

-----------------------------------------------------------------------------
(* What follows *)

\* Messages, cards and the call have their types, no incomplete product is
\* accepted, and a page that waits has a stream and the message it fills.
THEOREM TypeCorrect == Spec => []TypeOK
<1>1. IInv => TypeOK
  <2> SUFFICES ASSUME IInv PROVE TypeOK
    OBVIOUS
  <2>1. thread \in Seq(AMessage) /\ \A i \in DOMAIN thread : Named(thread[i])
    BY DEF IInv, MessagesInv, T, Msgs, Fair
  <2>2. shown # None => shown \in Seq(AMessage) /\ \A i \in DOMAIN shown : Named(shown[i])
    BY DEF IInv, MessagesInv, P, Page, Msgs, Fair
  <2> QED BY <2>1, <2>2 DEF IInv, CallInv, StateInv, TypeOK
<1> QED BY <1>1, Invariance, PTL

\* The agent adds only what the user accepted on its card, and adds it once:
\* a card that was accepted is not offered again by any later load of the page.
THEOREM AddedAgreed == Spec => []AddedAsAgreed
<1>1. IInv => AddedAsAgreed
  <2> SUFFICES ASSUME IInv, NEW c \in Card
               PROVE  /\ book[c] <= 1 \/ c \in retried \cup rewound \cup reworded
                      /\ book[c] > 0 => c \in agreed
    BY DEF AddedAsAgreed, AddedOnce, AddedWasAgreed
  <2>1. book[c] > 0 => \E m \in T : m.verb = "yes" /\ c \in DOMAIN m.as
    BY DEF IInv, CardInv, YesIn
  <2>2. \A m \in T : m.verb = "yes" => DOMAIN m.as \subseteq agreed
    BY DEF IInv, MessagesInv, Fair
  <2> QED BY <2>1, <2>2 DEF IInv, CardInv, Excused
<1> QED BY <1>1, Invariance, PTL

\* With a name of its own, a card is spoken of by its own messages alone.
LEMMA OwnMessages ==
  ASSUME MessagesInv, NEW c \in Card, Clear(c), NEW m \in P \cup T
  PROVE  Adds(m, c) \/ Tells(m, c) => c \in DOMAIN m.as
<1> SUFFICES ASSUME NEW d \in DOMAIN m.as, d # c, m.as[d] # None PROVE ~SameProduct(NameOf[c], m.as[d])
  <2>1. \A d \in DOMAIN m.as : m.verb \in {"add", "yes"} => m.as[d] # None
    BY ChatAssumption DEF MessagesInv, Fair, Named
  <2> QED BY <2>1 DEF Adds, Tells, Mentions, SameProduct
<1>1. d \in Card /\ m.as[d] \in {NameOf[d], Other}
  BY DEF MessagesInv, Fair, AMessage
<1> QED BY <1>1 DEF Clear

\* A card that was answered says what was answered, on this page and on every
\* later load, and "Confirmado" means that the product was added.
THEOREM CardsAreTrue == Spec => []CardsTellTheTruth
<1>1. IInv => AnswerStays
  <2> SUFFICES ASSUME IInv, NEW c \in Card, Visible(c), said[c] # None, Clear(c), ~Excused(c),
                      NEW i \in DOMAIN shown, shown[i].verb = said[c], c \in DOMAIN shown[i].as
               PROVE  Response(c) = said[c]
    BY DEF AnswerStays, Excused
  <2>0. MessagesInv /\ CardInv(c) /\ shown # None /\ Page = shown /\ shown \in Seq(AMessage) /\ P = Msgs(shown)
    BY DEF IInv, Visible, Page, MessagesInv, P
  <2>1. CASE answered[c] # None
    BY <2>0, <2>1 DEF CardInv, Response
  <2>2. CASE answered[c] = None
    <3>1. Response(c) = ThreadSays(c, shown)
      BY <2>2 DEF Response
    <3>2. \A m \in P : (Adds(m, c) => said[c] = "yes") /\ (Tells(m, c) => m.verb = said[c])
      BY <2>0, OwnMessages DEF CardInv, Adds, Tells
    <3>3. \E m \in P : Tells(m, c)
      <4>1. shown[i] \in P /\ said[c] \in {"yes", "no"}
        BY <2>0 DEF Msgs, IInv, StateInv
      <4> QED BY <2>0, <4>1, OwnName DEF MessagesInv, Excused
    <3> QED BY <2>0, <3>1, <3>2, <3>3, WhatThreadSays
  <2> QED BY <2>1, <2>2
<1>2. IInv => ConfirmedIsAdded
  <2> SUFFICES ASSUME IInv, NEW c \in Card, ~running, Visible(c), Clear(c), c \notin dropped \cup broken,
                      Response(c) = "yes"
               PROVE  book[c] > 0
    BY DEF ConfirmedIsAdded
  <2>0. MessagesInv /\ CardInv(c) /\ shown # None /\ Page = shown /\ shown \in Seq(AMessage) /\ P = Msgs(shown)
    BY DEF IInv, Visible, Page, MessagesInv, P
  <2>1. ~Going(c)
    BY DEF IInv, CallInv, Going, YesIn, Flight
  <2>2. CASE answered[c] # None
    BY <2>0, <2>1, <2>2 DEF CardInv, Response
  <2>3. CASE answered[c] = None
    <3>1. ThreadSays(c, shown) = "yes"
      BY <2>3 DEF Response
    <3>2. \E m \in P : c \in DOMAIN m.as /\ m.verb \in {"add", "yes"}
      BY <2>0, <3>1, WhatThreadSays, OwnMessages, ChatAssumption DEF Adds, Tells
    <3> QED BY <2>0, <2>1, <3>2 DEF CardInv, AddedIn, YesIn
  <2> QED BY <2>2, <2>3
<1> QED BY <1>1, <1>2, Invariance, PTL DEF CardsTellTheTruth

=============================================================================
