----------------------------- MODULE ChatThread -----------------------------
(***************************************************************************)
(* The chat of the assistant: the thread the server keeps, what the page   *)
(* shows of it, and the cards on which the user accepts or rejects the     *)
(* products the agent proposes (app/assistant.tsx,                         *)
(* components/assistant-ui/thread.tsx, api/chat_routes.py).                *)
(*                                                                         *)
(* A card has no state on the server: whether it was answered is worked    *)
(* out again from the texts and tool results of the thread.  The agent is  *)
(* external: asked, it proposes cards; told yes, it adds what the message  *)
(* names; its other answers change nothing here.  A cut connection ends    *)
(* the turn, and the page is left only between turns.                      *)
(***************************************************************************)
EXTENDS Integers, FiniteSets, Sequences, FiniteSetsExt

CONSTANTS
  Card,      \* tool_call_ids of propose_product
  Name,
  NameOf,    \* card -> the name it is proposed under
  Inside,    \* name -> the names that occur in it, itself among them
  Other,     \* a name the user may type instead
  Gaps,      \* cards proposed without amount or composition
  None,
  MaxTurns,  \* bound on the messages and retries sent
  MaxFaults  \* bound on turns and loads that fail

Verbs    == {"ask", "yes", "no", "propose", "add", "waiting", "error"}
AMessage == [verb : Verbs, as : UNION {[cs -> Name \cup {None}] : cs \in SUBSET Card}]
ACall == [stage : {"sent", "turn", "spoken"}, retry : BOOLEAN, msg : AMessage, todo : SUBSET Card]

ASSUME ChatAssumption ==
  /\ NameOf \in [Card -> Name] /\ Other \in Name /\ Gaps \subseteq Card
  /\ Inside \in [Name -> SUBSET Name] /\ \A n \in Name : n \in Inside[n]
  /\ None \notin Name \cup {"yes", "no"} /\ None \notin Seq(AMessage) /\ None \notin ACall
  /\ MaxTurns \in Nat /\ MaxFaults \in Nat

VARIABLES
  thread,    \* the messages the server keeps
  shown,     \* messages of the page; None while the history loads
  running,   \* isRunning
  call,      \* the stream and its turn on the server, or None
  answered,  \* _globalResponses
  typed,     \* the name in each card; None while it is incomplete
  book,      \* card -> how often its product was added
  said,      \* card -> the user's last answer to it: history, as are the next
  agreed,    \* cards the user ever accepted
  dropped,   \* cards answered while a turn ran
  broken,    \* cards of a turn that failed
  reworded,  \* cards answered under another name
  retried,   \* cards of a turn that was run again
  rewound,   \* cards answered in a message a retry took off the page
  turns, faults

page    == <<shown, running, answered, typed>>
history == <<said, agreed, dropped, broken, reworded, retried, rewound>>
spent   == <<turns, faults>>
vars    == <<thread, page, call, book, history, spent>>

\* What a card opens with.
Draft(c) == IF c \in Gaps THEN None ELSE NameOf[c]

\* A message: its verb, and the cards it is about under the names it says.
Message(verb, as) == [verb |-> verb, as |-> as]
NoCards == [c \in {} |-> None]
Waiting == Message("waiting", NoCards)  \* the streaming message
ByUser(m) == m.verb \in {"ask", "yes", "no"}
LastUser(ms) == Max({0} \cup {i \in DOMAIN ms : ByUser(ms[i])})

Init ==
  /\ thread = <<>> /\ shown = None /\ running = FALSE /\ call = None
  /\ answered = [c \in Card |-> None] /\ typed = [c \in Card |-> Draft(c)]
  /\ book = [c \in Card |-> 0]
  /\ said = [c \in Card |-> None]
  /\ agreed = {} /\ dropped = {} /\ broken = {} /\ reworded = {} /\ retried = {} /\ rewound = {}
  /\ turns = 0 /\ faults = 0

-----------------------------------------------------------------------------
(* What a card shows.                                                      *)

\* Mutant: the verb is read, the name is not.
MentionsAny(m, n) == m.as # NoCards

\* responseForProduct: the text mentions the name, in whatever product.
Mentions(m, n) == \E c \in DOMAIN m.as : m.as[c] # None /\ n \in Inside[m.as[c]]

\* productsMatch; products of one instance share amount or class
SameProduct(n, o) == n \in Inside[o] \/ o \in Inside[n]

\* Mutant: the tool results are asked, the user's messages are not.
ToolsSay(c, ms) ==
  IF \E i \in DOMAIN ms : ms[i].verb = "add" /\ \E d \in DOMAIN ms[i].as : SameProduct(NameOf[c], ms[i].as[d])
  THEN "yes" ELSE None

\* deriveResponseForProductFromThread
ThreadSays(c, ms) ==
  LET added == \E i \in DOMAIN ms : ms[i].verb = "add" /\ \E d \in DOMAIN ms[i].as : SameProduct(NameOf[c], ms[i].as[d])
      texts == {i \in DOMAIN ms : ms[i].verb \in {"yes", "no"} /\ Mentions(ms[i], NameOf[c])}
  IN IF added THEN "yes"
     ELSE IF texts # {} THEN ms[Max(texts)].verb ELSE None

Proposes(m, c) == m.verb = "propose" /\ c \in DOMAIN m.as
Visible(c)  == shown # None /\ \E i \in DOMAIN shown : Proposes(shown[i], c)
Response(c) == IF answered[c] # None THEN answered[c] ELSE ThreadSays(c, shown)
Pending(c)  == Visible(c) /\ Response(c) = None

\* What was typed in a card goes with it.
StillTyped(ms) == [c \in Card |-> IF \E i \in DOMAIN ms : Proposes(ms[i], c) THEN typed[c] ELSE Draft(c)]

-----------------------------------------------------------------------------
(* The user.                                                               *)

\* streamMessage
Stream(base, m, retry) ==
  /\ turns < MaxTurns /\ turns' = turns + 1
  /\ shown' = Append(base, Waiting) /\ running' = TRUE
  /\ call' = [stage |-> "sent", retry |-> retry, msg |-> m, todo |-> {}]

\* onNew: while a turn runs, a message goes nowhere.
Say(m) ==
  IF running
  THEN UNCHANGED <<shown, running, call, turns>> /\ dropped' = dropped \cup DOMAIN m.as
  ELSE Stream(Append(shown, m), m, FALSE) /\ dropped' = dropped \ DOMAIN m.as

Ask ==
  /\ shown # None /\ ~running /\ Say(Message("ask", NoCards))
  /\ UNCHANGED <<thread, answered, typed, book, said, agreed, broken, reworded, retried, rewound, faults>>

\* Name, amount and composition of a card; another asset class empties the
\* composition, handleAssetClassChange.
EditCard(c, v) ==
  /\ Pending(c) /\ v # typed[c] /\ typed' = [typed EXCEPT ![c] = v]
  /\ UNCHANGED <<thread, shown, running, answered, call, book, history, spent>>

Answer(verb, cs) ==
  /\ answered' = [c \in Card |-> IF c \in cs THEN verb ELSE answered[c]]
  /\ said' = [c \in Card |-> IF c \in cs THEN verb ELSE said[c]]
  /\ agreed' = IF verb = "yes" THEN agreed \cup cs ELSE agreed
  /\ reworded' = reworded \cup {c \in cs : typed[c] # NameOf[c]}
  /\ Say(Message(verb, [c \in cs |-> typed[c]]))
  /\ UNCHANGED <<thread, typed, book, broken, retried, rewound, faults>>

\* handleConfirm of a card that is complete, and handleReject
Confirm(c) == Pending(c) /\ typed[c] # None /\ Answer("yes", {c})
Reject(c)  == Pending(c) /\ Answer("no", {c})

\* Mutant: what was rejected is accepted with the rest.
NotAccepted(i) == {c \in DOMAIN shown[i].as : Response(c) # "yes"}

\* pendingIds of confirmAll
ToAccept(i) == {c \in DOMAIN shown[i].as : Response(c) = None}

\* BulkAcceptBar, for the cards of one message
AcceptAll(i) ==
  /\ shown # None /\ i \in DOMAIN shown /\ shown[i].verb = "propose"
  /\ Cardinality(DOMAIN shown[i].as) > 1 /\ (\E c \in DOMAIN shown[i].as : Pending(c))
  /\ \A c \in DOMAIN shown[i].as : Pending(c) => typed[c] # None
  /\ LET cs == ToAccept(i) IN
     /\ answered' = [c \in Card |-> IF c \in cs THEN "yes" ELSE answered[c]]
     /\ said' = [c \in Card |-> IF Pending(c) /\ c \in cs THEN "yes" ELSE said[c]]
     /\ agreed' = agreed \cup {c \in cs : Pending(c)}
     /\ reworded' = reworded \cup {c \in cs : typed[c] # NameOf[c]}
     /\ Say(Message("yes", [c \in cs |-> typed[c]]))
  /\ UNCHANGED <<thread, typed, book, broken, retried, rewound, faults>>

\* UserReloadButton and onReload: the page goes back to the message whose
\* button was pressed; the server is told to retry, not what.
Retry(i) ==
  /\ shown # None /\ i \in DOMAIN shown /\ ByUser(shown[i]) /\ ~running
  /\ Stream(SubSeq(shown, 1, i), shown[i], TRUE)
  /\ typed' = StillTyped(SubSeq(shown, 1, i))
  /\ rewound' = rewound \cup
       UNION {DOMAIN shown[j].as : j \in {k \in DOMAIN shown : k > i /\ ByUser(shown[k])}}
  /\ UNCHANGED <<thread, answered, book, said, agreed, dropped, broken, reworded, retried, faults>>

\* The page is loaded again, a turn that runs is cut.
Reload ==
  /\ shown # None
  /\ shown' = None /\ running' = FALSE /\ call' = None
  /\ answered' = [c \in Card |-> None] /\ typed' = [c \in Card |-> Draft(c)]
  /\ broken' = IF call = None THEN broken ELSE broken \cup DOMAIN call.msg.as
  /\ UNCHANGED <<thread, book, said, agreed, dropped, reworded, retried, rewound, spent>>

\* Another page of the application and back: what the module holds stays.
Return ==
  /\ shown # None /\ ~running
  /\ shown' = None /\ typed' = [c \in Card |-> Draft(c)]
  /\ UNCHANGED <<thread, running, answered, call, book, history, spent>>

-----------------------------------------------------------------------------
(* The server and the agent.                                               *)

\* stream_message: a retry takes back what follows the last user message.
Receive ==
  /\ call # None /\ call.stage = "sent"
  /\ LET k   == LastUser(thread)
         msg == IF call.retry THEN thread[k] ELSE call.msg
     IN /\ call.retry => k > 0
        /\ thread' = IF call.retry THEN SubSeq(thread, 1, k) ELSE Append(thread, msg)
        /\ call' = [call EXCEPT !.stage = "turn", !.msg = msg,
                                !.todo = IF msg.verb = "yes" THEN DOMAIN msg.as ELSE {}]
        /\ retried' = IF call.retry THEN retried \cup DOMAIN msg.as ELSE retried
  /\ UNCHANGED <<page, book, said, agreed, dropped, broken, reworded, rewound, spent>>

\* add_product, and its result in the thread
AddProduct(c) ==
  /\ call # None /\ c \in call.todo
  /\ book' = [book EXCEPT ![c] = @ + 1]
  /\ thread' = Append(thread, Message("add", [d \in {c} |-> call.msg.as[d]]))
  /\ call' = [call EXCEPT !.todo = @ \ {c}]
  /\ UNCHANGED <<page, history, spent>>

\* propose_product; a tool call has an id of its own.
Fresh == {c \in Card : said[c] = None /\ ~\E i \in DOMAIN thread : Proposes(thread[i], c)}

Propose(cs) ==
  /\ call # None /\ call.stage = "turn" /\ call.msg.verb = "ask"
  /\ cs # {} /\ cs \subseteq Fresh
  /\ thread' = Append(thread, Message("propose", [c \in cs |-> NameOf[c]]))
  /\ call' = [call EXCEPT !.stage = "spoken"]
  /\ UNCHANGED <<page, book, history, spent>>

\* The final event: the page takes the thread of the server.
Final ==
  /\ call # None /\ call.stage # "sent" /\ call.todo = {}
  /\ shown' = thread /\ running' = FALSE /\ call' = None
  /\ typed' = StillTyped(thread)
  /\ UNCHANGED <<thread, answered, book, history, spent>>

\* Mutant: the flag is taken back where the stream ended well.
StayRunning == UNCHANGED running

\* The `finally` of streamMessage.
StopRunning == running' = FALSE

\* The error shows in the place of the answer; the turn is over.
Broken ==
  /\ shown' = Append(SubSeq(shown, 1, Len(shown) - 1), Message("error", NoCards))
  /\ StopRunning /\ call' = None
  /\ broken' = broken \cup DOMAIN call.msg.as
  /\ UNCHANGED <<answered, typed, said, agreed, dropped, reworded, retried, rewound, turns>>

\* No answer, an error event, a cut stream: at any point of the turn.
Fail ==
  /\ call # None /\ faults < MaxFaults /\ faults' = faults + 1 /\ Broken
  /\ UNCHANGED <<thread, book>>

\* The turn dies between the product and the checkpoint of its result.
FailAdded(c) ==
  /\ call # None /\ c \in call.todo /\ faults < MaxFaults /\ faults' = faults + 1 /\ Broken
  /\ book' = [book EXCEPT ![c] = @ + 1]
  /\ UNCHANGED thread

\* 400: nothing to retry
NothingToRetry ==
  /\ call # None /\ call.stage = "sent" /\ call.retry /\ LastUser(thread) = 0 /\ Broken
  /\ UNCHANGED <<thread, book, faults>>

\* The history arrives; an error leaves the page empty and says nothing.
History(ok) ==
  /\ shown = None
  /\ IF ok THEN shown' = thread /\ UNCHANGED faults
     ELSE faults < MaxFaults /\ faults' = faults + 1 /\ shown' = <<>>
  /\ UNCHANGED <<thread, running, answered, typed, call, book, history, turns>>

User ==
  \/ Ask \/ Reload \/ Return
  \/ \E c \in Card : Confirm(c) \/ Reject(c) \/ \E v \in {NameOf[c], Other, None} : EditCard(c, v)
  \/ \E i \in 1 .. 3 * MaxTurns : AcceptAll(i) \/ Retry(i)

Server ==
  \/ Receive \/ Final \/ NothingToRetry \/ History(TRUE)
  \/ \E c \in Card : AddProduct(c)
  \/ \E cs \in SUBSET Card : Propose(cs)

Faults == Fail \/ History(FALSE) \/ \E c \in Card : FailAdded(c)

Next == User \/ Server \/ Faults

\* The server answers what it is asked.
Spec == Init /\ [][Next]_vars /\ WF_vars(Server)

-----------------------------------------------------------------------------
(* Properties.                                                             *)

\* Only what is rejected may be incomplete.
Named(m) == \A c \in DOMAIN m.as : m.as[c] \in Name \/ m.verb = "no"

\* Messages, cards and the call have their types: no incomplete product is
\* accepted, and a page that waits has a stream and the message it fills.
TypeOK ==
  /\ thread \in Seq(AMessage) /\ \A i \in DOMAIN thread : Named(thread[i])
  /\ shown # None => shown \in Seq(AMessage) /\ \A i \in DOMAIN shown : Named(shown[i])
  /\ call # None => call \in ACall
  /\ running = (call # None)
  /\ running => shown # None /\ shown # <<>> /\ shown[Len(shown)] = Waiting
  /\ answered \in [Card -> {None, "yes", "no"}] /\ said \in [Card -> {None, "yes", "no"}]
  /\ typed \in [Card -> Name \cup {None}] /\ book \in [Card -> Nat]
  /\ UNION {agreed, dropped, broken, reworded, retried, rewound} \subseteq Card
  /\ turns \in 0 .. MaxTurns /\ faults \in 0 .. MaxFaults

\* No product is in the portfolio twice, although every load of the page
\* works out anew which cards are answered: a card that was accepted is not
\* offered again, also when its turn failed.  A retry repeats its turn, one of
\* an earlier message takes the later answers off the page though the server
\* keeps them, and a name the user changed is not found again.
AddedOnce == \A c \in Card : book[c] <= 1 \/ c \in retried \cup rewound \cup reworded

\* Nothing is added that the user did not accept on its card, whatever is
\* accepted beside it or retried later (confirmAll, stream_message).
AddedWasAgreed == \A c \in Card : book[c] > 0 => c \in agreed

\* No other card has a name, proposed or typed, that contains this one's or
\* lies in it.
Clear(c) == \A d \in Card \ {c} : \A n \in {NameOf[d], Other} : ~SameProduct(NameOf[c], n)

\* A card shows the answer the user gave it, on this page and on every later
\* load that has the message (deriveResponseForProductFromThread): cards with
\* names that overlap, reworded ones and those asked again by a retry apart.
AnswerStays ==
  \A c \in Card :
    (/\ Visible(c) /\ said[c] # None /\ Clear(c) /\ c \notin reworded \cup rewound
     /\ \E i \in DOMAIN shown : shown[i].verb = said[c] /\ c \in DOMAIN shown[i].as)
    => Response(c) = said[c]

\* Between turns, "Confirmado" on a card means that its product was added,
\* but for a message that was dropped and a turn that failed.
ConfirmedIsAdded ==
  \A c \in Card :
    (~running /\ Visible(c) /\ Clear(c) /\ c \notin dropped \cup broken /\ Response(c) = "yes")
    => book[c] > 0

\* Every turn gives the page back to the user, whatever fails in it.
TurnEnds == running ~> ~running

\* What the agent added was agreed to, and added once.
AddedAsAgreed == AddedOnce /\ AddedWasAgreed

\* A card that was answered says what was answered, and "Confirmado" is true.
CardsTellTheTruth == AnswerStays /\ ConfirmedIsAdded
=============================================================================
