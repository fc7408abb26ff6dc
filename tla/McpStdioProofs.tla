---------------------------- MODULE McpStdioProofs ----------------------------
(***************************************************************************)
(* Theorems about McpStdio, for every set of scripts.                      *)
(*                                                                         *)
(* The reader is at most one line ahead of the line in hand, and the line  *)
(* in hand is later than every line answered: OrderInv.  A line that was   *)
(* scanned and has to be answered is with the reader, in hand or answered: *)
(* CompleteInv, which with EndInv, on how the reader comes to close the    *)
(* channel, gives that a graceful end leaves nothing behind.               *)
(***************************************************************************)
EXTENDS McpStdio, TLAPS

\* The lines between Receive and their answer.
InHand == calling \cup writing

Types ==
  /\ script \in Scripts
  /\ written \in 0..Len(script)
  /\ input \in {"open", "eof", "broken"}
  /\ output \in {"open", "stalled", "gone"}
  /\ reader \in {"scan", "hand", "failed", "closing", "done"}
  /\ scanned \in 0..written
  /\ reader = "hand" => scanned > 0
  /\ errs \in BOOLEAN
  /\ calling \subseteq 1..Len(script)
  /\ writing \subseteq 1..Len(script)
  /\ out \in Seq(1..Len(script))
  /\ cancelled \in BOOLEAN
  /\ result \in {"none", "nil", "error", "cancelled", "killed"}

OrderInv ==
  /\ \A m, n \in InHand : m = n
  /\ calling \cap writing = {}
  /\ \A m \in InHand : m <= scanned /\ (reader = "hand" => m < scanned)
  /\ \A i \in DOMAIN out :
       /\ out[i] <= scanned
       /\ reader = "hand" => out[i] < scanned
       /\ \A m \in InHand : out[i] < m
  /\ AnswersInOrder

CompleteInv ==
  output # "gone" =>
    \A n \in 1..scanned :
      Answerable(script[n]) =>
        \/ n \in InHand
        \/ \E i \in DOMAIN out : out[i] = n
        \/ reader = "hand" /\ n = scanned

EndInv ==
  /\ reader \in {"closing", "done"} =>
       errs \/ result = "error" \/ (scanned = written /\ input # "open")
  /\ result = "nil" => reader = "done" /\ InHand = {}

IInv == Types /\ OrderInv /\ CompleteInv /\ EndInv

-----------------------------------------------------------------------------
(* Lemmas. *)

\* A script has a length.
LEMMA ScriptLength == Types => Len(script) \in Nat /\ written \in Nat /\ scanned \in Nat
  BY ScriptsAssumption DEF Types

\* The lines in hand and the lines answered are numbers.
LEMMA LineNumbers ==
  Types => InHand \subseteq Nat /\ \A i \in DOMAIN out : out[i] \in Nat
<1>. SUFFICES ASSUME Types PROVE InHand \subseteq Nat /\ \A i \in DOMAIN out : out[i] \in Nat
  OBVIOUS
<1>1. \A k \in 1..Len(script) : k \in Nat
  BY ScriptLength
<1>2. InHand \subseteq Nat
  BY <1>1 DEF Types, InHand
<1>3. \A i \in DOMAIN out : out[i] \in 1..Len(script)
  BY DEF Types
<1>. QED  BY <1>1, <1>2, <1>3

\* The invariant holds of the initial states.
LEMMA InvInit == Init => IInv
<1>. SUFFICES ASSUME Init PROVE IInv
  OBVIOUS
<1>. USE DEF Init
<1>1. Len(script) \in Nat
  BY ScriptsAssumption
<1>2. Types
  <2>1. <<>> \in Seq(1..Len(script))
    OBVIOUS
  <2>2. written \in 0..Len(script) /\ scanned \in 0..written
    BY <1>1
  <2>. QED  BY <2>1, <2>2 DEF Types
<1>3. OrderInv
  BY DEF OrderInv, AnswersInOrder, InHand
<1>4. CompleteInv
  BY DEF CompleteInv
<1>5. EndInv
  BY DEF EndInv
<1>. QED  BY <1>2, <1>3, <1>4, <1>5 DEF IInv

\* What the client and the signals do touches neither the lines in hand nor the reader.
LEMMA EnvironmentStep ==
  ASSUME IInv, ClientWrites \/ InputEnds \/ ClientStopsReading \/ Cancel
  PROVE  IInv'
<1>. USE DEF IInv, ClientWrites, InputEnds, ClientStopsReading, Cancel, Environment, Serving
<1>1. Len(script) \in Nat /\ written \in Nat /\ scanned \in Nat
  BY ScriptLength
<1>2. Types'
  <2>1. script' = script /\ out' = out /\ calling' = calling /\ writing' = writing
    OBVIOUS
  <2>2. written' \in 0..Len(script) /\ scanned' \in 0..written'
    BY <1>1 DEF Types
  <2>3. /\ input' \in {"open", "eof", "broken"} /\ output' \in {"open", "stalled", "gone"}
        /\ cancelled' \in BOOLEAN
    BY DEF Types
  <2>4. reader' = reader /\ errs' = errs /\ result' = result /\ scanned' = scanned
    OBVIOUS
  <2>. QED  BY <2>1, <2>2, <2>3, <2>4 DEF Types
<1>3. OrderInv'
  BY DEF OrderInv, AnswersInOrder, InHand
<1>4. CompleteInv'
  BY DEF CompleteInv, Answerable, InHand
<1>5. EndInv'
  BY DEF EndInv, InHand
<1>. QED  BY <1>2, <1>3, <1>4, <1>5

\* Scanning a line passes over one that has no answer, or leaves it with the reader.
LEMMA ScanStep == ASSUME IInv, Scan PROVE IInv'
<1>. USE DEF IInv, Scan, ReaderGoto, clientVars, Serving
<1>1. Len(script) \in Nat /\ written \in Nat /\ scanned \in Nat
  BY ScriptLength
<1>2. Types'
  BY <1>1 DEF Types
<1>3. OrderInv'
  <2>1. InHand \subseteq Nat /\ \A i \in DOMAIN out : out[i] \in Nat
    BY LineNumbers
  <2>. QED  BY <1>1, <2>1 DEF OrderInv, AnswersInOrder, InHand
<1>4. CompleteInv'
  <2>1. reader' = "hand" \/ ~Answerable(script[scanned + 1])
    BY DEF Answerable
  <2>. QED  BY <1>1, <2>1 DEF CompleteInv, Answerable, InHand
<1>5. EndInv'
  BY DEF EndInv, InHand
<1>. QED  BY <1>2, <1>3, <1>4, <1>5

\* The reader ends with an error, or with everything that was written scanned.
LEMMA ReaderEndStep == ASSUME IInv, ScanEnds \/ ReportError \/ CloseLines PROVE IInv'
<1>. USE DEF IInv, ScanEnds, ReportError, CloseLines, ReaderGoto, clientVars, Serving
<1>1. Types'
  BY DEF Types
<1>2. OrderInv'
  BY DEF OrderInv, AnswersInOrder, InHand
<1>3. CompleteInv'
  BY DEF CompleteInv, Answerable, InHand
<1>4. EndInv'
  BY DEF Types, EndInv, InHand
<1>. QED  BY <1>1, <1>2, <1>3, <1>4

\* A line is taken when none is in hand: it becomes the only one, later than all answered.
LEMMA ReceiveStep == ASSUME IInv, Receive PROVE IInv'
<1>. USE DEF IInv, Receive, clientVars, Idle, Serving
<1>1. Len(script) \in Nat /\ written \in Nat /\ scanned \in Nat
  BY ScriptLength
<1>2. scanned \in 1..Len(script)
  BY <1>1 DEF Types
<1>3. InHand' \in {{}, {scanned}} /\ InHand = {}
  BY DEF InHand, Answer
<1>4. InHand' = {scanned} \/ ~Answerable(script[scanned])
  BY DEF InHand, Answer
<1>5. Types'
  BY <1>2 DEF Types, Answer
<1>6. OrderInv'
  <2>1. (calling \cap writing)' = {}
    BY <1>3 DEF InHand, Answer
  <2>. QED  BY <1>1, <1>3, <2>1 DEF OrderInv, AnswersInOrder
<1>7. CompleteInv'
  BY <1>1, <1>3, <1>4 DEF CompleteInv, Answerable
<1>8. EndInv'
  BY DEF EndInv
<1>. QED  BY <1>5, <1>6, <1>7, <1>8

\* A call that ends leaves its line in hand, unless it is not to be answered.
LEMMA CallEndsStep == ASSUME IInv, NEW n \in 1..Len(script), CallEnds(n) PROVE IInv'
<1>. USE DEF IInv, CallEnds, clientVars, Serving
<1>1. InHand' \subseteq InHand
  BY DEF InHand, Answer
<1>2. \A m \in InHand : m \in InHand' \/ ~Answerable(script[m])
  BY DEF InHand, Answer
<1>3. Types'
  BY DEF Types, Answer
<1>4. OrderInv'
  <2>1. (calling \cap writing)' = {}
    BY DEF OrderInv, Answer
  <2>. QED  BY <1>1, <2>1 DEF OrderInv, AnswersInOrder
<1>5. CompleteInv'
  BY <1>2 DEF CompleteInv, Answerable
<1>6. EndInv'
  BY DEF EndInv
<1>. QED  BY <1>3, <1>4, <1>5, <1>6

\* An answer that is written is the last one, of the only line in hand.
LEMMA WriteStep == ASSUME IInv, NEW n \in 1..Len(script), Write(n) PROVE IInv'
<1>. USE DEF IInv, Write, clientVars, Serving
<1>1. Len(script) \in Nat /\ written \in Nat /\ scanned \in Nat
  BY ScriptLength
<1>2. n \in InHand /\ InHand' \subseteq InHand
  BY DEF InHand
<1>3. InHand' = {}
  <2>1. n \notin calling /\ n \notin writing'
    BY DEF OrderInv
  <2>2. \A m \in InHand' : m = n
    BY <1>2 DEF OrderInv
  <2>3. n \notin InHand'
    BY <2>1 DEF InHand
  <2>. QED  BY <2>2, <2>3
<1>4. CASE output # "gone" /\ out' = Append(out, n) /\ UNCHANGED result
  <2>1. /\ Len(out) \in Nat /\ DOMAIN out = 1..Len(out) /\ DOMAIN out' = 1..(Len(out) + 1)
        /\ out' \in Seq(1..Len(script))
    BY <1>4 DEF Types
  <2>2. (\A i \in DOMAIN out : out'[i] = out[i]) /\ out'[Len(out) + 1] = n
    BY <1>4 DEF Types
  <2>3. Types'
    BY <1>4, <2>1 DEF Types
  <2>4. OrderInv'
    <3>1. n <= scanned /\ (reader = "hand" => n < scanned) /\ \A i \in DOMAIN out : out[i] < n
      BY <1>2 DEF OrderInv
    <3>2. \A i \in DOMAIN out' : i \in DOMAIN out \/ i = Len(out) + 1
      BY <2>1
    <3>3. AnswersInOrder'
      BY <2>1, <2>2, <3>1, <3>2 DEF OrderInv, AnswersInOrder
    <3>4. (calling \cap writing)' = {}
      BY <1>3 DEF InHand
    <3>. QED  BY <1>3, <2>2, <3>1, <3>2, <3>3, <3>4 DEF OrderInv
  <2>5. CompleteInv'
    <3>1. \A m \in InHand : m = n
      BY <1>2 DEF OrderInv
    <3>2. \E i \in DOMAIN out' : out'[i] = n
      BY <2>1, <2>2
    <3>3. ASSUME NEW k, \E i \in DOMAIN out : out[i] = k
          PROVE  \E i \in DOMAIN out' : out'[i] = k
      BY <2>1, <2>2, <3>3
    <3>. QED  BY <1>4, <3>1, <3>2, <3>3 DEF CompleteInv, Answerable
  <2>6. EndInv'
    BY <1>4 DEF EndInv
  <2>. QED  BY <2>3, <2>4, <2>5, <2>6
<1>5. CASE output = "gone" /\ result' \in {"none", "killed"} /\ UNCHANGED out
  <2>1. Types'
    BY <1>5 DEF Types
  <2>2. OrderInv'
    <3>1. (calling \cap writing)' = {}
      BY <1>3 DEF InHand
    <3>. QED  BY <1>3, <1>5, <3>1 DEF OrderInv, AnswersInOrder
  <2>3. CompleteInv'
    BY <1>5 DEF CompleteInv
  <2>4. EndInv'
    BY <1>5 DEF EndInv
  <2>. QED  BY <2>1, <2>2, <2>3, <2>4
<1>. QED  BY <1>4, <1>5

\* Serve returns nil once the channel is closed, with no line in hand.
LEMMA ReturnStep == ASSUME IInv, SeeCancelled \/ SeeError \/ SeeClosed PROVE IInv'
<1>. USE DEF IInv, SeeCancelled, SeeError, SeeClosed, Return, clientVars, Idle, Serving
<1>1. Types'
  BY DEF Types
<1>2. OrderInv'
  BY DEF OrderInv, AnswersInOrder, InHand
<1>3. CompleteInv'
  BY DEF CompleteInv, Answerable, InHand
<1>4. EndInv'
  BY DEF EndInv, InHand
<1>. QED  BY <1>1, <1>2, <1>3, <1>4

\* Every step preserves the invariant.
LEMMA InvStep == IInv /\ [Next]_vars => IInv'
<1>. SUFFICES ASSUME IInv, [Next]_vars PROVE IInv'
  OBVIOUS
<1>1. CASE ClientWrites \/ InputEnds \/ ClientStopsReading \/ Cancel
  BY <1>1, EnvironmentStep
<1>2. CASE Reader
  BY <1>2, ScanStep, ReaderEndStep DEF Reader
<1>3. CASE Receive
  BY <1>3, ReceiveStep
<1>4. ASSUME NEW n \in 1..Len(script), CallEnds(n) \/ Write(n) PROVE IInv'
  BY <1>4, CallEndsStep, WriteStep
<1>5. CASE SeeCancelled \/ SeeError \/ SeeClosed
  BY <1>5, ReturnStep
<1>6. CASE UNCHANGED vars
  BY <1>6 DEF vars, IInv, Types, OrderInv, AnswersInOrder, CompleteInv, Answerable, EndInv, InHand
<1>. QED  BY <1>1, <1>2, <1>3, <1>4, <1>5, <1>6 DEF Next

\* The invariant holds in every state.
THEOREM Invariance == Spec => []IInv
  BY InvInit, InvStep, PTL DEF Spec

-----------------------------------------------------------------------------
(* Theorems. *)

\* The state keeps its types, and the loop handles one line at a time (Serve's select
\* is not reached again before handleLine returns).
THEOREM TypeCorrect == Spec => []TypeOK
<1>1. IInv => TypeOK
  BY DEF IInv, Types, OrderInv, InHand, TypeOK
<1>. QED  BY <1>1, Invariance, PTL

\* Answers leave in the order of the requests and never twice, whatever the reader, the
\* tools and the pipes do.
THEOREM Order == Spec => []AnswersInOrder
<1>1. IInv => AnswersInOrder
  BY DEF IInv, OrderInv
<1>. QED  BY <1>1, Invariance, PTL

\* When Serve returns nil and no read error is pending, every line written before the
\* end of the input has its answer, for every script.
THEOREM GracefulEnd == Spec => []GracefulEndAnswersAll
<1>1. ASSUME IInv, result = "nil", ~errs, output # "gone"
      PROVE  \A n \in 1..written : Answerable(script[n]) => \E i \in DOMAIN out : out[i] = n
  BY <1>1 DEF IInv, EndInv, CompleteInv
<1>2. IInv => GracefulEndAnswersAll
  BY <1>1 DEF GracefulEndAnswersAll
<1>. QED  BY <1>2, Invariance, PTL

=============================================================================
