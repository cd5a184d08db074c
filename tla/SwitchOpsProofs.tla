--------------------------- MODULE SwitchOpsProofs ---------------------------
(***************************************************************************)
(* Proofs about SwitchOps, for every number of hosts, slots and messages,   *)
(* every window and every program of calls.                                 *)
(***************************************************************************)
EXTENDS SwitchOpsInv, FiniteSetTheorems, SequenceTheorems, WellFoundedInduction,
        TLAPS

------------------------------------------------------------------------------
(* Functions and numbers. *)

(* One value of a function changes, or none. *)
LEMMA ChangeOne ==
    ASSUME NEW S, NEW T, NEW f \in [S -> T], NEW x, NEW e \in T
    PROVE  [f EXCEPT ![x] = e] \in [S -> T]
OBVIOUS

(* One of a family of sequences grows. *)
LEMMA AppendOne ==
    ASSUME NEW S, NEW T, NEW f \in [S -> Seq(T)], NEW x, NEW e \in T
    PROVE  [f EXCEPT ![x] = Append(@, e)] \in [S -> Seq(T)]
<1>1. \A s \in Seq(T) : Append(s, e) \in Seq(T)
  OBVIOUS
<1>2. CASE x \in S
  BY <1>1, <1>2
<1>3. CASE x \notin S
  BY <1>3
<1> QED BY <1>2, <1>3

(* The larger of two numbers is one of them. *)
LEMMA MaxOfTwo ==
    ASSUME NEW a \in Nat, NEW b \in Nat
    PROVE  Max({a, b}) \in Nat
<1>1. \E x \in {a, b} : \A y \in {a, b} : x >= y
  OBVIOUS
<1> QED BY <1>1 DEF Max

LEMMA MinOfTwo ==
    ASSUME NEW a \in Nat, NEW b \in Nat
    PROVE  Min({a, b}) \in Nat /\ Min({a, b}) <= a /\ Min({a, b}) <= b
<1>1. \E x \in {a, b} : \A y \in {a, b} : x =< y
  OBVIOUS
<1> QED BY <1>1 DEF Min

(* A finite set of numbers has a member with k members below it, for every *)
(* k less than its size.                                                   *)
LEMMA KthMember ==
    ASSUME NEW n \in Nat, NEW S \in SUBSET (0 .. n - 1),
           NEW k \in Nat, k < Cardinality(S)
    PROVE  \E x \in S : Cardinality({y \in S : y < x}) = k
<1> DEFINE Below(x) == {y \in S : y < x}
           T == {x \in 0 .. n : Cardinality(Below(x)) > k}
           lt == OpToRel(<, Nat)
<1>1. IsFiniteSet(S)
  <2>1. IsFiniteSet(0 .. n - 1)
    BY FS_Interval
  <2> QED BY <2>1, FS_Subset
<1>2. \A x : IsFiniteSet(Below(x)) /\ Cardinality(Below(x)) \in Nat
  BY <1>1, FS_Subset, FS_CardinalityType
<1>0. \A y \in S : y \in Nat /\ y < n
  OBVIOUS
<1>3. Below(n) = S /\ Below(0) = {}
  <2>1. Below(n) = S
    BY <1>0
  <2>2. \A y \in S : ~ (y < 0)
    BY <1>0
  <2> QED BY <2>1, <2>2
<1>4. ASSUME NEW x \in 1 .. n
      PROVE  Below(x) = IF x - 1 \in S THEN Below(x - 1) \union {x - 1}
                                       ELSE Below(x - 1)
  <2>1. \A y \in S : y < x <=> y < x - 1 \/ y = x - 1
    BY <1>0
  <2>2. x - 1 < x
    OBVIOUS
  <2> QED BY <2>1, <2>2
<1>5. \A x \in Int : x \notin Below(x)
  OBVIOUS
<1> HIDE DEF Below, lt
<1>6. n \in T /\ 0 \notin T
  BY <1>3, FS_EmptySet
<1>7. PICK x \in T : \A y \in T : x <= y
  <2>1. IsWellFoundedOn(lt, Nat)
    BY NatLessThanWellFounded DEF lt
  <2>2. \A i, j \in Nat : <<i, j>> \notin lt => j <= i
    BY DEF OpToRel, lt
  <2>3. T \subseteq Nat /\ T # {}
    BY <1>6
  <2> HIDE DEF T
  <2>4. \E i \in T : \A j \in T : <<j, i>> \notin lt
    BY <2>1, <2>3, WFMin
  <2> QED BY <2>2, <2>3, <2>4
<1>8. x \in 1 .. n /\ Cardinality(Below(x)) > k
  BY <1>6, <1>7
<1>9. Cardinality(Below(x - 1)) <= k
  <2>1. x - 1 \in 0 .. n /\ x - 1 \notin T
    BY <1>7, <1>8
  <2> QED BY <1>2, <2>1
<1>10. x - 1 \in S
  BY <1>2, <1>4, <1>8, <1>9
<1>11. Below(x) = Below(x - 1) \union {x - 1}
  BY <1>4, <1>8, <1>10
<1>12. Cardinality(Below(x)) = Cardinality(Below(x - 1)) + 1
  <2>1. x - 1 \notin Below(x - 1)
    BY <1>5, <1>8
  <2> QED BY <1>2, <1>11, <2>1, FS_AddElement
<1>13. Cardinality(Below(x - 1)) = k
  BY <1>2, <1>8, <1>9, <1>12
<1> QED BY <1>10, <1>13 DEF Below

------------------------------------------------------------------------------
(* What the definitions return. *)

(* A call of the program is an operation, and its messages are chunks. *)
LEMMA ProgramCalls ==
    ASSUME TypeOK
    PROVE  /\ Len(program) \in Nat
           /\ \A o \in Calls : /\ program[o] \in Operations
                              /\ program[o].prim \in Primitives
                              /\ program[o].root \in Hosts \union {-1}
                              /\ program[o].len \in Nat \ {0}
                              /\ \A k \in 1 .. program[o].len :
                                    <<o, k>> \in Chunks
<1>1. program \in Seq(Operations)
  BY ProgramsAssumption DEF TypeOK
<1>2. ASSUME NEW o \in Calls
      PROVE  program[o] \in Operations
  BY <1>1, <1>2 DEF Calls
<1>3. ASSUME NEW c \in Operations
      PROVE  /\ c.prim \in Primitives
             /\ c.root \in Hosts \union {-1}
             /\ c.len \in Nat \ {0}
  BY DEF Operations, Primitives
<1>4. ASSUME NEW o \in Calls, NEW k \in 1 .. program[o].len
      PROVE  <<o, k>> \in Chunks
  BY DEF Chunks
<1> QED BY <1>1, <1>2, <1>3, <1>4

(* What a host posts are messages. *)
LEMMA MessageTypes ==
    ASSUME NEW o \in Calls
    PROVE  /\ Control(o) \in Messages
           /\ \A k : <<o, k>> \in Chunks => Data(o, k) \in Messages
BY DEF Control, Data, Messages

(* What is known of a message that was posted. *)
LEMMA PostedMessage ==
    ASSUME TypeOK, NEW h \in Hosts, NEW psn \in Psns(h)
    PROVE  /\ Message(h, psn) \in Messages
           /\ Message(h, psn).call \in Calls
           /\ Message(h, psn).kind = "data" => Message(h, psn).chunk \in Chunks
<1>1. sent[h] \in Seq(Messages) /\ psn + 1 \in 1 .. Len(sent[h])
  BY DEF TypeOK, Psns
<1>2. Message(h, psn) \in Messages
  BY <1>1 DEF Message
<1> QED BY <1>2 DEF Messages

(* Sums of chunks. *)
LEMMA SumTypes ==
    ASSUME NEW h \in Hosts, NEW chunk \in Chunks
    PROVE  /\ NoData \in Sums
           /\ From(h, chunk) \in Sums
           /\ \A s \in Sums : [s EXCEPT ![h] = Append(@, chunk)] \in Sums
<1>1. << >> \in Seq(Chunks) /\ <<chunk>> \in Seq(Chunks)
  OBVIOUS
<1>2. NoData \in Sums
  BY <1>1 DEF NoData, Sums
<1>3. From(h, chunk) \in Sums
  BY <1>1, <1>2, ChangeOne DEF From, Sums
<1>4. \A s \in Sums : [s EXCEPT ![h] = Append(@, chunk)] \in Sums
  BY AppendOne DEF Sums
<1> QED BY <1>2, <1>3, <1>4

LEMMA IdxInSlots == ASSUME NEW psn \in Nat PROVE Idx(psn) \in Slots
BY SizesAssumption DEF Idx, Slots

(* An ACK keeps what a host knows a number. *)
LEMMA AckType ==
    ASSUME TypeOK, NEW h \in Hosts, NEW n \in Nat
    PROVE  Acked(h, n) \in [Hosts -> Nat]
<1>1. acked \in [Hosts -> Nat] /\ Max({acked[h], n}) \in Nat
  BY MaxOfTwo DEF TypeOK
<1> QED BY <1>1 DEF Acked

(* A rule of a connection names connections. *)
LEMMA RuleConns ==
    ASSUME NEW h \in Hosts, NEW p \in Primitives, NEW root,
           HasRule(h, p, root)
    PROVE  OutConns(p, root) \in SUBSET Hosts
BY DEF HasRule, OutConns, Primitives

(* A control message not handled yet is found, and is one. *)
LEMMA NextControlType ==
    ASSUME TypeOK, NEW h \in Hosts, ctl[h] < Cardinality(ControlPsns(h))
    PROVE  NextControl(h) \in Psns(h)
<1>1. Len(sent[h]) \in Nat /\ ctl[h] \in Nat
  BY DEF TypeOK
<1>2. ControlPsns(h) \in SUBSET (0 .. Len(sent[h]) - 1)
  BY DEF ControlPsns, Psns
<1>3. \E psn \in ControlPsns(h) :
         Cardinality({p \in ControlPsns(h) : p < psn}) = ctl[h]
  BY <1>1, <1>2, KthMember
<1>4. NextControl(h) \in ControlPsns(h)
  BY <1>3 DEF NextControl
<1> QED BY <1>4 DEF ControlPsns

------------------------------------------------------------------------------
(* The types are kept. *)

(* A step of the program leaves the program alone, and what is made of it. *)
LEMMA SameProgram ==
    ASSUME program' = program
    PROVE  /\ Calls' = Calls
           /\ Chunks' = Chunks
           /\ Sums' = Sums
           /\ Results' = Results
           /\ Messages' = Messages
BY DEF Calls, Chunks, Sums, Results, Messages

(* A step is one of the actions of one host's caller, QP, NIC or thread. *)
Action(h) == \/ Begin(h) \/ Start(h) \/ PollRecv(h) \/ PollSend(h) \/ Return(h)
             \/ Arrive(h)
             \/ HandleControl(h) \/ SetRoot(h) \/ AckControl(h)
             \/ \E psn \in Psns(h) : ReceiveData(h, psn)
             \/ DropData(h) \/ AnswerData(h) \/ AcceptData(h)
             \/ ReadOperation(h) \/ ReadRoot(h) \/ Forward(h) \/ Aggregate(h)
             \/ Cache(h) \/ SendResult(h) \/ SendToRoot(h) \/ Cleanup(h)

LEMMA StepIsAction == ASSUME Next PROVE \E h \in Hosts : Action(h)
BY DEF Next, HostStep, HandlerStep, Action

LEMMA ProgramUnchanged ==
    ASSUME NEW h \in Hosts, Action(h)
    PROVE  program' = program
BY DEF Action, Begin, Start, PollRecv, PollSend, Return, Arrive, HandleControl,
       SetRoot, AckControl, ReceiveData, DropData, AnswerData, AcceptData, ReadOperation, ReadRoot,
       Forward, Aggregate, Cache, SendResult, SendToRoot, Cleanup, callVars

(* Types of the callers' variables, and the lengths of the sequences. *)
LEMMA CallerTypes ==
    ASSUME TypeOK
    PROVE  /\ phase \in [Hosts -> {"start", "ctl", "run"}]
           /\ send_num \in [Hosts -> Nat] /\ receive_num \in [Hosts -> Nat]
           /\ send_complete \in [Hosts -> Nat] /\ polled \in [Hosts -> Nat]
           /\ posted \in [Hosts -> Nat] /\ arrived \in [Hosts -> Nat]
           /\ dropped \in [Hosts -> BOOLEAN]
BY DEF TypeOK

LEMMA SequenceTypes ==
    ASSUME TypeOK
    PROVE  /\ got \in [Hosts -> Seq(Results)]
           /\ sent \in [Hosts -> Seq(Messages)]
           /\ out \in [Hosts -> Seq(Sums)]
           /\ \A h \in Hosts : /\ Len(got[h]) \in Nat
                              /\ Len(sent[h]) \in Nat
                              /\ Len(out[h]) \in Nat
<1>1. /\ got \in [Hosts -> Seq(Results)]
      /\ sent \in [Hosts -> Seq(Messages)]
      /\ out \in [Hosts -> Seq(Sums)]
  BY DEF TypeOK
<1>2. ASSUME NEW h \in Hosts
      PROVE  Len(got[h]) \in Nat /\ Len(sent[h]) \in Nat /\ Len(out[h]) \in Nat
  <2>1. /\ got[h] \in Seq(Results)
        /\ sent[h] \in Seq(Messages)
        /\ out[h] \in Seq(Sums)
    BY <1>1
  <2> QED BY <2>1, LenProperties
<1> QED BY <1>1, <1>2

(* One more data message, if one is left, has the type of a message. *)
LEMMA PostNextType ==
    ASSUME TypeOK, NEW h \in Hosts, InCall(h), PostNext(h)
    PROVE  sent' \in [Hosts -> Seq(Messages)] /\ send_num' \in [Hosts -> Nat]
<1>1. op[h] \in Calls /\ send_num[h] \in Nat
  BY DEF TypeOK, InCall
<1>2. CASE send_num[h] < message_num(h)
  <2>1. send_num[h] + 1 \in 1 .. program[op[h]].len
    BY <1>1, <1>2, ProgramCalls DEF message_num, Call
  <2>2. Data(op[h], send_num[h] + 1) \in Messages
    BY <1>1, <2>1, ProgramCalls, MessageTypes
  <2>3. sent \in [Hosts -> Seq(Messages)] /\ send_num \in [Hosts -> Nat]
    BY DEF TypeOK
  <2>4. send_num' = [send_num EXCEPT ![h] = send_num[h] + 1]
    BY <1>2 DEF PostNext
  <2>5. sent' = [sent EXCEPT ![h] =
                    Append(@, Data(op[h], send_num[h] + 1))]
    BY <1>2 DEF PostNext
  <2>6. sent' \in [Hosts -> Seq(Messages)]
    BY <2>2, <2>3, <2>5, AppendOne
  <2>7. send_num' \in [Hosts -> Nat]
    BY <1>1, <2>3, <2>4
  <2> QED BY <2>6, <2>7
<1>3. CASE ~ (send_num[h] < message_num(h))
  BY <1>3 DEF PostNext, TypeOK
<1> QED BY <1>2, <1>3

(* The steps of a host. *)
LEMMA HostTypes ==
    ASSUME IInv, NEW h \in Hosts,
           \/ Begin(h) \/ Start(h) \/ PollRecv(h) \/ PollSend(h) \/ Return(h)
           \/ Arrive(h)
    PROVE  TypeOK'
<1>1. TypeOK /\ CallInv(h)
  BY DEF IInv
<1>2. program' = program
  BY ProgramUnchanged DEF Action
<1>3. Calls' = Calls /\ Chunks' = Chunks /\ Sums' = Sums
  BY <1>2, SameProgram
<1>4. Results' = Results /\ Messages' = Messages
  BY <1>2, SameProgram
<1>5. InCall(h) => /\ op[h] \in Calls
                  /\ message_num(h) \in Nat \ {0}
                  /\ \A k \in 1 .. message_num(h) : <<op[h], k>> \in Chunks
  BY <1>1, ProgramCalls DEF InCall, message_num, Call
<1>6. CASE Begin(h)
  <2>1. Control(op[h]) \in Messages
    BY <1>5, <1>6, MessageTypes DEF Begin
  <2>2. sent' \in [Hosts -> Seq(Messages)]
    <3>1. sent \in [Hosts -> Seq(Messages)]
      BY <1>1 DEF TypeOK
    <3>2. CASE Sends(h)
      <4>1. sent' = [sent EXCEPT ![h] = Append(@, Control(op[h]))]
        BY <1>6, <3>2 DEF Begin
      <4> QED BY <2>1, <3>1, <4>1, AppendOne
    <3>3. CASE ~ Sends(h)
      BY <1>6, <3>1, <3>3 DEF Begin
    <3> QED BY <3>2, <3>3
  <2>3. /\ posted' \in [Hosts -> Nat]
        /\ phase' \in [Hosts -> {"start", "ctl", "run"}]
    <3>1. /\ posted \in [Hosts -> Nat] /\ message_num(h) \in Nat
          /\ phase \in [Hosts -> {"start", "ctl", "run"}]
      BY <1>1, <1>5, <1>6, CallerTypes DEF Begin
    <3>2. CASE Sends(h)
      BY <1>6, <3>1, <3>2 DEF Begin
    <3>3. CASE ~ Sends(h)
      BY <1>6, <3>1, <3>3 DEF Begin
    <3> QED BY <3>2, <3>3
  <2> QED BY <1>1, <1>3, <1>4, <1>6, <2>2, <2>3
          DEF TypeOK, Begin, nicVars, switchVars, metaVars, slotVars, handlerVars
<1>7. CASE Start(h)
  <2> DEFINE window == Min({Window, message_num(h)})
             posts == [k \in 1 .. window |-> Data(op[h], k)]
  <2>1. InCall(h)
    BY <1>1, <1>7 DEF CallInv, Start
  <2>2. window \in Nat /\ window <= message_num(h)
    BY <1>5, <2>1, MinOfTwo, SizesAssumption
  <2>3. posts \in Seq(Messages)
    <3>1. ASSUME NEW k \in 1 .. window
          PROVE  Data(op[h], k) \in Messages
      <4>1. k \in 1 .. message_num(h)
        BY <1>5, <2>1, <2>2
      <4> QED BY <1>5, <2>1, <4>1, MessageTypes
    <3> HIDE DEF window
    <3> QED BY <2>2, <3>1
  <2>4. sent' \in [Hosts -> Seq(Messages)]
    <3>1. sent \in [Hosts -> Seq(Messages)]
      BY <1>1 DEF TypeOK
    <3>2. sent' = [sent EXCEPT ![h] = @ \o posts]
      BY <1>7 DEF Start
    <3>3. sent[h] \o posts \in Seq(Messages)
      BY <2>3, <3>1
    <3> QED BY <3>1, <3>2, <3>3, ChangeOne
  <2>5. send_num' \in [Hosts -> Nat]
    BY <1>1, <1>7, <2>2, CallerTypes DEF Start
  <2>6. ReceivesPosted(h) \in Nat
    BY <1>5, <2>1 DEF ReceivesPosted
  <2>7. /\ polled' \in [Hosts -> Nat]
        /\ posted' \in [Hosts -> Nat]
        /\ phase' \in [Hosts -> {"start", "ctl", "run"}]
    BY <1>1, <1>7, <2>6, CallerTypes DEF Start
  <2> QED BY <1>1, <1>3, <1>4, <1>7, <2>4, <2>5, <2>7
          DEF TypeOK, Start, nicVars, switchVars, metaVars, slotVars, handlerVars
<1>8. CASE PollRecv(h)
  <2> DEFINE result == [chunk |-> <<op[h], receive_num[h] + 1>>,
                        sum   |-> out[h][Len(got[h]) + 1]]
  <2>1. InCall(h) /\ Receives(h) /\ phase[h] = "run"
    BY <1>8 DEF PollRecv
  <2>2. /\ Len(got[h]) \in Nat /\ posted[h] \in Nat /\ arrived[h] \in Nat
        /\ receive_num[h] \in Nat /\ Len(out[h]) \in Nat
    BY <1>1, CallerTypes, SequenceTypes
  <2>3. Len(got[h]) < arrived[h] /\ arrived[h] <= Len(out[h])
    BY <1>1, <1>8 DEF PollRecv, CallInv
  <2>4. receive_num[h] + 1 \in 1 .. message_num(h)
    <3>1. posted[h] - Len(got[h]) = message_num(h) - receive_num[h]
      BY <1>1, <2>1 DEF CallInv, Unused
    <3>2. arrived[h] <= posted[h] /\ message_num(h) \in Nat
      BY <1>1, <1>5, <2>1 DEF CallInv
    <3>3. \A taken, asked, come, r, m \in Nat :
             /\ taken < come /\ come <= asked
             /\ asked - taken = m - r
             => r + 1 \in 1 .. m
      OBVIOUS
    <3> QED BY <2>2, <2>3, <3>1, <3>2, <3>3
  <2>5. out[h][Len(got[h]) + 1] \in Sums
    <3>1. out[h] \in Seq(Sums)
      BY <1>1, SequenceTypes
    <3>2. Len(got[h]) + 1 \in 1 .. Len(out[h])
      BY <2>2, <2>3
    <3> QED BY <3>1, <3>2
  <2>6. result \in Results
    BY <1>5, <2>1, <2>4, <2>5 DEF Results
  <2>7. got' \in [Hosts -> Seq(Results)]
    <3>1. got \in [Hosts -> Seq(Results)]
      BY <1>1 DEF TypeOK
    <3>2. got' = [got EXCEPT ![h] = Append(@, result)]
      BY <1>8, <3>1 DEF PollRecv
    <3> QED BY <2>6, <3>1, <3>2, AppendOne
  <2>8. sent' \in [Hosts -> Seq(Messages)] /\ send_num' \in [Hosts -> Nat]
    BY <1>1, <1>8, <2>1, PostNextType, CallerTypes, SequenceTypes DEF PollRecv
  <2>9. receive_num' \in [Hosts -> Nat]
    BY <1>1, <1>8, CallerTypes DEF PollRecv
  <2> QED BY <1>1, <1>3, <1>4, <1>8, <2>7, <2>8, <2>9
          DEF TypeOK, PollRecv, nicVars, switchVars, metaVars, slotVars,
              handlerVars
<1>9. CASE PollSend(h)
  <2>1. InCall(h)
    BY <1>9 DEF PollSend
  <2>2. sent' \in [Hosts -> Seq(Messages)] /\ send_num' \in [Hosts -> Nat]
    BY <1>1, <1>9, <2>1, PostNextType, CallerTypes, SequenceTypes DEF PollSend
  <2>3. polled' \in [Hosts -> Nat] /\ send_complete' \in [Hosts -> Nat]
    BY <1>1, <1>9, CallerTypes DEF PollSend
  <2> QED BY <1>1, <1>3, <1>4, <1>9, <2>2, <2>3
          DEF TypeOK, PollSend, nicVars, switchVars, metaVars, slotVars,
              handlerVars
<1>10. CASE Return(h)
  <2>1. op' \in [Hosts -> 1 .. Len(program) + 1]
    <3>1. op \in [Hosts -> 1 .. Len(program) + 1] /\ op[h] \in 1 .. Len(program)
      BY <1>1, <1>10 DEF Return, TypeOK, InCall, Calls
    <3>2. Len(program) \in Nat
      BY <1>1, ProgramCalls
    <3>3. op[h] + 1 \in 1 .. Len(program) + 1
      BY <3>1, <3>2
    <3> QED BY <1>10, <3>1, <3>3 DEF Return
  <2>2. /\ phase' \in [Hosts -> {"start", "ctl", "run"}]
        /\ send_num' \in [Hosts -> Nat] /\ receive_num' \in [Hosts -> Nat]
        /\ send_complete' \in [Hosts -> Nat]
    BY <1>1, <1>10, CallerTypes DEF Return
  <2> QED BY <1>1, <1>2, <1>3, <1>4, <1>10, <2>1, <2>2
          DEF TypeOK, Return, qpVars, nicVars, switchVars, metaVars, slotVars,
              handlerVars
<1>11. CASE Arrive(h)
  <2>1. arrived' \in [Hosts -> Nat] /\ dropped' \in [Hosts -> BOOLEAN]
    <3>1. arrived \in [Hosts -> Nat] /\ dropped \in [Hosts -> BOOLEAN]
      BY <1>1, CallerTypes
    <3>2. CASE arrived[h] < posted[h]
      BY <1>11, <3>1, <3>2 DEF Arrive
    <3>3. CASE ~ (arrived[h] < posted[h])
      BY <1>11, <3>1, <3>3 DEF Arrive
    <3> QED BY <3>2, <3>3
  <2> QED BY <1>1, <1>3, <1>4, <1>11, <2>1
          DEF TypeOK, Arrive, callVars, qpVars, switchVars, metaVars, slotVars,
              handlerVars
<1> QED BY <1>6, <1>7, <1>8, <1>9, <1>10, <1>11

(* Types of the switch's variables. *)
PCs == {"idle", "meta", "control", "lookup", "accepted", "typed", "forward",
        "aggregate", "cache", "send", "reduce", "cleanup"}

LEMMA SwitchTypes ==
    ASSUME TypeOK
    PROVE  /\ agg_epsn \in [Hosts -> Nat] /\ acked \in [Hosts -> Nat]
           /\ operation_type \in Primitives /\ root_rank \in Hosts \union {-1}
           /\ degree \in [Slots -> Nat] /\ arrival \in [Slots -> SUBSET Hosts]
           /\ agg_buffer \in [Slots -> Sums] /\ bcast_buffer \in [Slots -> Sums]
           /\ pc \in [Hosts -> PCs] /\ cur \in [Hosts -> Nat]
           /\ prim \in [Hosts -> Primitives]
           /\ param \in [Hosts -> Hosts \union {-1}]
           /\ out_conns \in [Hosts -> SUBSET Hosts]
           /\ todo \in [Hosts -> SUBSET Hosts]
           /\ ctl \in [Hosts -> Nat] /\ out \in [Hosts -> Seq(Sums)]
BY DEF TypeOK, PCs

(* The steps of packet_handler, up to the aggregation. *)
LEMMA PacketTypes ==
    ASSUME IInv, NEW h \in Hosts,
           \/ HandleControl(h) \/ SetRoot(h) \/ AckControl(h)
           \/ \E psn \in Psns(h) : ReceiveData(h, psn)
           \/ DropData(h) \/ AnswerData(h) \/ AcceptData(h)
    PROVE  TypeOK'
<1>1. TypeOK
  BY DEF IInv
<1>2. program' = program
  BY ProgramUnchanged DEF Action
<1>3. Calls' = Calls /\ Chunks' = Chunks /\ Sums' = Sums
  BY <1>2, SameProgram
<1>4. Results' = Results /\ Messages' = Messages
  BY <1>2, SameProgram
<1>5. CASE HandleControl(h)
  <2> DEFINE psn == NextControl(h)
             call == program[Message(h, psn).call]
  <2>1. psn \in Psns(h)
    BY <1>1, <1>5, NextControlType DEF HandleControl
  <2>2. psn \in Nat
    <3>1. Len(sent[h]) \in Nat
      BY <1>1, SequenceTypes
    <3> QED BY <2>1, <3>1 DEF Psns
  <2>3. call.prim \in Primitives /\ call.root \in Hosts \union {-1}
    <3>1. Message(h, psn).call \in Calls
      BY <1>1, <2>1, PostedMessage
    <3> HIDE DEF psn
    <3> QED BY <1>1, <3>1, ProgramCalls
  <2>4. /\ cur' = [cur EXCEPT ![h] = psn]
        /\ prim' = [prim EXCEPT ![h] = call.prim]
        /\ param' = [param EXCEPT ![h] = call.root]
        /\ operation_type' = call.prim
        /\ pc' = [pc EXCEPT ![h] = "meta"]
    BY <1>5 DEF HandleControl
  <2>5. /\ cur' \in [Hosts -> Nat] /\ prim' \in [Hosts -> Primitives]
        /\ param' \in [Hosts -> Hosts \union {-1}]
        /\ operation_type' \in Primitives /\ pc' \in [Hosts -> PCs]
    <3> HIDE DEF psn, call
    <3> QED BY <1>1, <2>2, <2>3, <2>4, SwitchTypes DEF PCs
  <2> QED BY <1>1, <1>3, <1>4, <1>5, <2>5
          DEF TypeOK, HandleControl, callVars, qpVars, nicVars, slotVars, PCs
<1>10. CASE SetRoot(h)
  <2>1. root_rank' \in Hosts \union {-1} /\ pc' \in [Hosts -> PCs]
    BY <1>1, <1>10, SwitchTypes DEF SetRoot, PCs
  <2> QED BY <1>1, <1>3, <1>4, <1>10, <2>1
          DEF TypeOK, SetRoot, callVars, qpVars, nicVars, slotVars, handlerVars,
              PCs
<1>11. CASE AckControl(h)
  <2>1. /\ agg_epsn \in [Hosts -> Nat] /\ ctl \in [Hosts -> Nat]
        /\ acked \in [Hosts -> Nat] /\ cur[h] + 1 \in Nat
    BY <1>1, SwitchTypes
  <2>2. Acked(h, cur[h] + 1) \in [Hosts -> Nat]
    BY <1>1, <2>1, AckType
  <2>3. /\ acked' \in [Hosts -> Nat] /\ agg_epsn' \in [Hosts -> Nat]
        /\ ctl' \in [Hosts -> Nat]
    <3>1. CASE HasRule(h, prim[h], param[h])
      BY <1>11, <2>1, <2>2, <3>1 DEF AckControl
    <3>2. CASE ~ HasRule(h, prim[h], param[h])
      BY <1>11, <2>1, <3>2 DEF AckControl
    <3> QED BY <3>1, <3>2
  <2>4. pc' \in [Hosts -> PCs]
    BY <1>1, <1>11, SwitchTypes DEF AckControl, PCs
  <2> QED BY <1>1, <1>3, <1>4, <1>11, <2>3, <2>4
          DEF TypeOK, AckControl, callVars, qpVars, nicVars, metaVars, slotVars,
              handlerVars, PCs
<1>6. CASE \E psn \in Psns(h) : ReceiveData(h, psn)
  <2>1. PICK psn \in Psns(h) : ReceiveData(h, psn)
    BY <1>6
  <2>2. psn \in Nat
    BY <1>1, SequenceTypes DEF Psns
  <2>3. /\ cur' \in [Hosts -> Nat] /\ prim' \in [Hosts -> Primitives]
        /\ pc' \in [Hosts -> PCs]
    BY <1>1, <2>1, <2>2, SwitchTypes DEF ReceiveData, PCs
  <2> QED BY <1>1, <1>3, <1>4, <2>1, <2>3
          DEF TypeOK, ReceiveData, callVars, qpVars, nicVars, metaVars, slotVars,
              PCs
<1>7. CASE DropData(h)
  <2>1. pc' \in [Hosts -> PCs]
    BY <1>1, <1>7, SwitchTypes DEF DropData, PCs
  <2> QED BY <1>1, <1>3, <1>4, <1>7, <2>1
          DEF TypeOK, DropData, callVars, qpVars, nicVars, metaVars, slotVars,
              handlerVars, PCs
<1>8. CASE AnswerData(h)
  <2>1. acked' \in [Hosts -> Nat]
    <3>1. acked' = Acked(h, agg_epsn[h]) \/ acked' = acked
      BY <1>8 DEF AnswerData
    <3>2. agg_epsn[h] \in Nat /\ acked \in [Hosts -> Nat]
      BY <1>1, SwitchTypes
    <3>3. Acked(h, agg_epsn[h]) \in [Hosts -> Nat]
      BY <1>1, <3>2, AckType
    <3> QED BY <3>1, <3>2, <3>3
  <2>2. pc' \in [Hosts -> PCs]
    BY <1>1, <1>8, SwitchTypes DEF AnswerData, PCs
  <2> QED BY <1>1, <1>3, <1>4, <1>8, <2>1, <2>2
          DEF TypeOK, AnswerData, callVars, qpVars, nicVars, metaVars, slotVars,
              handlerVars, PCs
<1>9. CASE AcceptData(h)
  <2>1. acked' \in [Hosts -> Nat]
    <3>1. acked' = Acked(h, agg_epsn[h] + 1) \/ acked' = acked
      BY <1>9 DEF AcceptData
    <3>2. agg_epsn[h] + 1 \in Nat /\ acked \in [Hosts -> Nat]
      BY <1>1, SwitchTypes
    <3>3. Acked(h, agg_epsn[h] + 1) \in [Hosts -> Nat]
      BY <1>1, <3>2, AckType
    <3> QED BY <3>1, <3>2, <3>3
  <2>2. OutConns(prim[h], root_rank) \in SUBSET Hosts
    BY <1>1, <1>9, SwitchTypes, RuleConns DEF AcceptData
  <2>3. out_conns' \in [Hosts -> SUBSET Hosts]
    BY <1>1, <1>9, <2>2, SwitchTypes, ChangeOne DEF AcceptData
  <2>4. agg_epsn' \in [Hosts -> Nat] /\ pc' \in [Hosts -> PCs]
    BY <1>1, <1>9, SwitchTypes DEF AcceptData, PCs
  <2> QED BY <1>1, <1>3, <1>4, <1>9, <2>1, <2>3, <2>4
          DEF TypeOK, AcceptData, callVars, qpVars, nicVars, metaVars, slotVars,
              PCs
<1> QED BY <1>5, <1>6, <1>7, <1>8, <1>9, <1>10, <1>11

(* The steps of aggregate(). *)
LEMMA AggregateTypes ==
    ASSUME IInv, NEW h \in Hosts,
           \/ ReadOperation(h) \/ ReadRoot(h) \/ Forward(h) \/ Aggregate(h)
           \/ Cache(h) \/ SendResult(h) \/ SendToRoot(h) \/ Cleanup(h)
    PROVE  TypeOK'
<1> DEFINE i == Idx(cur[h])
           chunk == Message(h, cur[h]).chunk
<1>1. TypeOK /\ HandlerInv(h)
  BY DEF IInv
<1>2. program' = program
  BY ProgramUnchanged DEF Action
<1>3. Calls' = Calls /\ Chunks' = Chunks /\ Sums' = Sums
  BY <1>2, SameProgram
<1>4. Results' = Results /\ Messages' = Messages
  BY <1>2, SameProgram
<1>5. i \in Slots
  BY <1>1, SwitchTypes, IdxInSlots
<1>6. pc[h] \notin {"idle", "meta", "control"} => chunk \in Chunks
  BY <1>1, PostedMessage DEF HandlerInv
<1>7. CASE ReadOperation(h)
  <2>1. prim' \in [Hosts -> Primitives] /\ pc' \in [Hosts -> PCs]
    BY <1>1, <1>7, SwitchTypes DEF ReadOperation, PCs
  <2> QED BY <1>1, <1>3, <1>4, <1>7, <2>1
          DEF TypeOK, ReadOperation, callVars, qpVars, nicVars, metaVars,
              slotVars, PCs
<1>8. CASE ReadRoot(h)
  <2>1. param' \in [Hosts -> Hosts \union {-1}]
    BY <1>1, <1>8, SwitchTypes DEF ReadRoot
  <2>2. todo' \in [Hosts -> SUBSET Hosts] /\ pc' \in [Hosts -> PCs]
    <3>1. todo \in [Hosts -> SUBSET Hosts] /\ pc \in [Hosts -> PCs]
      BY <1>1, SwitchTypes
    <3>2. CASE prim[h] = "broadcast"
      BY <1>8, <3>1, <3>2 DEF ReadRoot, PCs
    <3>3. CASE prim[h] # "broadcast"
      BY <1>8, <3>1, <3>3 DEF ReadRoot, PCs
    <3> QED BY <3>2, <3>3
  <2> QED BY <1>1, <1>3, <1>4, <1>8, <2>1, <2>2
          DEF TypeOK, ReadRoot, callVars, qpVars, nicVars, metaVars, slotVars, PCs
<1>9. CASE Forward(h)
  <2>1. From(h, chunk) \in Sums
    BY <1>6, <1>9, SumTypes DEF Forward
  <2>2. out' \in [Hosts -> Seq(Sums)]
    <3>1. out' = [out EXCEPT ![Min(todo[h])] = Append(@, From(h, chunk))]
      BY <1>9 DEF Forward
    <3>2. out \in [Hosts -> Seq(Sums)]
      BY <1>1, SwitchTypes
    <3> HIDE DEF chunk
    <3> QED BY <2>1, <3>1, <3>2, AppendOne
  <2>3. todo' \in [Hosts -> SUBSET Hosts] /\ pc' \in [Hosts -> PCs]
    BY <1>1, <1>9, SwitchTypes DEF Forward, PCs
  <2> QED BY <1>1, <1>3, <1>4, <1>9, <2>2, <2>3
          DEF TypeOK, Forward, callVars, qpVars, nicVars, metaVars, slotVars,
              handlerVars, PCs
<1>10. CASE Aggregate(h)
  <2>1. Summed(h) \in Sums
    <3> DEFINE base == IF degree[i] = 0 THEN NoData ELSE agg_buffer[i]
    <3>1. chunk \in Chunks
      BY <1>6, <1>10 DEF Aggregate
    <3>2. base \in Sums
      BY <1>1, <1>5, <3>1, SwitchTypes, SumTypes
    <3>3. Summed(h) = [base EXCEPT ![h] = Append(@, chunk)]
      BY DEF Summed
    <3> HIDE DEF base, chunk
    <3> QED BY <3>1, <3>2, <3>3, SumTypes
  <2>2. agg_buffer' \in [Slots -> Sums]
    BY <1>1, <1>10, <2>1, SwitchTypes, ChangeOne DEF Aggregate
  <2>3. arrival' \in [Slots -> SUBSET Hosts] /\ degree' \in [Slots -> Nat]
    BY <1>1, <1>5, <1>10, SwitchTypes DEF Aggregate
  <2>4. Completion(h) \in PCs
    <3>1. prim[h] \in {"allreduce", "reduce"}
      BY <1>1, <1>10, SwitchTypes DEF Aggregate, HandlerInv, Primitives
    <3> QED BY <3>1 DEF Completion, PCs
  <2>5. pc' \in [Hosts -> PCs]
    BY <1>1, <1>10, <2>4, SwitchTypes, ChangeOne DEF Aggregate
  <2> QED BY <1>1, <1>3, <1>4, <1>10, <2>2, <2>3, <2>5
          DEF TypeOK, Aggregate, callVars, qpVars, nicVars, metaVars,
              handlerVars, PCs
<1>11. CASE Cache(h)
  <2>1. /\ bcast_buffer' \in [Slots -> Sums]
        /\ todo' \in [Hosts -> SUBSET Hosts] /\ pc' \in [Hosts -> PCs]
    BY <1>1, <1>5, <1>11, SwitchTypes DEF Cache, PCs
  <2> QED BY <1>1, <1>3, <1>4, <1>11, <2>1
          DEF TypeOK, Cache, callVars, qpVars, nicVars, metaVars, slotVars,
              handlerVars, PCs
<1>12. CASE SendResult(h)
  <2>1. out' \in [Hosts -> Seq(Sums)]
    <3>1. out' = [out EXCEPT ![Min(todo[h])] = Append(@, bcast_buffer[i])]
      BY <1>12 DEF SendResult
    <3>2. bcast_buffer[i] \in Sums
      BY <1>1, <1>5, SwitchTypes
    <3>3. out \in [Hosts -> Seq(Sums)]
      BY <1>1, SwitchTypes
    <3> HIDE DEF i
    <3> QED BY <3>1, <3>2, <3>3, AppendOne
  <2>2. todo' \in [Hosts -> SUBSET Hosts] /\ pc' \in [Hosts -> PCs]
    BY <1>1, <1>12, SwitchTypes DEF SendResult, PCs
  <2> QED BY <1>1, <1>3, <1>4, <1>12, <2>1, <2>2
          DEF TypeOK, SendResult, callVars, qpVars, nicVars, metaVars, slotVars,
              handlerVars, PCs
<1>13. CASE SendToRoot(h)
  <2>1. out' \in [Hosts -> Seq(Sums)]
    <3>1. agg_buffer[i] \in Sums /\ out \in [Hosts -> Seq(Sums)]
      BY <1>1, <1>5, SwitchTypes
    <3>2. \/ \E g : out' = [out EXCEPT ![g] = Append(@, agg_buffer[i])]
          \/ out' = out
      BY <1>13 DEF SendToRoot
    <3> HIDE DEF i
    <3>3. ASSUME NEW g, out' = [out EXCEPT ![g] = Append(@, agg_buffer[i])]
          PROVE  out' \in [Hosts -> Seq(Sums)]
      BY <3>1, <3>3, AppendOne
    <3> QED BY <3>1, <3>2, <3>3
  <2>2. pc' \in [Hosts -> PCs]
    BY <1>1, <1>13, SwitchTypes DEF SendToRoot, PCs
  <2> QED BY <1>1, <1>3, <1>4, <1>13, <2>1, <2>2
          DEF TypeOK, SendToRoot, callVars, qpVars, nicVars, metaVars, slotVars,
              handlerVars, PCs
<1>14. CASE Cleanup(h)
  <2>1. /\ degree' \in [Slots -> Nat] /\ arrival' \in [Slots -> SUBSET Hosts]
        /\ pc' \in [Hosts -> PCs]
    BY <1>1, <1>14, SwitchTypes DEF Cleanup, PCs
  <2> QED BY <1>1, <1>3, <1>4, <1>14, <2>1
          DEF TypeOK, Cleanup, callVars, qpVars, nicVars, metaVars, handlerVars,
              PCs
<1> QED BY <1>7, <1>8, <1>9, <1>10, <1>11, <1>12, <1>13, <1>14

LEMMA TypeStep ==
    ASSUME IInv, NEW h \in Hosts, Action(h)
    PROVE  TypeOK'
BY HostTypes, PacketTypes, AggregateTypes DEF Action

------------------------------------------------------------------------------
(* The calls. *)

(* Nothing sent to a host is taken back. *)
LEMMA OutGrows ==
    ASSUME TypeOK, NEW h \in Hosts, Action(h), NEW g \in Hosts
    PROVE  Len(out[g]) <= Len(out'[g])
<1>1. out \in [Hosts -> Seq(Sums)] /\ Len(out[g]) \in Nat
  BY SequenceTypes
<1>2. ASSUME NEW x, NEW e, out' = [out EXCEPT ![x] = Append(@, e)]
      PROVE  Len(out[g]) <= Len(out'[g])
  <2>1. CASE x = g
    <3>1. out'[g] = Append(out[g], e)
      BY <1>1, <1>2, <2>1
    <3>2. Len(Append(out[g], e)) = Len(out[g]) + 1
      BY <1>1
    <3> QED BY <1>1, <3>1, <3>2
  <2>2. CASE x # g
    BY <1>1, <1>2, <2>2
  <2> QED BY <2>1, <2>2
<1>3. \/ out' = out
      \/ \E x, e : out' = [out EXCEPT ![x] = Append(@, e)]
  <2>1. CASE Forward(h)
    BY <2>1 DEF Forward
  <2>2. CASE SendResult(h)
    BY <2>2 DEF SendResult
  <2>3. CASE SendToRoot(h)
    BY <2>3 DEF SendToRoot
  <2>4. CASE ~ (Forward(h) \/ SendResult(h) \/ SendToRoot(h))
    BY <2>4
       DEF Action, Begin, Start, PollRecv, PollSend, Return, Arrive,
           HandleControl, SetRoot, AckControl, ReceiveData, DropData,
           AnswerData, AcceptData, ReadOperation, ReadRoot, Aggregate, Cache,
           Cleanup, switchVars
  <2> QED BY <2>1, <2>2, <2>3, <2>4
<1>4. out' = out => Len(out[g]) <= Len(out'[g])
  BY <1>1
<1> QED BY <1>2, <1>3, <1>4

(* A host whose call does not move keeps its invariant. *)
LEMMA CallStays ==
    ASSUME NEW g \in Hosts, CallInv(g), program' = program, TypeOK,
           op'[g] = op[g], phase'[g] = phase[g],
           send_num'[g] = send_num[g], receive_num'[g] = receive_num[g],
           posted'[g] = posted[g], got'[g] = got[g],
           arrived'[g] = arrived[g],
           Len(out[g]) <= Len(out'[g]), Len(out'[g]) \in Nat
    PROVE  CallInv(g)'
<1>1. /\ Call(g)' = Call(g) /\ InCall(g)' = InCall(g)
  BY DEF Call, InCall, Calls
<1>2. message_num(g)' = message_num(g) /\ Receives(g)' = Receives(g)
  BY <1>1 DEF message_num, Receives, IsRoot
<1>3. Unused(g)' = Unused(g)
  BY DEF Unused
<1>4. arrived[g] <= Len(out[g]) => arrived'[g] <= Len(out'[g])
  BY CallerTypes, SequenceTypes
<1> QED BY <1>1, <1>2, <1>3, <1>4 DEF CallInv

(* One more data message stays within the call. *)
LEMMA PostNextBound ==
    ASSUME TypeOK, NEW h \in Hosts, InCall(h), PostNext(h),
           send_num[h] <= message_num(h)
    PROVE  send_num'[h] <= message_num(h)
<1>1. send_num \in [Hosts -> Nat] /\ message_num(h) \in Nat
  BY CallerTypes, ProgramCalls DEF message_num, Call, InCall
<1>2. CASE send_num[h] < message_num(h)
  <2>1. send_num' = [send_num EXCEPT ![h] = @ + 1]
    BY <1>2 DEF PostNext
  <2> QED BY <1>1, <1>2, <2>1
<1>3. CASE ~ (send_num[h] < message_num(h))
  BY <1>3 DEF PostNext
<1> QED BY <1>2, <1>3

(* The other hosts' calls do not move; nor does any with a switch step. *)
LEMMA OtherCalls ==
    ASSUME IInv, NEW h \in Hosts, Action(h), NEW g \in Hosts,
           g # h \/ ~ (\/ Begin(h) \/ Start(h) \/ PollRecv(h) \/ PollSend(h)
                      \/ Return(h) \/ Arrive(h))
    PROVE  CallInv(g)'
<1>1. TypeOK /\ CallInv(g) /\ TypeOK' /\ program' = program
  BY TypeStep, ProgramUnchanged DEF IInv
<1>2. Len(out[g]) <= Len(out'[g]) /\ Len(out'[g]) \in Nat
  <2>1. out' \in [Hosts -> Seq(Sums)']
    BY <1>1 DEF TypeOK
  <2>2. out'[g] \in Seq(Sums)'
    BY <2>1
  <2>3. Len(out'[g]) \in Nat
    BY <1>1, SameProgram, <2>2, LenProperties
  <2> QED BY <1>1, <2>3, OutGrows
<1>3. /\ op'[g] = op[g] /\ phase'[g] = phase[g]
      /\ send_num'[g] = send_num[g] /\ receive_num'[g] = receive_num[g]
      /\ posted'[g] = posted[g] /\ got'[g] = got[g]
      /\ arrived'[g] = arrived[g]
  <2>1. CASE g # h /\ (\/ Begin(h) \/ Start(h) \/ PollRecv(h) \/ PollSend(h)
                      \/ Return(h) \/ Arrive(h))
    <3>1. op \in [Hosts -> 1 .. Len(program) + 1]
      BY <1>1 DEF TypeOK
    <3>2. /\ phase \in [Hosts -> {"start", "ctl", "run"}]
          /\ send_num \in [Hosts -> Nat] /\ receive_num \in [Hosts -> Nat]
          /\ posted \in [Hosts -> Nat] /\ arrived \in [Hosts -> Nat]
          /\ got \in [Hosts -> Seq(Results)]
      BY <1>1, CallerTypes, SequenceTypes
    <3>3. CASE Begin(h)
      BY <2>1, <3>2, <3>3 DEF Begin, nicVars
    <3>4. CASE Start(h)
      BY <2>1, <3>2, <3>4 DEF Start, nicVars
    <3>5. CASE PollRecv(h)
      BY <2>1, <3>2, <3>5 DEF PollRecv, PostNext, nicVars
    <3>6. CASE PollSend(h)
      BY <2>1, <3>2, <3>6 DEF PollSend, PostNext, nicVars
    <3>7. CASE Return(h)
      BY <2>1, <3>1, <3>2, <3>7 DEF Return, qpVars, nicVars
    <3>8. CASE Arrive(h)
      BY <2>1, <3>2, <3>8 DEF Arrive, callVars, qpVars
    <3> QED BY <2>1, <3>3, <3>4, <3>5, <3>6, <3>7, <3>8
  <2>2. CASE ~ (\/ Begin(h) \/ Start(h) \/ PollRecv(h) \/ PollSend(h)
                \/ Return(h) \/ Arrive(h))
    BY <2>2
       DEF Action, HandleControl, SetRoot, AckControl, ReceiveData, DropData,
           AnswerData, AcceptData, ReadOperation, ReadRoot, Forward, Aggregate, Cache, SendResult,
           SendToRoot, Cleanup, callVars, qpVars, nicVars
  <2> QED BY <2>1, <2>2
<1> QED BY <1>1, <1>2, <1>3, CallStays

(* The host's own step. *)
LEMMA OwnCall ==
    ASSUME IInv, NEW h \in Hosts,
           \/ Begin(h) \/ Start(h) \/ PollRecv(h) \/ PollSend(h) \/ Return(h)
           \/ Arrive(h)
    PROVE  CallInv(h)'
<1>1. TypeOK /\ CallInv(h) /\ program' = program
  BY ProgramUnchanged DEF IInv, Action
<1>2. /\ phase \in [Hosts -> {"start", "ctl", "run"}]
      /\ send_num \in [Hosts -> Nat] /\ receive_num \in [Hosts -> Nat]
      /\ posted \in [Hosts -> Nat] /\ arrived \in [Hosts -> Nat]
  BY <1>1, CallerTypes
<1>3. /\ got \in [Hosts -> Seq(Results)] /\ Len(got[h]) \in Nat
      /\ Len(out[h]) \in Nat
  BY <1>1, SequenceTypes
<1>4. InCall(h) => message_num(h) \in Nat /\ Call(h).prim \in Primitives
  BY <1>1, ProgramCalls DEF InCall, message_num, Call
<1>5. op' = op => /\ Call(h)' = Call(h) /\ InCall(h)' = InCall(h)
                  /\ message_num(h)' = message_num(h)
                  /\ Receives(h)' = Receives(h)
  BY <1>1 DEF Call, InCall, Calls, message_num, Receives, IsRoot
<1>6. CASE Begin(h)
  <2>1. /\ InCall(h) /\ phase[h] = "start" /\ op' = op
        /\ send_num' = send_num /\ receive_num' = receive_num
        /\ got' = got /\ arrived' = arrived /\ out' = out
    BY <1>6 DEF Begin, nicVars, switchVars
  <2>2. /\ send_num[h] = 0 /\ receive_num[h] = 0 /\ posted[h] = Len(got[h])
        /\ arrived[h] <= posted[h] /\ arrived[h] <= Len(out[h])
    BY <1>1, <1>2, <1>3, <2>1 DEF CallInv, Unused
  <2>3. CASE Sends(h)
    <3>1. phase'[h] = "ctl" /\ posted' = posted
      BY <1>2, <1>6, <2>3 DEF Begin
    <3> QED BY <1>2, <1>3, <1>5, <2>1, <2>2, <3>1 DEF CallInv, Unused
  <2>4. CASE ~ Sends(h)
    <3>1. phase'[h] = "run" /\ posted'[h] = posted[h] + message_num(h)
      BY <1>2, <1>6, <2>4 DEF Begin
    <3>2. Receives(h)
      BY <1>4, <2>1, <2>4 DEF Sends, Receives, Primitives
    <3> QED BY <1>2, <1>3, <1>4, <1>5, <2>1, <2>2, <3>1, <3>2 DEF CallInv, Unused
  <2> QED BY <2>3, <2>4
<1>7. CASE Start(h)
  <2>1. /\ InCall(h) /\ phase[h] = "ctl" /\ op' = op
        /\ receive_num' = receive_num
        /\ got' = got /\ arrived' = arrived /\ out' = out
    BY <1>1, <1>7 DEF Start, nicVars, switchVars, CallInv
  <2>2. /\ receive_num[h] = 0 /\ posted[h] = Len(got[h])
        /\ arrived[h] <= posted[h] /\ arrived[h] <= Len(out[h])
    BY <1>1, <1>2, <1>3, <2>1 DEF CallInv, Unused
  <2>3. send_num'[h] <= message_num(h)
    <3>1. send_num'[h] = Min({Window, message_num(h)})
      BY <1>2, <1>7 DEF Start
    <3>2. Window \in Nat
      BY SizesAssumption
    <3> QED BY <1>4, <2>1, <3>1, <3>2, MinOfTwo
  <2>4. /\ phase'[h] = "run"
        /\ posted'[h] = posted[h] + ReceivesPosted(h)
    BY <1>2, <1>7 DEF Start
  <2>5. ReceivesPosted(h) = IF Receives(h) THEN message_num(h) ELSE 0
    BY DEF ReceivesPosted
  <2>6. /\ Unused(h)' = IF Receives(h) THEN message_num(h) ELSE 0
        /\ arrived[h] <= posted'[h]
    BY <1>2, <1>3, <1>4, <2>1, <2>2, <2>4, <2>5 DEF Unused
  <2> QED BY <1>4, <1>5, <2>1, <2>2, <2>3, <2>4, <2>6 DEF CallInv
<1>8. CASE PollRecv(h)
  <2>1. /\ InCall(h) /\ phase[h] = "run" /\ op' = op /\ Receives(h)
        /\ phase' = phase /\ posted' = posted
        /\ arrived' = arrived /\ out' = out
    BY <1>8 DEF PollRecv, nicVars, switchVars
  <2>2. /\ posted[h] - Len(got[h]) = message_num(h) - receive_num[h]
        /\ arrived[h] <= posted[h] /\ arrived[h] <= Len(out[h])
        /\ send_num[h] <= message_num(h)
    BY <1>1, <2>1 DEF CallInv, Unused
  <2>3. Len(got[h]) < arrived[h] /\ receive_num'[h] = receive_num[h] + 1
    BY <1>2, <1>8 DEF PollRecv
  <2>4. Len(got'[h]) = Len(got[h]) + 1
    <3>1. \E e : got'[h] = Append(got[h], e)
      BY <1>3, <1>8 DEF PollRecv
    <3>2. got[h] \in Seq(Results)
      BY <1>3
    <3> QED BY <3>1, <3>2
  <2>5. send_num'[h] <= message_num(h)
    BY <1>1, <1>8, <2>1, <2>2, PostNextBound DEF PollRecv
  <2>6. /\ posted[h] - Len(got'[h]) = message_num(h) - receive_num'[h]
        /\ receive_num'[h] <= message_num(h)
    <3> DEFINE taken == Len(got[h])
               m == message_num(h)
    <3>1. taken \in Nat /\ m \in Nat
      BY <1>3, <1>4, <2>1
    <3>2. Len(got'[h]) = taken + 1 /\ taken < arrived[h]
      BY <2>3, <2>4
    <3>3. posted[h] - taken = m - receive_num[h]
      BY <2>2
    <3> HIDE DEF taken
    <3>4. \A a, p, r \in Nat :
             taken < a /\ a <= p /\ p - taken = m - r
             => p - (taken + 1) = m - (r + 1) /\ r + 1 <= m
      <4> HIDE DEF m
      <4> QED BY <3>1
    <3> QED BY <1>2, <2>2, <2>3, <3>2, <3>3, <3>4
  <2> QED BY <1>5, <2>1, <2>2, <2>5, <2>6 DEF CallInv, Unused
<1>9. CASE PollSend(h)
  <2>1. /\ InCall(h) /\ phase[h] = "run" /\ op' = op
        /\ phase' = phase /\ posted' = posted /\ receive_num' = receive_num
        /\ got' = got /\ arrived' = arrived /\ out' = out
    BY <1>9 DEF PollSend, nicVars, switchVars
  <2>2. send_num[h] <= message_num(h)
    BY <1>1, <2>1 DEF CallInv
  <2>3. send_num'[h] <= message_num(h)
    BY <1>1, <1>9, <2>1, <2>2, PostNextBound DEF PollSend
  <2> QED BY <1>1, <1>5, <2>1, <2>3 DEF CallInv, Unused
<1>10. CASE Return(h)
  <2>1. /\ InCall(h) /\ phase[h] = "run" /\ posted' = posted
        /\ got' = got /\ arrived' = arrived /\ out' = out
    BY <1>10 DEF Return, qpVars, nicVars, switchVars
  <2>2. phase'[h] = "start" /\ send_num'[h] = 0 /\ receive_num'[h] = 0
    BY <1>2, <1>10 DEF Return
  <2>3. Unused(h) = 0
    <3>1. CASE Receives(h)
      <4>1. receive_num[h] = message_num(h)
        BY <1>10, <3>1 DEF Return, Complete
      <4> QED BY <1>1, <1>4, <2>1, <3>1, <4>1 DEF CallInv
    <3>2. CASE ~ Receives(h)
      BY <1>1, <3>2 DEF CallInv
    <3> QED BY <3>1, <3>2
  <2> QED BY <1>1, <2>1, <2>2, <2>3 DEF CallInv, Unused
<1>11. CASE Arrive(h)
  <2>1. /\ op' = op /\ phase' = phase /\ posted' = posted
        /\ receive_num' = receive_num /\ send_num' = send_num
        /\ got' = got /\ out' = out
    BY <1>11 DEF Arrive, callVars, qpVars, switchVars
  <2>2. arrived'[h] <= posted[h] /\ arrived'[h] <= Len(out[h])
    <3>1. CASE arrived[h] < posted[h]
      BY <1>2, <1>3, <1>11, <3>1 DEF Arrive
    <3>2. CASE ~ (arrived[h] < posted[h])
      BY <1>1, <1>11, <3>2 DEF Arrive, CallInv
    <3> QED BY <3>1, <3>2
  <2> QED BY <1>1, <1>5, <2>1, <2>2 DEF CallInv, Unused
<1> QED BY <1>6, <1>7, <1>8, <1>9, <1>10, <1>11

LEMMA CallStep ==
    ASSUME IInv, NEW h \in Hosts, Action(h), NEW g \in Hosts
    PROVE  CallInv(g)'
BY OtherCalls, OwnCall

------------------------------------------------------------------------------
(* The handlers. *)

(* What a host has posted stays posted, under its PSN. *)
LEMMA SentGrows ==
    ASSUME IInv, NEW h \in Hosts, Action(h), NEW g \in Hosts,
           NEW psn \in Psns(g)
    PROVE  psn \in Psns(g)' /\ sent'[g][psn + 1] = sent[g][psn + 1]
<1>1. TypeOK
  BY DEF IInv
<1>2. /\ sent \in [Hosts -> Seq(Messages)] /\ sent[g] \in Seq(Messages)
      /\ Len(sent[g]) \in Nat /\ psn + 1 \in 1 .. Len(sent[g])
  BY <1>1, SequenceTypes DEF Psns
<1>3. CASE sent' = sent
  BY <1>3 DEF Psns, Message
<1>4. ASSUME NEW s \in Seq(Messages),
             sent' = [sent EXCEPT ![h] = sent[h] \o s]
      PROVE  psn \in Psns(g)' /\ sent'[g][psn + 1] = sent[g][psn + 1]
  <2>1. CASE g = h
    <3>1. sent'[g] = sent[g] \o s
      BY <1>2, <1>4, <2>1
    <3>2. /\ Len(sent'[g]) = Len(sent[g]) + Len(s) /\ Len(s) \in Nat
          /\ sent'[g][psn + 1] = sent[g][psn + 1]
      BY <1>2, <3>1
    <3> QED BY <1>2, <3>2 DEF Psns, Message
  <2>2. CASE g # h
    <3>1. sent'[g] = sent[g]
      BY <1>2, <1>4, <2>2
    <3> QED BY <3>1 DEF Psns, Message
  <2> QED BY <2>1, <2>2
<1>5. ASSUME NEW e \in Messages, sent' = [sent EXCEPT ![h] = Append(@, e)]
      PROVE  psn \in Psns(g)' /\ sent'[g][psn + 1] = sent[g][psn + 1]
  <2>1. sent[h] \in Seq(Messages)
    BY <1>2
  <2>2. Append(sent[h], e) = sent[h] \o <<e>> /\ <<e>> \in Seq(Messages)
    BY <2>1
  <2>3. sent' = [sent EXCEPT ![h] = sent[h] \o <<e>>]
    BY <1>5, <2>2
  <2> QED BY <1>4, <2>2, <2>3
<1>6. CASE Begin(h)
  <2>1. sent' = sent \/ sent' = [sent EXCEPT ![h] = Append(@, Control(op[h]))]
    BY <1>6 DEF Begin
  <2>2. Control(op[h]) \in Messages
    BY <1>6, MessageTypes DEF Begin, InCall
  <2> QED BY <1>3, <1>5, <2>1, <2>2
<1>7. CASE PollRecv(h) \/ PollSend(h)
  <2>1. InCall(h) /\ (sent' = sent \/ PostNext(h))
    BY <1>7 DEF PollRecv, PollSend
  <2>2. CASE sent' = sent
    BY <1>3, <2>2
  <2>3. CASE PostNext(h) /\ sent' # sent
    <3>1. /\ send_num[h] < message_num(h)
          /\ sent' = [sent EXCEPT ![h] =
                         Append(@, Data(op[h], send_num[h] + 1))]
      BY <2>3 DEF PostNext
    <3>2. op[h] \in Calls /\ send_num[h] \in Nat /\ message_num(h) \in Nat
      BY <1>1, <2>1, CallerTypes, ProgramCalls DEF InCall, message_num, Call
    <3>3. <<op[h], send_num[h] + 1>> \in Chunks
      BY <1>1, <3>1, <3>2, ProgramCalls DEF message_num, Call
    <3>4. Data(op[h], send_num[h] + 1) \in Messages
      BY <3>2, <3>3, MessageTypes
    <3> QED BY <1>5, <3>1, <3>4
  <2> QED BY <2>1, <2>2, <2>3
<1>8. CASE Start(h)
  <2> DEFINE window == Min({Window, message_num(h)})
             posts == [k \in 1 .. window |-> Data(op[h], k)]
  <2>1. op[h] \in Calls /\ message_num(h) \in Nat
    BY <1>1, <1>8, ProgramCalls DEF IInv, CallInv, Start, InCall, message_num, Call
  <2>2. window \in Nat /\ window <= message_num(h)
    BY <2>1, MinOfTwo, SizesAssumption
  <2>3. posts \in Seq(Messages)
    <3>1. ASSUME NEW k \in 1 .. window
          PROVE  Data(op[h], k) \in Messages
      <4>1. k \in 1 .. program[op[h]].len
        BY <2>1, <2>2 DEF message_num, Call
      <4>2. <<op[h], k>> \in Chunks
        BY <1>1, <2>1, <4>1, ProgramCalls
      <4> QED BY <2>1, <4>2, MessageTypes
    <3> HIDE DEF window
    <3> QED BY <2>2, <3>1
  <2>4. sent' = [sent EXCEPT ![h] = sent[h] \o posts]
    BY <1>8 DEF Start
  <2> HIDE DEF posts
  <2> QED BY <1>4, <2>3, <2>4
<1>9. CASE ~ (Begin(h) \/ Start(h) \/ PollRecv(h) \/ PollSend(h))
  <2>1. sent' = sent
    BY <1>9
       DEF Action, Return, Arrive, HandleControl, SetRoot, AckControl,
           ReceiveData, DropData, AnswerData, AcceptData, ReadOperation, ReadRoot, Forward, Aggregate,
           Cache, SendResult, SendToRoot, Cleanup, qpVars
  <2> QED BY <1>3, <2>1
<1> QED BY <1>6, <1>7, <1>8, <1>9

(* A thread has one data packet on its hands from its arrival to the end of *)
(* its handler, and none of a Broadcast gets into a slot.                   *)
LEMMA HandlerStepInv ==
    ASSUME IInv, NEW h \in Hosts, Action(h), NEW g \in Hosts
    PROVE  HandlerInv(g)'
<1> DEFINE Empty == {"idle", "meta", "control"}
<1>1. TypeOK /\ HandlerInv(g)
  BY DEF IInv
<1>2. /\ pc \in [Hosts -> PCs] /\ cur \in [Hosts -> Nat]
      /\ prim \in [Hosts -> Primitives]
  BY <1>1, SwitchTypes
<1>3. ASSUME pc'[g] # "idle" => pc[g] # "idle" /\ cur'[g] = cur[g],
             pc'[g] \notin Empty => pc[g] \notin Empty,
             pc'[g] = "aggregate" => prim'[g] # "broadcast"
      PROVE  HandlerInv(g)'
  <2>1. ASSUME pc'[g] # "idle"
        PROVE  /\ cur'[g] \in Psns(g)'
               /\ sent'[g][cur'[g] + 1] = sent[g][cur[g] + 1]
    <3>1. cur[g] \in Psns(g)
      BY <1>1, <1>3, <2>1 DEF HandlerInv
    <3>2. cur[g] \in Psns(g)' /\ sent'[g][cur[g] + 1] = sent[g][cur[g] + 1]
      BY <3>1, SentGrows
    <3> QED BY <1>3, <2>1, <3>2
  <2>2. ASSUME pc'[g] \notin Empty
        PROVE  sent'[g][cur'[g] + 1].kind = "data"
    BY <1>1, <1>3, <2>1, <2>2 DEF HandlerInv, Message
  <2> QED BY <1>3, <2>1, <2>2 DEF HandlerInv, Message
<1>4. CASE \E psn \in Psns(h) : ReceiveData(h, psn)
  <2>1. PICK psn \in Psns(h) : ReceiveData(h, psn)
    BY <1>4
  <2>2. CASE g = h
    <3>1. pc'[g] = "lookup" /\ cur'[g] = psn /\ sent[g][psn + 1].kind = "data"
      BY <1>2, <2>1, <2>2 DEF ReceiveData, Message
    <3>2. psn \in Psns(g)' /\ sent'[g][psn + 1] = sent[g][psn + 1]
      BY <2>2, SentGrows
    <3> QED BY <3>1, <3>2 DEF HandlerInv, Message
  <2>3. CASE g # h
    <3>1. pc'[g] = pc[g] /\ cur'[g] = cur[g] /\ prim'[g] = prim[g]
      BY <1>2, <2>1, <2>3 DEF ReceiveData
    <3> QED BY <1>1, <1>3, <3>1 DEF HandlerInv
  <2> QED BY <2>2, <2>3
<1>5. CASE DropData(h) \/ AnswerData(h) \/ Cleanup(h)
  <2>1. /\ pc' = [pc EXCEPT ![h] = "idle"]
        /\ cur' = cur /\ prim' = prim
    BY <1>5 DEF DropData, AnswerData, Cleanup, handlerVars
  <2> QED BY <1>1, <1>2, <1>3, <2>1 DEF HandlerInv
<1>6. CASE AcceptData(h)
  <2>1. /\ pc[h] = "lookup" /\ pc' = [pc EXCEPT ![h] = "accepted"]
        /\ cur' = cur /\ prim' = prim
    BY <1>6 DEF AcceptData
  <2> QED BY <1>1, <1>2, <1>3, <2>1 DEF HandlerInv
<1>7. CASE ReadOperation(h)
  <2>1. /\ pc[h] = "accepted" /\ pc' = [pc EXCEPT ![h] = "typed"]
        /\ cur' = cur /\ prim' = [prim EXCEPT ![h] = operation_type]
    BY <1>7 DEF ReadOperation
  <2> QED BY <1>1, <1>2, <1>3, <2>1 DEF HandlerInv
<1>8. CASE ReadRoot(h)
  <2>1. pc[h] = "typed" /\ cur' = cur /\ prim' = prim
    BY <1>8 DEF ReadRoot
  <2>2. /\ pc'[g] # "idle" => pc[g] # "idle"
        /\ pc'[g] \notin Empty => pc[g] \notin Empty
    BY <1>2, <1>8, <2>1 DEF ReadRoot
  <2>3. pc'[g] = "aggregate" => prim[g] # "broadcast"
    <3>1. CASE g = h
      BY <1>2, <1>8, <3>1 DEF ReadRoot
    <3>2. CASE g # h
      BY <1>1, <1>2, <1>8, <3>2 DEF ReadRoot, HandlerInv
    <3> QED BY <3>1, <3>2
  <2> QED BY <1>3, <2>1, <2>2, <2>3
<1>9. CASE Forward(h) \/ Cache(h) \/ SendResult(h) \/ SendToRoot(h)
  <2>1. /\ pc[h] \notin Empty
        /\ \E where \in PCs \ {"aggregate"} : pc' = [pc EXCEPT ![h] = where]
        /\ cur' = cur /\ prim' = prim
    BY <1>9 DEF Forward, Cache, SendResult, SendToRoot, handlerVars, PCs
  <2> QED BY <1>1, <1>2, <1>3, <2>1 DEF HandlerInv
<1>10. CASE Aggregate(h)
  <2>1. /\ pc[h] = "aggregate" /\ pc' = [pc EXCEPT ![h] = Completion(h)]
        /\ cur' = cur /\ prim' = prim
    BY <1>10 DEF Aggregate, handlerVars
  <2>2. prim[h] # "broadcast"
    BY <2>1 DEF IInv, HandlerInv
  <2> QED BY <1>1, <1>2, <1>3, <2>1, <2>2 DEF HandlerInv
<1>11. CASE \/ Begin(h) \/ Start(h) \/ PollRecv(h) \/ PollSend(h) \/ Return(h)
            \/ Arrive(h)
  <2>1. pc' = pc /\ cur' = cur /\ prim' = prim
    BY <1>11
       DEF Begin, Start, PollRecv, PollSend, Return, Arrive, switchVars,
           handlerVars
  <2> QED BY <1>1, <1>3, <2>1 DEF HandlerInv
<1>12. CASE HandleControl(h)
  <2> DEFINE psn == NextControl(h)
  <2>1. /\ cur' = [cur EXCEPT ![h] = psn] /\ pc' = [pc EXCEPT ![h] = "meta"]
        /\ \E p : prim' = [prim EXCEPT ![h] = p]
    BY <1>12 DEF HandleControl
  <2>2. psn \in Psns(h)
    BY <1>1, <1>12, NextControlType DEF HandleControl
  <2>3. CASE g = h
    <3>1. pc'[g] = "meta" /\ cur'[g] = psn
      BY <1>2, <2>1, <2>3
    <3>2. psn \in Psns(g)'
      BY <2>2, <2>3, SentGrows
    <3> QED BY <3>1, <3>2 DEF HandlerInv
  <2>4. CASE g # h
    <3>1. pc'[g] = pc[g] /\ cur'[g] = cur[g] /\ prim'[g] = prim[g]
      BY <1>2, <2>1, <2>4
    <3> QED BY <1>1, <1>3, <3>1 DEF HandlerInv
  <2> QED BY <2>3, <2>4
<1>13. CASE SetRoot(h) \/ AckControl(h)
  <2>1. /\ pc[h] # "idle" /\ cur' = cur /\ prim' = prim
        /\ \E where \in Empty : pc' = [pc EXCEPT ![h] = where]
    BY <1>13 DEF SetRoot, AckControl, handlerVars
  <2> QED BY <1>1, <1>2, <1>3, <2>1 DEF HandlerInv
<1> QED BY <1>4, <1>5, <1>6, <1>7, <1>8, <1>9, <1>10, <1>11, <1>12, <1>13
        DEF Action

------------------------------------------------------------------------------
(* The theorems. *)

LEMMA InitInv == ASSUME Init PROVE IInv
<1>1. << >> \in Seq(Results) /\ << >> \in Seq(Messages) /\ << >> \in Seq(Sums)
  OBVIOUS
<1>2. NoData \in Sums
  BY DEF NoData, Sums
<1>3. program \in Seq(Operations) /\ Len(program) \in Nat
  BY ProgramsAssumption DEF Init
<1>4. TypeOK
  BY <1>1, <1>2, <1>3 DEF Init, TypeOK, Primitives
<1>5. ASSUME NEW h \in Hosts
      PROVE  CallInv(h) /\ HandlerInv(h)
  BY DEF Init, CallInv, Unused, HandlerInv
<1> QED BY <1>4, <1>5 DEF IInv

LEMMA StepInv == ASSUME IInv, [Next]_vars PROVE IInv'
<1>1. CASE Next
  <2>1. PICK h \in Hosts : Action(h)
    BY <1>1, StepIsAction
  <2>2. ASSUME NEW g \in Hosts
        PROVE  CallInv(g)' /\ HandlerInv(g)'
    BY <2>1, CallStep, HandlerStepInv
  <2> QED BY <2>1, <2>2, TypeStep DEF IInv
<1>2. CASE UNCHANGED vars
  <2>1. /\ UNCHANGED <<callVars, qpVars, acked, nicVars>>
        /\ UNCHANGED switchVars /\ TypeOK
    BY <1>2 DEF vars, IInv
  <2>2. /\ UNCHANGED <<program, op, phase, send_num, receive_num, send_complete>>
        /\ UNCHANGED <<got, sent, polled, posted, arrived, dropped, acked>>
    BY <2>1 DEF callVars, qpVars, nicVars
  <2>3. /\ UNCHANGED <<agg_epsn, operation_type, root_rank, degree, arrival>>
        /\ UNCHANGED <<agg_buffer, bcast_buffer, pc, cur, prim, param, out_conns>>
        /\ UNCHANGED <<todo, ctl, out>>
    BY <2>1 DEF switchVars, metaVars, slotVars, handlerVars
  <2>4. TypeOK'
    BY <2>1, <2>2, <2>3, SameProgram DEF TypeOK
  <2>5. ASSUME NEW g \in Hosts
        PROVE  CallInv(g)' /\ HandlerInv(g)'
    <3>1. CallInv(g) /\ HandlerInv(g) /\ Len(out[g]) \in Nat
      BY <2>1, SequenceTypes DEF IInv
    <3>2. CallInv(g)'
      BY <2>1, <2>2, <2>3, <3>1, CallStays
    <3>3. HandlerInv(g)'
      BY <2>2, <2>3, <3>1 DEF HandlerInv, Psns, Message
    <3> QED BY <3>2, <3>3
  <2> QED BY <2>4, <2>5 DEF IInv
<1> QED BY <1>1, <1>2

(* The invariant holds throughout. *)
THEOREM Inductive == Spec => []IInv
<1>1. Init => IInv
  BY InitInv
<1>2. IInv /\ [Next]_vars => IInv'
  BY StepInv
<1> QED BY <1>1, <1>2, PTL DEF Spec

(* Whatever the calls are and however the threads, the packets and the      *)
(* metadata of neighbouring calls mix, a result is taken for a chunk of the *)
(* call that is running, a thread aggregates one posted data message, and   *)
(* every variable keeps its type.                                           *)
THEOREM TypeCorrect == Spec => []TypeOK
<1>1. IInv => TypeOK
  BY DEF IInv
<1> QED BY <1>1, Inductive, PTL

(* A call leaves no receive request and no receive completion to the next,  *)
(* in any program of calls, right or wrong as the results may be.           *)
THEOREM RequestsAreUsedUp == Spec => []RequestsUsedUp
<1>1. ASSUME IInv
      PROVE  RequestsUsedUp
  <2>1. ASSUME NEW h \in Hosts, phase[h] # "run"
        PROVE  posted[h] = Len(got[h])
    <3>1. Unused(h) = 0
      BY <1>1, <2>1 DEF IInv, CallInv
    <3>2. posted[h] \in Nat /\ Len(got[h]) \in Nat
      BY <1>1, CallerTypes, SequenceTypes DEF IInv
    <3> QED BY <3>1, <3>2 DEF Unused
  <2> QED BY <2>1 DEF RequestsUsedUp
<1> QED BY <1>1, Inductive, PTL

==============================================================================
