------------------------- MODULE SwitchOpsOrderProofs -------------------------
(***************************************************************************)
(* Proofs about the orderly programs of SwitchOps: their results are        *)
(* correct, for every number of hosts, slots, calls and messages.           *)
(***************************************************************************)
EXTENDS SwitchOpsOrder, SwitchOpsProofs, SlotArithmetic

------------------------------------------------------------------------------
(* The PSNs of the calls. *)

(* A set of numbers has a least member. *)
LEMMA LeastNumber ==
    ASSUME NEW S \in SUBSET Nat, S # {}
    PROVE  \E i \in S : \A j \in S : i <= j
<1> DEFINE lt == OpToRel(<, Nat)
<1>1. IsWellFoundedOn(lt, Nat)
  BY NatLessThanWellFounded
<1>2. \A i, j \in Nat : <<i, j>> \notin lt => j <= i
  BY DEF OpToRel
<1> HIDE DEF lt
<1>3. \E i \in S : \A j \in S : <<j, i>> \notin lt
  BY <1>1, WFMin
<1> QED BY <1>2, <1>3

(* The recursive definition of Base has a solution. *)
LEMMA BaseRecursion ==
    ASSUME NEW p \in Seq(Operations)
    PROVE  Base(p) = [o \in 1 .. Len(p) + 1 |->
                         IF o = 1 THEN 0 ELSE Base(p)[o - 1] + p[o - 1].len + 1]
<1> DEFINE Solves(f, n) == f = [o \in 1 .. n + 1 |->
                                  IF o = 1 THEN 0 ELSE f[o - 1] + p[o - 1].len + 1]
           T == {n \in 0 .. Len(p) : ~ \E f : Solves(f, n)}
<1>1. Len(p) \in Nat
  OBVIOUS
<1>2. T = {}
  <2> SUFFICES ASSUME T # {} PROVE FALSE
    OBVIOUS
  <2>1. PICK n \in T : \A j \in T : n <= j
    <3>1. T \in SUBSET Nat
      BY <1>1
    <3> HIDE DEF T
    <3> QED BY <3>1, LeastNumber
  <2>2. n \in 0 .. Len(p) /\ ~ \E f : Solves(f, n)
    OBVIOUS
  <2>3. CASE n = 0
    <3>1. Solves([o \in 1 .. 1 |-> 0], n)
      BY <2>3
    <3> QED BY <2>2, <3>1
  <2>4. CASE n # 0
    <3>1. n - 1 \in 0 .. Len(p)
      BY <1>1, <2>2, <2>4
    <3>2. PICK f : Solves(f, n - 1)
      <4>1. ~ (n <= n - 1)
        BY <2>2
      <4>2. n - 1 \notin T
        BY <2>1, <4>1
      <4> QED BY <3>1, <4>2
    <3> DEFINE g == [o \in 1 .. n + 1 |->
                        IF o <= n THEN f[o] ELSE f[n] + p[n].len + 1]
    <3>3. ASSUME NEW o \in 1 .. n + 1
          PROVE  g[o] = IF o = 1 THEN 0 ELSE g[o - 1] + p[o - 1].len + 1
      <4>1. n - 1 + 1 = n /\ n \in Nat
        BY <2>2
      <4>2. CASE o <= n
        <5>1. o \in 1 .. n /\ (o # 1 => o - 1 \in 1 .. n /\ o - 1 <= n)
          BY <4>1, <4>2
        <5>2. f[o] = IF o = 1 THEN 0 ELSE f[o - 1] + p[o - 1].len + 1
          BY <3>2, <4>1, <5>1
        <5>3. g[o] = f[o]
          BY <4>2
        <5>4. o # 1 => g[o - 1] = f[o - 1]
          BY <4>1, <5>1
        <5> QED BY <5>2, <5>3, <5>4
      <4>3. CASE ~ (o <= n)
        <5>1. o = n + 1 /\ o # 1 /\ o - 1 = n /\ n \in 1 .. n + 1
          BY <2>2, <2>4, <4>3
        <5> QED BY <4>1, <5>1
      <4> QED BY <4>2, <4>3
    <3>4. Solves(g, n)
      <4>1. g = [o \in 1 .. n + 1 |-> g[o]]
        OBVIOUS
      <4> HIDE DEF g
      <4> QED BY <3>3, <4>1
    <3> HIDE DEF g
    <3> QED BY <2>2, <3>4
  <2> QED BY <2>3, <2>4
<1>3. \E f : Solves(f, Len(p))
  BY <1>1, <1>2
<1> QED BY <1>3 DEF Base

(* Call o starts at At(o). *)
LEMMA AtNext ==
    ASSUME TypeOK
    PROVE  /\ At(1) = 0
           /\ \A o \in Calls : At(o + 1) = At(o) + program[o].len + 1
<1>1. program \in Seq(Operations) /\ Len(program) \in Nat
  BY ProgramsAssumption DEF TypeOK
<1>2. At(1) = 0
  BY <1>1, BaseRecursion DEF At
<1>3. ASSUME NEW o \in Calls
      PROVE  At(o + 1) = At(o) + program[o].len + 1
  <2> DEFINE q == o + 1
  <2>1. q \in 1 .. Len(program) + 1 /\ q # 1 /\ q - 1 = o
    BY <1>1 DEF Calls
  <2> HIDE DEF q
  <2>2. Base(program)[q] = Base(program)[q - 1] + program[q - 1].len + 1
    BY <1>1, <2>1, BaseRecursion
  <2>3. At(q) = At(o) + program[o].len + 1
    BY <2>1, <2>2 DEF At
  <2> QED BY <2>3 DEF q
<1> QED BY <1>2, <1>3

(* Later calls start later, by a message and the control message at least. *)
LEMMA AtGrows ==
    ASSUME TypeOK
    PROVE  \A q \in 1 .. Len(program) + 1 :
              /\ At(q) \in Nat
              /\ \A o \in 1 .. q : At(q) - (q - 1) >= At(o) - (o - 1)
<1> DEFINE Good(q) == /\ At(q) \in Nat
                      /\ \A o \in 1 .. q : At(q) - (q - 1) >= At(o) - (o - 1)
           T == {q \in 1 .. Len(program) + 1 : ~ Good(q)}
<1>1. Len(program) \in Nat
  BY ProgramCalls
<1>2. SUFFICES ASSUME T # {} PROVE FALSE
  OBVIOUS
<1>3. PICK q \in T : \A j \in T : q <= j
  <2>1. T \in SUBSET Nat
    BY <1>1
  <2> HIDE DEF T
  <2> QED BY <1>2, <2>1, LeastNumber
<1>4. q \in 1 .. Len(program) + 1 /\ ~ Good(q)
  OBVIOUS
<1> HIDE DEF Good
<1>5. CASE q = 1
  <2>1. \A o \in 1 .. 1 : o = 1
    OBVIOUS
  <2> QED BY <1>4, <1>5, <2>1, AtNext DEF Good
<1>6. CASE q # 1
  <2>1. q - 1 \in 1 .. Len(program) + 1 /\ q - 1 \in Calls /\ q - 1 \notin T
    BY <1>1, <1>3, <1>4, <1>6 DEF Calls
  <2>2. Good(q - 1)
    BY <2>1
  <2>3. /\ At(q) = At(q - 1) + program[q - 1].len + 1
        /\ program[q - 1].len \in Nat \ {0}
    <3>1. q - 1 + 1 = q
      BY <1>4
    <3> QED BY <2>1, <3>1, AtNext, ProgramCalls
  <2>4. ASSUME NEW o \in 1 .. q
        PROVE  At(q) - (q - 1) >= At(o) - (o - 1)
    <3>1. CASE o = q
      BY <2>2, <2>3, <3>1 DEF Good
    <3>2. CASE o # q
      <4>1. o \in 1 .. q - 1
        BY <1>4, <3>2
      <4>2. At(q - 1) - (q - 1 - 1) >= At(o) - (o - 1) /\ At(q - 1) \in Nat
        BY <2>2, <4>1 DEF Good
      <4>3. At(o) \in Nat
        <5>1. o \in 1 .. Len(program) + 1 /\ o \notin T
          BY <1>1, <1>3, <1>4, <3>2
        <5> QED BY <5>1 DEF Good
      <4> QED BY SMTT(30), <1>4, <2>3, <4>2, <4>3
    <3> QED BY <3>1, <3>2
  <2>5. At(q) \in Nat
    BY <2>2, <2>3 DEF Good
  <2> QED BY <1>4, <2>4, <2>5 DEF Good
<1> QED BY <1>5, <1>6

(* The messages of the calls before call o. *)
LEMMA BeforeGrows ==
    ASSUME TypeOK
    PROVE  /\ Before(1) = 0
           /\ \A o \in Calls : Before(o + 1) = Before(o) + program[o].len
           /\ \A q \in 1 .. Len(program) + 1 :
                 /\ Before(q) \in Nat
                 /\ \A o \in 1 .. q : Before(q) >= Before(o)
<1>1. Len(program) \in Nat
  BY ProgramCalls
<1>2. Before(1) = 0
  BY AtNext DEF Before
<1>3. ASSUME NEW o \in Calls
      PROVE  Before(o + 1) = Before(o) + program[o].len
  <2>1. At(o) \in Nat /\ o \in Nat /\ program[o].len \in Nat
    BY <1>1, AtGrows, ProgramCalls DEF Calls
  <2>2. At(o + 1) = At(o) + program[o].len + 1
    BY AtNext
  <2> QED BY <2>1, <2>2 DEF Before
<1>4. ASSUME NEW q \in 1 .. Len(program) + 1
      PROVE  /\ Before(q) \in Nat
             /\ \A o \in 1 .. q : Before(q) >= Before(o)
  <2>1. \A o \in 1 .. q : Before(q) >= Before(o)
    BY AtGrows DEF Before
  <2>2. Before(q) \in Int /\ 1 \in 1 .. q
    BY AtGrows DEF Before
  <2> QED BY <1>2, <2>1, <2>2
<1> QED BY <1>2, <1>3, <1>4

(* Where a chunk is. *)
LEMMA ChunkFacts ==
    ASSUME TypeOK, NEW c \in Chunks
    PROVE  /\ c = <<c[1], c[2]>>
           /\ c[1] \in Calls /\ c[1] \in Nat
           /\ c[2] \in 1 .. CallOf(c).len /\ CallOf(c).len \in Nat \ {0}
           /\ At(c[1]) \in Nat /\ At(c[1] + 1) = At(c[1]) + CallOf(c).len + 1
           /\ Psn(c) \in Nat /\ Psn(c) = At(c[1]) + c[2]
           /\ Before(c[1]) \in Nat
           /\ Index(c) \in Nat \ {0} /\ Index(c) = Before(c[1]) + c[2]
<1>1. PICK o \in Calls : c \in {o} \X (1 .. program[o].len)
  BY DEF Chunks
<1>2. c = <<c[1], c[2]>> /\ c[1] = o /\ c[2] \in 1 .. program[o].len
  BY <1>1
<1>3. program[o].len \in Nat \ {0} /\ Len(program) \in Nat
  BY ProgramCalls
<1>4. o \in 1 .. Len(program) + 1 /\ o \in Nat
  BY <1>3 DEF Calls
<1>5. At(o) \in Nat /\ Before(o) \in Nat
  BY <1>4, AtGrows, BeforeGrows
<1>6. At(o + 1) = At(o) + program[o].len + 1
  BY AtNext
<1>7. Psn(c) = At(o) + c[2] /\ Index(c) = Before(o) + c[2] /\ CallOf(c) = program[o]
  BY <1>2 DEF Psn, Index, CallOf
<1>8. At(c[1]) = At(o) /\ At(c[1] + 1) = At(o + 1) /\ Before(c[1]) = Before(o)
  BY <1>2
<1>9. Psn(c) \in Nat /\ Index(c) \in Nat \ {0} /\ c[2] \in 1 .. CallOf(c).len
  BY <1>2, <1>3, <1>5, <1>7
<1> HIDE DEF Calls
<1> QED BY <1>2, <1>3, <1>4, <1>5, <1>6, <1>7, <1>8, <1>9

(* A later call begins at a later PSN. *)
LEMMA AtOrder ==
    ASSUME TypeOK, NEW q \in 1 .. Len(program) + 1, NEW o \in 1 .. q
    PROVE  At(q) \in Nat /\ At(o) \in Nat /\ At(q) >= At(o) + (q - o)
<1>1. o \in 1 .. Len(program) + 1 /\ o \in Nat /\ q \in Nat
  BY ProgramCalls
<1>2. At(q) \in Nat /\ At(o) \in Nat
  BY <1>1, AtGrows
<1>3. At(q) - (q - 1) >= At(o) - (o - 1)
  BY AtGrows
<1> QED BY <1>1, <1>2, <1>3

(* A chunk and the calls before and after it. *)
LEMMA ChunkAndCall ==
    ASSUME TypeOK, NEW c \in Chunks, NEW o \in 1 .. Len(program) + 1
    PROVE  /\ Psn(c) # At(o)
           /\ Psn(c) < At(o) <=> c[1] < o
           /\ Index(c) <= Before(o) <=> c[1] < o
<1>1. /\ c[1] \in Calls /\ c[1] \in Nat /\ c[2] \in 1 .. CallOf(c).len
      /\ CallOf(c).len \in Nat \ {0} /\ At(c[1]) \in Nat /\ Before(c[1]) \in Nat
      /\ At(c[1] + 1) = At(c[1]) + CallOf(c).len + 1
      /\ Psn(c) = At(c[1]) + c[2]
      /\ Index(c) = Before(c[1]) + c[2]
  BY ChunkFacts
<1>2. Len(program) \in Nat /\ o \in Nat
  BY ProgramCalls
<1>3. At(o) \in Nat /\ Before(o) \in Nat
  BY AtGrows, BeforeGrows
<1>4. CASE c[1] < o
  <2>1. c[1] + 1 \in 1 .. o
    BY SMTT(30), <1>1, <1>2, <1>4
  <2>2. At(o) >= At(c[1] + 1) + (o - (c[1] + 1))
    BY <2>1, AtOrder
  <2>3. At(o) >= At(c[1] + 1)
    BY SMTT(30), <1>1, <1>2, <1>3, <1>4, <2>2
  <2>4. Before(o) >= Before(c[1] + 1)
    BY <2>1, BeforeGrows
  <2>5. Before(c[1] + 1) = Before(c[1]) + CallOf(c).len
    BY <1>1, BeforeGrows DEF CallOf
  <2> QED BY SMTT(30), <1>1, <1>3, <1>4, <2>3, <2>4, <2>5
<1>5. CASE ~ (c[1] < o)
  <2>1. o \in 1 .. c[1] /\ c[1] \in 1 .. Len(program) + 1
    BY <1>1, <1>2, <1>5 DEF Calls
  <2>2. At(c[1]) >= At(o) + (c[1] - o)
    BY <2>1, AtOrder
  <2>3. Before(c[1]) >= Before(o)
    BY <2>1, BeforeGrows
  <2>4. c[2] \in Int /\ c[2] >= 1
    BY <1>1
  <2>5. At(c[1]) >= At(o)
    BY <1>1, <1>2, <1>3, <1>5, <2>2
  <2>6. Psn(c) > At(o) /\ Index(c) > Before(o)
    BY SMTT(30), <1>1, <1>3, <2>3, <2>4, <2>5
  <2>7. Psn(c) \in Int /\ Index(c) \in Int
    BY <1>1, <2>4
  <2> QED BY <1>3, <1>5, <2>6, <2>7
<1> QED BY <1>4, <1>5

(* PSNs and indices order the chunks alike. *)
LEMMA ChunkOrder ==
    ASSUME TypeOK, NEW c \in Chunks, NEW d \in Chunks
    PROVE  /\ Psn(c) < Psn(d) <=> Index(c) < Index(d)
           /\ Psn(c) = Psn(d) <=> c = d
           /\ Index(c) = Index(d) <=> c = d
           /\ Psn(c) <= Psn(d) => c[1] <= d[1]
           /\ c[1] < d[1] => Psn(c) < Psn(d)
<1>1. /\ c = <<c[1], c[2]>> /\ c[1] \in Calls /\ c[1] \in Nat /\ c[2] \in Int
      /\ c[2] >= 1
      /\ Psn(c) = At(c[1]) + c[2] /\ Index(c) = Before(c[1]) + c[2]
      /\ At(c[1]) \in Nat /\ Before(c[1]) \in Nat
  BY ChunkFacts
<1>2. /\ d = <<d[1], d[2]>> /\ d[1] \in Calls /\ d[1] \in Nat /\ d[2] \in Int
      /\ d[2] >= 1
      /\ Psn(d) = At(d[1]) + d[2] /\ Index(d) = Before(d[1]) + d[2]
      /\ At(d[1]) \in Nat /\ Before(d[1]) \in Nat
  BY ChunkFacts
<1>3. Calls \subseteq 1 .. Len(program) + 1
  BY ProgramCalls DEF Calls
<1>4. CASE c[1] = d[1]
  <2>1. c[2] = d[2] <=> c = d
    BY <1>1, <1>2, <1>4
  <2> QED BY <1>1, <1>2, <1>4, <2>1
<1>5. CASE c[1] < d[1]
  <2>1. Psn(c) < At(d[1]) /\ Index(c) <= Before(d[1])
    BY <1>2, <1>3, <1>5, ChunkAndCall
  <2>2. c # d
    BY <1>1, <1>5
  <2> QED BY <1>1, <1>2, <1>5, <2>1, <2>2
<1>6. CASE d[1] < c[1]
  <2>1. Psn(d) < At(c[1]) /\ Index(d) <= Before(c[1])
    BY <1>1, <1>3, <1>6, ChunkAndCall
  <2>2. c # d
    BY <1>1, <1>6
  <2> QED BY <1>1, <1>2, <1>6, <2>1, <2>2
<1> QED BY <1>1, <1>2, <1>4, <1>5, <1>6

(* The chunk before. *)
LEMMA PreviousChunk ==
    ASSUME TypeOK, NEW c \in Chunks, Index(c) # 1
    PROVE  \E d \in Chunks : Index(d) = Index(c) - 1 /\ d[1] <= c[1]
<1>1. /\ c[1] \in Calls /\ c[1] \in Nat /\ c[2] \in 1 .. CallOf(c).len
      /\ CallOf(c).len \in Nat \ {0}
      /\ Index(c) = Before(c[1]) + c[2]
      /\ Before(c[1]) \in Nat
  BY ChunkFacts
<1>2. CASE c[2] # 1
  <2> DEFINE d == <<c[1], c[2] - 1>>
  <2>1. c[2] - 1 \in 1 .. program[c[1]].len
    BY <1>1, <1>2 DEF CallOf
  <2>2. d \in Chunks
    BY <1>1, <2>1, ProgramCalls
  <2>3. Index(d) = Before(c[1]) + (c[2] - 1)
    BY DEF Index
  <2> QED BY <1>1, <2>2, <2>3
<1>3. CASE c[2] = 1
  <2> DEFINE o == c[1] - 1
             d == <<o, program[o].len>>
  <2>1. c[1] # 1
    BY <1>1, <1>3, BeforeGrows
  <2>2. o \in Calls /\ o + 1 = c[1] /\ o <= c[1]
    BY <1>1, <2>1, ProgramCalls DEF Calls
  <2>3. program[o].len \in Nat \ {0}
    BY <2>2, ProgramCalls
  <2>4. d \in Chunks
    BY <2>2, <2>3, ProgramCalls
  <2>5. Before(c[1]) = Before(o) + program[o].len
    BY <2>2, BeforeGrows
  <2>6. Index(d) = Before(o) + program[o].len
    BY DEF Index
  <2>7. d[1] = o
    OBVIOUS
  <2> HIDE DEF d, o
  <2> QED BY <1>1, <1>3, <2>2, <2>4, <2>5, <2>6, <2>7
<1> QED BY <1>2, <1>3

(* The last chunk of a call. *)
LEMMA LastChunk ==
    ASSUME TypeOK, NEW o \in Calls
    PROVE  LET c == <<o, program[o].len>>
           IN  /\ c \in Chunks /\ c[1] = o
               /\ Index(c) = Before(o + 1) /\ Index(c) \in Nat
               /\ Psn(c) = At(o + 1) - 1
<1> DEFINE c == <<o, program[o].len>>
<1>1. program[o].len \in Nat \ {0}
  BY ProgramCalls
<1>2. c \in Chunks /\ c[1] = o /\ c[2] = program[o].len
  BY <1>1, ProgramCalls
<1> HIDE DEF c
<1>3. /\ Index(c) \in Nat /\ Index(c) = Before(o) + program[o].len
      /\ Psn(c) = At(o) + program[o].len /\ At(o) \in Nat
  BY <1>2, ChunkFacts
<1>4. /\ At(o + 1) = At(o) + program[o].len + 1
      /\ Before(o + 1) = Before(o) + program[o].len
  BY AtNext, BeforeGrows
<1>5. Psn(c) = At(o + 1) - 1
  BY <1>1, <1>3, <1>4
<1> QED BY <1>2, <1>3, <1>4, <1>5 DEF c

------------------------------------------------------------------------------
(* Orderly programs. *)

LEMMA OrderlyCalls ==
    ASSUME TypeOK, Orderly(program), NEW o \in Calls
    PROVE  /\ program[o].prim \in {"allreduce", "reduce"}
           /\ IsReduce(program[o]) => program[o].root \in Hosts
           /\ IsReduce(program[o]) /\ o # Len(program) => ReducesToOneRoot(program)
           /\ \A q \in Calls :
                 IsReduce(program[o]) => /\ IsReduce(program[q])
                                            => program[q].root = program[o].root
                                         /\ IsAllReduce(program[q])
                                            => q < o /\ o = Len(program)
<1>1. \A q \in Calls : program[q] \in Operations
  BY ProgramCalls
<1>2. \A q \in Calls : IsAllReduce(program[q]) => ~ IsReduce(program[q])
  BY DEF IsAllReduce, IsReduce
<1>3. CASE ReducesToOneRoot(program)
  BY <1>1, <1>2, <1>3 DEF ReducesToOneRoot, Calls, Operations, IsReduce, Hosts
<1>4. CASE AllReducesThenReduce(program) /\ ~ ReducesToOneRoot(program)
  <2>1. \A q \in Calls : \/ IsAllReduce(program[q])
                         \/ q = Len(program) /\ IsReduce(program[q])
    BY <1>4 DEF AllReducesThenReduce, Calls
  <2>2. \A q \in Calls : q \in Int /\ q <= Len(program)
    BY ProgramCalls DEF Calls
  <2>3. program[o].prim \in {"allreduce", "reduce"}
    BY <2>1 DEF IsAllReduce, IsReduce
  <2>4. IsReduce(program[o]) => program[o].root \in Hosts
    BY <1>1 DEF Operations, IsReduce
  <2> QED BY <1>2, <2>1, <2>2, <2>3, <2>4
<1> QED BY <1>3, <1>4 DEF Orderly

(* Who receives a result receives all the earlier ones. *)
LEMMA ReceiverEarlier ==
    ASSUME TypeOK, Orderly(program), NEW g \in Hosts,
           NEW c \in Chunks, NEW d \in Chunks, d[1] <= c[1], Receiver(g, c)
    PROVE  Receiver(g, d)
<1>1. c[1] \in Calls /\ d[1] \in Calls /\ c[1] \in Nat /\ d[1] \in Nat
  BY ChunkFacts
<1>2. CASE IsAllReduce(program[d[1]])
  BY <1>2 DEF Receiver, CallOf
<1>3. CASE ~ IsAllReduce(program[d[1]])
  <2>1. IsReduce(program[d[1]])
    BY <1>1, <1>3, OrderlyCalls DEF IsReduce, IsAllReduce
  <2>2. ~ IsAllReduce(program[c[1]])
    BY <1>1, <2>1, OrderlyCalls
  <2>3. IsReduce(program[c[1]])
    BY <1>1, <2>2, OrderlyCalls DEF IsReduce, IsAllReduce
  <2>4. program[d[1]].root = program[c[1]].root
    BY <1>1, <2>1, <2>3, OrderlyCalls
  <2> QED BY <2>2, <2>4 DEF Receiver, CallOf
<1> QED BY <1>2, <1>3

(* The caller's view of an orderly call. *)
LEMMA OrderlyCaller ==
    ASSUME TypeOK, Orderly(program), NEW h \in Hosts, InCall(h)
    PROVE  /\ op[h] \in Calls
           /\ Sends(h)
           /\ Receives(h) <=> IsAllReduce(Call(h)) \/ Call(h).root = h
           /\ ~ Receives(h) => IsReduce(Call(h))
           /\ \A c \in Chunks : c[1] = op[h] => (Receiver(h, c) <=> Receives(h))
<1>1. op[h] \in Calls /\ Call(h).prim \in {"allreduce", "reduce"}
  BY OrderlyCalls DEF InCall, Call
<1>2. Sends(h) /\ (Receives(h) <=> IsAllReduce(Call(h)) \/ Call(h).root = h)
  <2>1. CASE Call(h).prim = "allreduce"
    BY <2>1 DEF Sends, Receives, IsAllReduce
  <2>2. CASE Call(h).prim = "reduce"
    BY <2>2 DEF Sends, Receives, IsAllReduce, IsRoot
  <2> QED BY <1>1, <2>1, <2>2
<1>3. ~ Receives(h) => IsReduce(Call(h))
  BY <1>1, <1>2 DEF IsReduce, IsAllReduce
<1>4. \A c \in Chunks : c[1] = op[h] => (Receiver(h, c) <=> Receives(h))
  BY <1>2 DEF Receiver, CallOf, Call
<1> QED BY <1>1, <1>2, <1>3, <1>4

(* The right sum has everybody's part. *)
LEMMA OrderlySum ==
    ASSUME TypeOK, Orderly(program), NEW c \in Chunks
    PROVE  Expected(c) = [h \in Hosts |-> <<c>>]
<1>1. program[c[1]].prim # "broadcast"
  BY ChunkFacts, OrderlyCalls
<1> QED BY <1>1 DEF Expected

------------------------------------------------------------------------------
(* What the invariant says of a state. *)

Good == IInv /\ Orderly(program) /\ Order

LEMMA GoodTypes ==
    ASSUME Good
    PROVE  /\ TypeOK /\ Orderly(program)
           /\ Len(program) \in Nat
           /\ \A h \in Hosts :
                 /\ op[h] \in 1 .. Len(program) + 1 /\ op[h] \in Nat
                 /\ phase[h] \in {"start", "ctl", "run"}
                 /\ send_num[h] \in Nat /\ receive_num[h] \in Nat
                 /\ send_complete[h] \in Nat
                 /\ acked[h] \in Nat /\ polled[h] \in Nat
                 /\ posted[h] \in Nat /\ arrived[h] \in Nat
                 /\ agg_epsn[h] \in Nat /\ ctl[h] \in Nat /\ cur[h] \in Nat
                 /\ Len(got[h]) \in Nat /\ Len(sent[h]) \in Nat
                 /\ Len(out[h]) \in Nat
                 /\ At(op[h]) \in Nat
                 /\ InCall(h) <=> op[h] \in Calls
<1>1. TypeOK /\ Orderly(program) /\ Len(program) \in Nat
  BY ProgramCalls DEF Good, IInv
<1>2. op \in [Hosts -> 1 .. Len(program) + 1]
  BY <1>1 DEF TypeOK
<1>3. ASSUME NEW h \in Hosts
      PROVE  op[h] \in 1 .. Len(program) + 1 /\ op[h] \in Nat /\ At(op[h]) \in Nat
  BY <1>1, <1>2, AtGrows
<1>4. ASSUME NEW h \in Hosts
      PROVE  /\ acked[h] \in Nat /\ agg_epsn[h] \in Nat
             /\ ctl[h] \in Nat /\ cur[h] \in Nat
  BY <1>1, SwitchTypes
<1>5. ASSUME NEW h \in Hosts
      PROVE  /\ phase[h] \in {"start", "ctl", "run"}
             /\ send_num[h] \in Nat /\ receive_num[h] \in Nat
             /\ send_complete[h] \in Nat /\ polled[h] \in Nat
             /\ posted[h] \in Nat /\ arrived[h] \in Nat
             /\ Len(got[h]) \in Nat /\ Len(sent[h]) \in Nat
             /\ Len(out[h]) \in Nat
  BY <1>1, CallerTypes, SequenceTypes
<1> QED BY <1>1, <1>3, <1>4, <1>5 DEF InCall

LEMMA GoodParts ==
    ASSUME Good, NEW h \in Hosts
    PROVE  /\ CallInv(h) /\ HandlerInv(h)
           /\ SentInv(h) /\ GotInv(h) /\ AckInv(h) /\ ControlInv(h)
           /\ ThreadInv(h) /\ OutInv(h) /\ ControlHandlerInv(h)
BY DEF Good, IInv, Order, CallersInv, AcksInv, ThreadsInv, MetaInv

(* A data message has the PSN of its chunk, a control message that of its  *)
(* call.                                                                   *)
LEMMA MessagePsn ==
    ASSUME Good, NEW h \in Hosts, NEW psn \in Psns(h)
    PROVE  /\ psn \in Nat /\ psn < Len(sent[h])
           /\ Message(h, psn).call \in Calls
           /\ Message(h, psn).kind \in {"ctl", "data"}
           /\ Message(h, psn).kind = "ctl" => psn = At(Message(h, psn).call)
           /\ Message(h, psn).kind = "data" => /\ Message(h, psn).chunk \in Chunks
                                               /\ psn = Psn(Message(h, psn).chunk)
<1>1. psn \in Nat /\ psn < Len(sent[h])
  BY GoodTypes DEF Psns
<1>2. /\ Message(h, psn).call \in Calls
      /\ Message(h, psn).kind = "data" => Message(h, psn).chunk \in Chunks
      /\ Message(h, psn) \in Messages
  BY GoodTypes, PostedMessage
<1>3. Message(h, psn).kind \in {"ctl", "data"}
  BY <1>2 DEF Messages
<1>4. psn = IF Message(h, psn).kind = "ctl" THEN At(Message(h, psn).call)
                                            ELSE Psn(Message(h, psn).chunk)
  BY GoodParts DEF SentInv
<1> QED BY <1>1, <1>2, <1>3, <1>4

(* A chunk that was sent: its call has begun. *)
LEMMA SentChunk ==
    ASSUME Good, NEW h \in Hosts, NEW c \in Chunks, Psn(c) < Len(sent[h])
    PROVE  /\ c[1] <= op[h]
           /\ c[1] = op[h] => /\ phase[h] = "run" /\ InCall(h)
                              /\ c[2] <= send_num[h]
<1>1. /\ c[1] \in Calls /\ c[1] \in Nat /\ c[2] \in Int /\ c[2] >= 1
      /\ At(c[1]) \in Nat /\ Psn(c) \in Nat /\ Psn(c) = At(c[1]) + c[2]
  BY GoodTypes, ChunkFacts
<1>2. /\ Len(sent[h]) = At(op[h]) + IF phase[h] = "start" THEN 0
                                                          ELSE 1 + send_num[h]
      /\ send_num[h] \in Nat /\ At(op[h]) \in Nat
      /\ op[h] \in 1 .. Len(program) + 1 /\ op[h] \in Nat
  BY GoodTypes, GoodParts DEF SentInv
<1>3. /\ phase[h] # "run" => send_num[h] = 0
      /\ phase[h] = "run" => send_num[h] <= message_num(h)
      /\ phase[h] # "start" => InCall(h)
  BY GoodParts DEF CallInv
<1>4. CASE phase[h] = "start"
  <2>1. Psn(c) < At(op[h])
    BY <1>2, <1>4
  <2>2. c[1] < op[h]
    BY <1>2, <2>1, GoodTypes, ChunkAndCall
  <2> QED BY <1>1, <1>2, <2>2
<1>5. CASE phase[h] # "start"
  <2>1. op[h] \in Calls /\ message_num(h) = program[op[h]].len
    BY <1>3, <1>5 DEF InCall, message_num, Call
  <2>2. At(op[h] + 1) = At(op[h]) + message_num(h) + 1
    BY <2>1, GoodTypes, AtNext
  <2>3. message_num(h) \in Nat \ {0} /\ op[h] + 1 \in 1 .. Len(program) + 1
    BY <2>1, GoodTypes, ProgramCalls DEF Calls
  <2>4. send_num[h] <= message_num(h)
    BY <1>2, <1>3, <2>3
  <2>5. Psn(c) < At(op[h] + 1)
    BY <1>1, <1>2, <1>5, <2>2, <2>3, <2>4
  <2>6. c[1] < op[h] + 1
    BY <2>3, <2>5, GoodTypes, ChunkAndCall
  <2>7. c[1] <= op[h]
    BY <1>1, <1>2, <2>6
  <2>8. c[1] = op[h] => c[2] <= send_num[h]
    BY <1>1, <1>2, <1>5
  <2> QED BY <1>1, <1>2, <1>3, <1>5, <2>7, <2>8
<1> QED BY <1>4, <1>5

(* A thread has a chunk on its hands. *)
LEMMA InHandChunk ==
    ASSUME Good, NEW h \in Hosts, pc[h] # "idle", ~ InControl(h)
    PROVE  InHand(h) \in Chunks /\ cur[h] = Psn(InHand(h)) /\ cur[h] \in Psns(h)
<1>1. cur[h] \in Psns(h) /\ Message(h, cur[h]).kind = "data"
  BY GoodParts DEF HandlerInv, InControl
<1> QED BY <1>1, MessagePsn DEF InHand

LEMMA AddedFacts ==
    ASSUME Good, NEW h \in Hosts
    PROVE  /\ Added(h) \in Nat /\ Added(h) <= agg_epsn[h]
           /\ agg_epsn[h] <= Len(sent[h])
           /\ pc[h] \in {"accepted", "typed", "aggregate"}
                 => Added(h) = cur[h] /\ agg_epsn[h] = cur[h] + 1
           /\ pc[h] \notin {"accepted", "typed", "aggregate"}
                 => Added(h) = agg_epsn[h]
           /\ Busy(h) => Added(h) = cur[h] + 1
<1>1. agg_epsn[h] \in Nat /\ cur[h] \in Nat
  BY GoodTypes
<1>2. agg_epsn[h] <= Len(sent[h])
  BY GoodParts DEF AckInv
<1>3. pc[h] \notin {"idle", "lookup"} /\ ~ InControl(h)
         => agg_epsn[h] = cur[h] + 1
  BY GoodParts DEF ThreadInv
<1> QED BY <1>1, <1>2, <1>3 DEF Added, Busy, InControl

(* Chunks are completed in order. *)
LEMMA EarlierFull ==
    ASSUME Good, NEW c \in Chunks, NEW d \in Chunks, Full(c), Psn(d) <= Psn(c)
    PROVE  Full(d)
<1>1. Psn(c) \in Nat /\ Psn(d) \in Nat
  BY GoodTypes, ChunkFacts
<1>2. \A h \in Hosts : Added(h) \in Nat
  BY AddedFacts
<1> QED BY <1>1, <1>2 DEF Full

(* The chunk a thread is finishing is the last one that is complete. *)
LEMMA ServedIsLast ==
    ASSUME Good, NEW c \in Chunks, NEW d \in Chunks,
           NEW t \in Hosts, Serves(t, c), Full(d)
    PROVE  Full(c) /\ Psn(d) <= Psn(c)
<1>1. Busy(t) /\ cur[t] = Psn(c)
  BY DEF Serves
<1>2. pc[t] # "idle" /\ ~ InControl(t)
  BY <1>1 DEF Busy, InControl
<1>3. InHand(t) \in Chunks /\ cur[t] = Psn(InHand(t))
  BY <1>2, InHandChunk
<1>4. InHand(t) = c
  BY <1>1, <1>3, GoodTypes, ChunkOrder
<1>5. Full(InHand(t))
  BY <1>1, GoodParts DEF ThreadInv
<1>6. Added(t) = Psn(c) + 1 /\ Psn(c) \in Nat /\ Psn(d) \in Nat
  BY <1>1, AddedFacts, GoodTypes, ChunkFacts
<1>7. Psn(d) < Added(t)
  BY DEF Full
<1> QED BY <1>4, <1>5, <1>6, <1>7

(* A result in a host's hands was sent, when all the parts were in. *)
LEMMA Received ==
    ASSUME Good, NEW g \in Hosts, NEW c \in Chunks, Receiver(g, c),
           Index(c) <= Len(got[g])
    PROVE  SentTo(g, c) /\ Full(c)
<1>1. Len(got[g]) <= arrived[g] /\ arrived[g] <= Len(out[g])
  BY GoodParts DEF GotInv, CallInv
<1>2. Index(c) \in Nat /\ Len(got[g]) \in Nat /\ Len(out[g]) \in Nat
      /\ arrived[g] \in Nat
  BY GoodTypes, ChunkFacts
<1>3. Index(c) <= Len(out[g])
  BY <1>1, <1>2
<1>4. SentTo(g, c)
  BY <1>3, GoodParts DEF OutInv
<1> QED BY <1>4 DEF SentTo

(* The results of calls that have returned. *)
LEMMA CallReceived ==
    ASSUME Good, NEW g \in Hosts, NEW c \in Chunks, c[1] < op[g], Receiver(g, c)
    PROVE  Index(c) <= Len(got[g]) /\ Full(c)
<1>1. Index(c) <= Len(got[g])
  BY GoodParts DEF GotInv
<1> QED BY <1>1, Received

(* Nobody has a result beyond a chunk that is not finished. *)
LEMMA UnfinishedBounds ==
    ASSUME Good, NEW g \in Hosts, NEW c \in Chunks, ~ Freed(c),
           NEW d \in Chunks, Receiver(g, d), Index(d) <= Len(got[g])
    PROVE  Psn(d) <= Psn(c) /\ Index(d) <= Index(c)
<1>1. Full(d)
  BY Received
<1>2. Psn(c) \in Nat /\ Psn(d) \in Nat /\ Index(c) \in Nat /\ Index(d) \in Nat
  BY GoodTypes, ChunkFacts
<1>3. Psn(d) <= Psn(c)
  <2>1. CASE Full(c)
    <3>1. PICK t \in Hosts : Serves(t, c)
      BY <2>1 DEF Freed
    <3> QED BY <1>1, <3>1, ServedIsLast
  <2>2. CASE ~ Full(c)
    <3>1. ~ (Psn(c) <= Psn(d))
      BY <1>1, <2>2, EarlierFull
    <3> QED BY <1>2, <3>1
  <2> QED BY <2>1, <2>2
<1> QED BY <1>2, <1>3, GoodTypes, ChunkOrder

------------------------------------------------------------------------------
(* The chunks in flight have slots of their own. *)

(* All chunks of Reduces to one root. *)
LEMMA ReducesFit ==
    ASSUME Good, ReducesToOneRoot(program), NEW c \in Chunks, NEW d \in Chunks
    PROVE  Psn(d) - Psn(c) < N
<1>1. At(Len(program) + 1) < N + 2
  BY GoodTypes DEF Orderly, Fits, At
<1>2. d[1] \in Calls /\ Psn(c) \in Nat /\ Psn(d) \in Nat
      /\ At(c[1]) \in Nat /\ c[2] \in Int /\ c[2] >= 1 /\ Psn(c) = At(c[1]) + c[2]
  BY GoodTypes, ChunkFacts
<1>3. Psn(d) < At(Len(program) + 1) /\ At(Len(program) + 1) \in Nat
  <2>1. /\ Len(program) + 1 \in 1 .. Len(program) + 1
        /\ d[1] < Len(program) + 1
    BY <1>2, GoodTypes DEF Calls
  <2> QED BY <2>1, GoodTypes, ChunkAndCall, AtGrows
<1> QED BY <1>1, <1>2, <1>3, SizesAssumption

(* An AllReduce is a window ahead of the first unfinished chunk. *)
LEMMA WindowFits ==
    ASSUME Good, ~ ReducesToOneRoot(program), NEW c \in Chunks, NEW d \in Chunks,
           Psn(c) <= Psn(d), IsAllReduce(CallOf(d)), ~ Freed(c),
           NEW g \in Hosts, Psn(d) < Len(sent[g])
    PROVE  Psn(d) - Psn(c) < N
<1>1. /\ c[1] \in Calls /\ c[1] \in Nat /\ c[2] \in Int /\ c[2] >= 1
      /\ At(c[1]) \in Nat /\ Psn(c) \in Nat /\ Psn(c) = At(c[1]) + c[2]
      /\ Index(c) \in Nat
  BY GoodTypes, ChunkFacts
<1>2. /\ d[1] \in Calls /\ d[1] \in Nat /\ d[2] \in Int /\ d[2] >= 1
      /\ At(d[1]) \in Nat /\ Psn(d) \in Nat /\ Psn(d) = At(d[1]) + d[2]
      /\ Index(d) \in Nat /\ Index(d) = Before(d[1]) + d[2]
      /\ Before(d[1]) \in Nat
  BY GoodTypes, ChunkFacts
<1>3. Window \in Nat /\ N \in Nat /\ Window + 1 < N
  <2>1. Window + 1 < N
    BY <1>2, GoodTypes DEF Orderly, Fits, Calls, CallOf
  <2> QED BY <2>1, SizesAssumption
<1>4. CASE Psn(c) = Psn(d)
  BY <1>1, <1>3, <1>4
<1>5. CASE Psn(c) # Psn(d)
  <2>1. Index(c) < Index(d) /\ c[1] <= d[1]
    BY <1>1, <1>2, <1>5, GoodTypes, ChunkOrder
  <2>2. Receiver(g, d)
    BY DEF Receiver
  <2>3. d[1] = op[g] /\ phase[g] = "run" /\ InCall(g) /\ d[2] <= send_num[g]
    <3>1. d[1] <= op[g] /\ op[g] \in Nat
      BY SentChunk, GoodTypes
    <3>2. ~ (Index(d) <= Index(c))
      BY <1>1, <1>2, <2>1
    <3>3. ~ (d[1] < op[g])
      BY <2>2, <3>2, CallReceived, UnfinishedBounds
    <3>4. d[1] = op[g]
      BY <1>2, <3>1, <3>3
    <3> QED BY <3>4, SentChunk
  <2>4. Receives(g)
    BY <2>2, <2>3, GoodTypes, OrderlyCaller
  <2>5. /\ send_num[g] <= Window + receive_num[g]
        /\ Len(got[g]) = Before(d[1]) + receive_num[g]
        /\ send_num[g] \in Nat /\ receive_num[g] \in Nat
        /\ Len(got[g]) \in Nat
    BY <2>3, <2>4, GoodParts, GoodTypes DEF SentInv, GotInv, Progress
  <2>6. Len(got[g]) <= Index(c)
    <3>1. CASE Len(got[g]) = 0
      BY <1>1, <3>1
    <3>2. CASE Len(got[g]) # 0
      <4>1. Len(got[g]) <= arrived[g] /\ arrived[g] <= Len(out[g])
        BY GoodParts DEF GotInv, CallInv
      <4>2. Len(got[g]) \in 1 .. Len(out[g])
        BY <3>2, <4>1, GoodTypes
      <4>3. PICK e \in Chunks : Receiver(g, e) /\ Index(e) = Len(got[g])
        BY <4>2, GoodParts DEF OutInv
      <4> QED BY <2>5, <4>3, UnfinishedBounds
    <3> QED BY <3>1, <3>2
  <2>7. d[1] <= c[1] + 1
    <3>1. CASE d[1] = 1
      BY <1>1, <3>1
    <3>2. CASE d[1] # 1
      <4> DEFINE o == d[1] - 1
                 e == <<o, program[o].len>>
      <4>1. o \in Calls /\ o + 1 = d[1] /\ o \in Nat
        BY SMTT(30), <1>2, <3>2, GoodTypes DEF Calls
      <4>2. /\ e \in Chunks /\ e[1] = o /\ Index(e) = Before(o + 1)
            /\ Index(e) \in Nat
        BY <4>1, GoodTypes, LastChunk
      <4> HIDE DEF e, o
      <4>3. Index(e) <= Index(c)
        BY SMTT(30), <1>1, <1>2, <2>5, <2>6, <4>1, <4>2
      <4>4. ~ (Psn(c) < Psn(e))
        BY <1>1, <4>2, <4>3, GoodTypes, ChunkOrder
      <4>5. Psn(e) \in Nat
        BY <4>2, GoodTypes, ChunkFacts
      <4>6. o <= c[1]
        BY <1>1, <4>2, <4>4, <4>5, GoodTypes, ChunkOrder
      <4> QED BY <1>1, <1>2, <4>1, <4>6
    <3> QED BY <3>1, <3>2
  <2>8. /\ Before(d[1]) = At(d[1]) - (d[1] - 1)
        /\ Index(c) = Psn(c) - (c[1] - 1)
    BY <1>1 DEF Before, Index
  <2>9. /\ Psn(c) \in Int /\ Psn(d) \in Int /\ At(d[1]) \in Int
        /\ d[1] \in Int /\ c[1] \in Int
    BY SMTT(30), <1>1, <1>2
  <2>10. Psn(d) = At(d[1]) + d[2] /\ d[2] \in Int
    BY <1>2
  <2> DEFINE x == d[1]
             y == c[1]
             k == d[2]
             a == At(d[1])
             b == Before(d[1])
  <2>11. /\ x \in Int /\ y \in Int /\ k \in Int /\ a \in Int
         /\ Psn(d) = a + k /\ k <= send_num[g] /\ x <= y + 1
         /\ b = a - (x - 1) /\ Index(c) = Psn(c) - (y - 1)
         /\ Len(got[g]) = b + receive_num[g]
    BY <2>3, <2>5, <2>7, <2>8, <2>9, <2>10
  <2> HIDE DEF x, y, k, a, b
  <2> QED BY SMTT(30), <1>3, <2>5, <2>6, <2>9, <2>11
<1> QED BY <1>4, <1>5

LEMMA Predecessor ==
    ASSUME NEW n \in Nat, NEW x \in 1 .. n, x # 1, NEW y \in Nat, y < x
    PROVE  x - 1 \in 1 .. n /\ y <= x - 1 /\ x - 1 + 1 = x
OBVIOUS

(* The last Reduce has slots beside the last chunk before it. *)
LEMMA ReduceFits ==
    ASSUME Good, ~ ReducesToOneRoot(program), NEW c \in Chunks, NEW d \in Chunks,
           Psn(c) <= Psn(d), ~ IsAllReduce(CallOf(d)), ~ Freed(c),
           NEW g \in Hosts, Psn(d) < Len(sent[g])
    PROVE  Psn(d) - Psn(c) < N
<1>1. /\ c[1] \in Calls /\ c[1] \in Nat /\ c[2] \in Int /\ c[2] >= 1
      /\ At(c[1]) \in Nat /\ Psn(c) \in Nat /\ Psn(c) = At(c[1]) + c[2]
      /\ Index(c) \in Nat
  BY GoodTypes, ChunkFacts
<1>2. /\ d[1] \in Calls /\ d[1] \in Nat /\ d[2] \in 1 .. CallOf(d).len
      /\ CallOf(d).len \in Nat
      /\ At(d[1]) \in Nat /\ Psn(d) \in Nat /\ Psn(d) = At(d[1]) + d[2]
  BY GoodTypes, ChunkFacts
<1>3. N \in Nat /\ CallOf(d).len + 1 < N
  <2>1. CallOf(d).len + 1 < N
    BY <1>2, GoodTypes DEF Orderly, Fits, Calls, CallOf
  <2> QED BY <2>1, SizesAssumption
<1>4. IsReduce(program[d[1]]) /\ d[1] = Len(program)
  <2>1. IsReduce(program[d[1]])
    BY <1>2, GoodTypes, OrderlyCalls DEF IsReduce, IsAllReduce, CallOf
  <2> QED BY <1>2, <2>1, GoodTypes, OrderlyCalls
<1>5. c[1] <= d[1]
  BY GoodTypes, ChunkOrder
<1> DEFINE m == CallOf(d).len
<1>6. Psn(d) <= At(d[1]) + m /\ m \in Nat
  BY <1>2
<1>7. m + 1 < N
  BY <1>3
<1> HIDE DEF m
<1>8. CASE c[1] = d[1]
  <2>1. At(c[1]) = At(d[1])
    BY <1>8
  <2> QED BY SMTT(30), <1>1, <1>2, <1>3, <1>6, <1>7, <2>1
<1>9. CASE c[1] # d[1]
  <2> DEFINE o == d[1] - 1
             e == <<o, program[o].len>>
  <2>1. o \in Calls /\ o + 1 = d[1] /\ o \in Nat /\ c[1] <= o
    <3>1. d[1] \in 1 .. Len(program) /\ c[1] >= 1 /\ Len(program) \in Nat
      BY SMTT(30), <1>1, <1>2, GoodTypes DEF Calls
    <3>2. c[1] < d[1] /\ d[1] # 1
      BY SMTT(30), <1>1, <1>2, <1>5, <1>9, <3>1
    <3> c[1] \in Nat
      BY <1>1
    <3>3. d[1] - 1 \in 1 .. Len(program) /\ c[1] <= d[1] - 1 /\ d[1] - 1 + 1 = d[1]
      BY ONLY <3>1, <3>2, c[1] \in Nat, Predecessor
    <3>4. o \in 1 .. Len(program) /\ c[1] <= o /\ o + 1 = d[1]
      BY <3>3
    <3> HIDE DEF o
    <3> QED BY <3>1, <3>4 DEF Calls
  <2>2. /\ e \in Chunks /\ e[1] = o /\ Psn(e) = At(o + 1) - 1
    BY <2>1, GoodTypes, LastChunk
  <2> HIDE DEF e, o
  <2>3. ReducesToOneRoot(program) \/ ~ IsReduce(program[o])
    BY <1>4, <2>1, GoodTypes, OrderlyCalls
  <2>4. Receiver(g, e)
    BY <2>1, <2>2, <2>3, GoodTypes, OrderlyCalls
       DEF Receiver, CallOf, IsReduce, IsAllReduce
  <2>5. e[1] < op[g]
    <3>1. d[1] <= op[g] /\ op[g] \in Nat
      BY SentChunk, GoodTypes
    <3> QED BY <1>2, <2>1, <2>2, <3>1
  <2>6. Psn(e) <= Psn(c)
    BY <2>2, <2>4, <2>5, CallReceived, UnfinishedBounds
  <2>7. At(d[1]) - 1 <= Psn(c)
    BY <2>1, <2>2, <2>6
  <2> QED BY <1>1, <1>2, <1>3, <1>6, <1>7, <2>7
<1> QED BY <1>8, <1>9

(* Two chunks that some host has begun to send and that are not finished do *)
(* not share a slot.                                                        *)
LEMMA OwnSlot ==
    ASSUME Good, NEW c \in Chunks, NEW d \in Chunks, ~ Freed(c), ~ Freed(d),
           Idx(Psn(c)) = Idx(Psn(d)),
           \E g \in Hosts : Psn(c) < Len(sent[g]),
           \E g \in Hosts : Psn(d) < Len(sent[g])
    PROVE  c = d
<1>1. \A e, f \in Chunks :
         /\ Psn(e) <= Psn(f) /\ ~ Freed(e)
         /\ \E g \in Hosts : Psn(f) < Len(sent[g])
         => Psn(f) - Psn(e) < N
  BY ReducesFit, WindowFits, ReduceFits
<1>2. Psn(c) \in Nat /\ Psn(d) \in Nat /\ N \in Nat \ {0}
  BY GoodTypes, ChunkFacts, SizesAssumption
<1>3. Psn(c) - Psn(d) < N /\ Psn(d) - Psn(c) < N
  BY <1>1, <1>2
<1>4. Psn(c) = Psn(d)
  BY <1>2, <1>3, SlotInjective DEF Idx
<1> QED BY <1>4, GoodTypes, ChunkOrder

------------------------------------------------------------------------------
(* Control messages and metadata. *)

(* A call whose control message was sent has begun. *)
LEMMA CallBegun ==
    ASSUME Good, NEW h \in Hosts, NEW o \in Calls
    PROVE  At(o) < Len(sent[h]) <=> o < op[h] \/ (o = op[h] /\ phase[h] # "start")
<1>1. o \in 1 .. Len(program) + 1 /\ o \in Nat /\ At(o) \in Nat
  BY GoodTypes, AtGrows DEF Calls
<1>2. /\ Len(sent[h]) = At(op[h]) + IF phase[h] = "start" THEN 0
                                                          ELSE 1 + send_num[h]
      /\ send_num[h] \in Nat /\ At(op[h]) \in Nat
      /\ op[h] \in 1 .. Len(program) + 1 /\ op[h] \in Nat
      /\ Len(program) \in Nat
  BY GoodTypes, GoodParts DEF SentInv
<1>3. CASE o < op[h]
  <2>1. o \in 1 .. op[h]
    BY <1>1, <1>2, <1>3
  <2>2. At(op[h]) >= At(o) + (op[h] - o)
    BY <1>2, <2>1, GoodTypes, AtOrder
  <2>3. At(op[h]) > At(o)
    BY <1>1, <1>2, <1>3, <2>2
  <2> QED BY <1>1, <1>2, <1>3, <2>3
<1>4. CASE o = op[h]
  BY <1>1, <1>2, <1>4
<1>5. CASE op[h] < o
  <2>1. op[h] \in Calls /\ op[h] + 1 \in 1 .. o
    BY <1>1, <1>2, <1>5 DEF Calls
  <2>2. At(o) >= At(op[h] + 1) + (o - (op[h] + 1)) /\ At(op[h] + 1) \in Nat
    BY <1>1, <2>1, GoodTypes, AtOrder
  <2>3. At(op[h] + 1) = At(op[h]) + program[op[h]].len + 1
    BY <2>1, GoodTypes, AtNext
  <2>4. /\ phase[h] # "run" => send_num[h] = 0
        /\ phase[h] = "run" => send_num[h] <= program[op[h]].len
    BY GoodParts DEF CallInv, message_num, Call
  <2>5. program[op[h]].len \in Nat
    BY <2>1, GoodTypes, ProgramCalls
  <2>6. Len(sent[h]) <= At(op[h] + 1)
    <3> DEFINE m == program[op[h]].len
    <3>1. m \in Nat /\ At(op[h] + 1) = At(op[h]) + m + 1
      BY <2>3, <2>5
    <3>2. send_num[h] <= m
      BY <1>2, <2>4, <2>5
    <3> HIDE DEF m
    <3> QED BY <1>2, <3>1, <3>2
  <2>7. ~ (At(o) < Len(sent[h]))
    BY SMTT(30), <1>1, <1>2, <1>5, <2>2, <2>6, GoodTypes
  <2> QED BY <1>1, <1>2, <1>5, <2>7
<1> QED BY <1>1, <1>2, <1>3, <1>4, <1>5

(* A control message whose metadata are set, half of them at least, is that *)
(* of a call the host has begun.                                            *)
LEMMA AnnouncedCalls ==
    ASSUME Good, NEW g \in Hosts, NEW q \in Typed(g)
    PROVE  q \in Calls /\ q \in Nat /\ q <= op[g]
<1>1. /\ ctl[g] \in Nat /\ ctl[g] <= Len(program) /\ Len(program) \in Nat
      /\ ctl[g] > 0 => At(ctl[g]) < agg_epsn[g]
      /\ agg_epsn[g] \in Nat /\ agg_epsn[g] <= Len(sent[g])
      /\ op[g] \in Nat /\ Len(sent[g]) \in Nat
  BY GoodTypes, GoodParts DEF ControlInv, AckInv
<1>2. ASSUME NEW o \in Calls, At(o) < Len(sent[g])
      PROVE  o \in Nat /\ o <= op[g]
  <2>1. o \in Nat
    BY DEF Calls
  <2> QED BY <1>1, <1>2, <2>1, CallBegun
<1>3. CASE InControl(g)
  <2>1. ctl[g] + 1 \in Calls /\ cur[g] = At(ctl[g] + 1) /\ cur[g] \in Psns(g)
    BY <1>3, GoodParts DEF ControlHandlerInv, HandlerInv, InControl
  <2>2. At(ctl[g] + 1) < Len(sent[g])
    BY <1>1, <2>1 DEF Psns
  <2>3. ctl[g] + 1 <= op[g]
    BY <1>2, <2>1, <2>2
  <2>4. q \in 1 .. ctl[g] + 1
    BY <1>3 DEF Typed
  <2> QED BY <1>1, <2>1, <2>3, <2>4 DEF Calls
<1>4. CASE ~ InControl(g)
  <2>1. q \in 1 .. ctl[g]
    BY <1>4 DEF Typed
  <2>2. ctl[g] \in Calls /\ ctl[g] > 0
    BY <1>1, <2>1 DEF Calls
  <2>3. At(ctl[g]) \in Nat
    BY <1>1, <2>2, GoodTypes, AtGrows DEF Calls
  <2>4. ctl[g] <= op[g]
    BY <1>1, <1>2, <2>2, <2>3
  <2> QED BY <1>1, <2>1, <2>4 DEF Calls
<1> QED BY <1>3, <1>4

(* The thread that has a packet on its hands, or expects it, finds the      *)
(* metadata of the packet's call.                                           *)
LEMMA MetaFor ==
    ASSUME Good, NEW h \in Hosts, NEW c \in Chunks, Psn(c) = Added(h)
    PROVE  /\ operation_type = CallOf(c).prim
           /\ IsReduce(CallOf(c)) => root_rank = CallOf(c).root
<1>1. c[1] \in Calls /\ c[1] \in Nat /\ c[1] >= 1
  BY GoodTypes, ChunkFacts DEF Calls
<1>2. c[1] \in 1 .. ctl[h]
  <2>1. /\ ctl[h] \in Nat /\ ctl[h] <= Len(program) /\ Len(program) \in Nat
        /\ agg_epsn[h] <= At(ctl[h] + 1)
    BY GoodTypes, GoodParts DEF ControlInv
  <2>2. ctl[h] + 1 \in 1 .. Len(program) + 1
    BY <2>1
  <2>3. At(ctl[h] + 1) \in Nat /\ agg_epsn[h] \in Nat /\ Psn(c) \in Nat
    BY <2>2, GoodTypes, AtGrows, ChunkFacts
  <2>4. Psn(c) # At(ctl[h] + 1)
    BY <2>2, GoodTypes, ChunkAndCall
  <2>5. Psn(c) < At(ctl[h] + 1)
    BY <2>1, <2>3, <2>4, AddedFacts
  <2>6. c[1] < ctl[h] + 1
    BY <2>2, <2>5, GoodTypes, ChunkAndCall
  <2> QED BY <1>1, <2>1, <2>6
<1>3. CASE IsReduce(CallOf(c))
  <2>1. c[1] \in Rooted(h)
    BY <1>2, GoodTypes DEF Rooted
  <2> QED BY <1>3, <2>1 DEF Good, Order, MetaInv, CallOf, IsReduce
<1>4. CASE ~ IsReduce(CallOf(c))
  <2>1. IsAllReduce(CallOf(c))
    BY <1>1, <1>4, GoodTypes, OrderlyCalls DEF IsReduce, IsAllReduce, CallOf
  <2>2. SUFFICES ASSUME operation_type # "allreduce" PROVE FALSE
    BY <1>4, <2>1 DEF IsAllReduce
  <2>3. PICK g \in Hosts : \E o \in Typed(g) : IsReduce(program[o])
    BY <2>2 DEF Good, Order, MetaInv
  <2>4. PICK o \in Typed(g) : IsReduce(program[o])
    BY <2>3
  <2>5. o \in Calls /\ o \in Nat /\ o <= op[g] /\ op[g] \in Nat
    BY AnnouncedCalls, GoodTypes
  <2>6. c[1] < o
    BY <1>1, <2>1, <2>4, <2>5, GoodTypes, OrderlyCalls DEF CallOf
  <2>7. c[1] < op[g]
    BY <1>1, <2>5, <2>6
  <2>8. Full(c)
    BY <2>1, <2>7, CallReceived DEF Receiver
  <2> QED BY <2>8, AddedFacts DEF Full
<1> QED BY <1>3, <1>4

(* Control messages are counted by their calls. *)
LEMMA CountControls ==
    ASSUME TypeOK, NEW k \in 0 .. Len(program)
    PROVE  LET S == {At(o) : o \in 1 .. k}
           IN  IsFiniteSet(S) /\ Cardinality(S) = k
<1> DEFINE S == {At(o) : o \in 1 .. k}
           f == [o \in 1 .. k |-> At(o)]
<1>1. Len(program) \in Nat /\ k \in Nat
  BY ProgramCalls
<1>2. ASSUME NEW o \in 1 .. k, NEW q \in 1 .. k, At(o) = At(q)
      PROVE  o = q
  <2>1. /\ o \in 1 .. Len(program) + 1 /\ q \in 1 .. Len(program) + 1
        /\ o \in Nat /\ q \in Nat
    BY <1>1
  <2>2. At(o) \in Nat /\ At(q) \in Nat
    BY <2>1, AtGrows
  <2>3. CASE o < q
    <3>1. At(q) >= At(o) + (q - o)
      BY <2>1, <2>3, AtOrder
    <3> QED BY <1>2, <2>1, <2>2, <2>3, <3>1
  <2>4. CASE q < o
    <3>1. At(o) >= At(q) + (o - q)
      BY <2>1, <2>4, AtOrder
    <3> QED BY <1>2, <2>1, <2>2, <2>4, <3>1
  <2> QED BY <2>1, <2>3, <2>4
<1>3. f \in [1 .. k -> S] /\ \A y \in S : \E o \in 1 .. k : f[o] = y
  OBVIOUS
<1>4. \A o, q \in 1 .. k : f[o] = f[q] => o = q
  BY <1>2
<1> HIDE DEF f, S
<1>5. f \in Bijection(1 .. k, S)
  BY <1>3, <1>4 DEF Bijection, Injection, Surjection, IsInjective
<1>6. ExistsBijection(1 .. k, S)
  BY <1>5 DEF ExistsBijection
<1> QED BY <1>1, <1>6, FS_CountingElements, FS_NatBijection DEF S

(* The control messages a host has sent are those of the calls it began. *)
LEMMA ControlsSent ==
    ASSUME Good, NEW h \in Hosts
    PROVE  ControlPsns(h) =
              {At(o) : o \in 1 .. IF phase[h] = "start" THEN op[h] - 1 ELSE op[h]}
<1> DEFINE s == IF phase[h] = "start" THEN op[h] - 1 ELSE op[h]
<1>1. /\ op[h] \in Nat /\ op[h] \in 1 .. Len(program) + 1 /\ Len(program) \in Nat
      /\ phase[h] # "start" => op[h] \in Calls
      /\ Len(sent[h]) \in Nat
  BY GoodTypes, GoodParts DEF CallInv
<1>2. s \in Nat /\ \A o \in Int : o \in 1 .. s <=>
                          /\ o \in Calls
                          /\ o < op[h] \/ (o = op[h] /\ phase[h] # "start")
  BY <1>1 DEF Calls
<1>3. ASSUME NEW psn \in ControlPsns(h)
      PROVE  psn \in {At(o) : o \in 1 .. s}
  <2> DEFINE o == Message(h, psn).call
  <2>1. psn \in Psns(h) /\ Message(h, psn).kind = "ctl"
    BY DEF ControlPsns
  <2>2. psn < Len(sent[h]) /\ o \in Calls /\ psn = At(o)
    BY <2>1, MessagePsn
  <2> HIDE DEF o
  <2>3. o \in Int
    BY <2>2 DEF Calls
  <2>4. o \in 1 .. s
    BY <1>2, <2>2, <2>3, CallBegun
  <2> QED BY <2>2, <2>4
<1>4. ASSUME NEW o \in 1 .. s
      PROVE  At(o) \in ControlPsns(h)
  <2>1. o \in Int
    OBVIOUS
  <2>2. o \in Calls /\ At(o) < Len(sent[h])
    BY <1>2, <2>1, CallBegun
  <2>3. o \in 1 .. Len(program) + 1
    BY <1>1, <2>2 DEF Calls
  <2>4. At(o) \in Nat
    BY <2>3, GoodTypes, AtGrows
  <2>5. At(o) \in Psns(h)
    BY <1>1, <2>2, <2>4 DEF Psns
  <2>6. Message(h, At(o)).kind # "data"
    BY <2>3, <2>5, MessagePsn, GoodTypes, ChunkAndCall
  <2>7. Message(h, At(o)).kind = "ctl"
    BY <2>5, <2>6, MessagePsn
  <2> QED BY <2>5, <2>7 DEF ControlPsns
<1> QED BY <1>3, <1>4

(* The next control message is that of the next call, and it comes in its  *)
(* turn: everything before it has been accepted.                           *)
LEMMA ControlTurn ==
    ASSUME Good, NEW h \in Hosts, ctl[h] < Cardinality(ControlPsns(h))
    PROVE  /\ ctl[h] + 1 \in Calls
           /\ NextControl(h) \in Psns(h)
           /\ NextControl(h) = At(ctl[h] + 1)
           /\ Message(h, NextControl(h)).call = ctl[h] + 1
           /\ agg_epsn[h] = At(ctl[h] + 1)
<1> DEFINE s == IF phase[h] = "start" THEN op[h] - 1 ELSE op[h]
           S == ControlPsns(h)
           k == ctl[h] + 1
           Below(x) == {p \in S : p < x}
<1>1. /\ op[h] \in Nat /\ op[h] \in 1 .. Len(program) + 1 /\ Len(program) \in Nat
      /\ phase[h] # "start" => op[h] \in Calls
      /\ ctl[h] \in Nat
  BY GoodTypes, GoodParts DEF CallInv
<1>2. s \in 0 .. Len(program) /\ s <= op[h]
  BY <1>1 DEF Calls
<1>3. S = {At(o) : o \in 1 .. s}
  BY ControlsSent
<1> HIDE DEF S, s
<1>4. IsFiniteSet(S) /\ Cardinality(S) = s
  BY <1>2, <1>3, GoodTypes, CountControls
<1>5. k \in Nat /\ k >= 1 /\ k <= s /\ k \in Calls /\ ctl[h] \in 0 .. Len(program)
  BY <1>1, <1>2, <1>4 DEF S, Calls
<1>6. At(k) \in S
  BY <1>2, <1>3, <1>5
<1>7. \A o \in 1 .. s : At(o) \in Nat /\ (At(o) < At(k) <=> o < k)
  <2> SUFFICES ASSUME NEW o \in 1 .. s
               PROVE  At(o) \in Nat /\ (At(o) < At(k) <=> o < k)
    OBVIOUS
  <2>1. o \in 1 .. Len(program) + 1 /\ k \in 1 .. Len(program) + 1 /\ o \in Nat
    BY <1>1, <1>2, <1>5
  <2>2. At(o) \in Nat /\ At(k) \in Nat
    BY <2>1, GoodTypes, AtGrows
  <2>3. CASE o < k
    <3>1. o \in 1 .. k
      BY <1>5, <2>1, <2>3
    <3>2. At(k) >= At(o) + (k - o)
      BY <2>1, <3>1, GoodTypes, AtOrder
    <3> QED BY <1>5, <2>1, <2>2, <2>3, <3>2
  <2>4. CASE ~ (o < k)
    <3>1. k \in 1 .. o
      BY <1>5, <2>1, <2>4
    <3>2. At(o) >= At(k) + (o - k)
      BY <2>1, <3>1, GoodTypes, AtOrder
    <3> QED BY <1>5, <2>1, <2>2, <2>4, <3>2
  <2> QED BY <2>3, <2>4
<1>8. Below(At(k)) = {At(o) : o \in 1 .. ctl[h]}
  <2>1. \A o \in 1 .. s : o < k <=> o \in 1 .. ctl[h]
    BY <1>1, <1>5
  <2>2. \A o \in 1 .. ctl[h] : o \in 1 .. s
    BY <1>1, <1>2, <1>5
  <2> HIDE DEF k
  <2> QED BY <1>3, <1>7, <2>1, <2>2
<1>9. Cardinality(Below(At(k))) = ctl[h]
  BY <1>5, <1>8, GoodTypes, CountControls
<1>10. ASSUME NEW x \in S, Cardinality(Below(x)) = ctl[h]
       PROVE  x = At(k)
  <2> DEFINE y == At(k)
  <2>1. \A u \in S : u \in Nat
    BY <1>3, <1>7
  <2>2. y \in S /\ Cardinality(Below(y)) = ctl[h]
    BY <1>6, <1>9
  <2> HIDE DEF y
  <2>3. ASSUME NEW u \in S, NEW v \in S, u < v
        PROVE  Cardinality(Below(u)) # Cardinality(Below(v))
    <3>1. Below(u) \subseteq Below(v)
      BY <2>1, <2>3
    <3>2. u \in Below(v) /\ u \notin Below(u)
      BY <2>1, <2>3
    <3>3. IsFiniteSet(Below(v))
      BY <1>4, FS_Subset
    <3> HIDE DEF Below
    <3> QED BY <3>1, <3>2, <3>3, FS_Subset
  <2>4. ~ (x < y) /\ ~ (y < x)
    BY <1>10, <2>2, <2>3
  <2>5. x = y
    BY <2>1, <2>2, <2>4
  <2> QED BY <2>5 DEF y
<1>11. NextControl(h) = At(k)
  <2>1. NextControl(h) = CHOOSE x \in S : Cardinality(Below(x)) = ctl[h]
    BY DEF NextControl, S
  <2> HIDE DEF Below
  <2> QED BY <1>6, <1>9, <1>10, <2>1
<1>12. At(k) \in Psns(h) /\ Message(h, At(k)).kind = "ctl"
  BY <1>6 DEF S, ControlPsns
<1>13. Message(h, At(k)).call = k
  <2> DEFINE o == Message(h, At(k)).call
  <2>1. o \in Calls /\ At(k) = At(o)
    BY <1>12, MessagePsn
  <2> HIDE DEF o
  <2>2. o \in 1 .. s
    <3>1. At(o) < Len(sent[h])
      BY <1>12, <2>1, MessagePsn
    <3>2. o < op[h] \/ (o = op[h] /\ phase[h] # "start")
      BY <2>1, <3>1, CallBegun
    <3> QED BY <1>1, <2>1, <3>2 DEF s, Calls
  <2>3. k \in 1 .. s /\ o \in Nat
    BY <1>2, <1>5, <2>2
  <2>4. ~ (o < k)
    BY <1>7, <2>1, <2>2
  <2>5. ~ (k < o)
    <3> SUFFICES ASSUME k < o PROVE FALSE
      OBVIOUS
    <3>1. /\ k \in 1 .. o /\ o \in 1 .. Len(program) + 1
      BY <1>5, <2>1, <2>3, <1>1 DEF Calls
    <3>2. At(o) \in Nat /\ At(k) \in Nat /\ At(o) >= At(k) + (o - k)
      BY <3>1, GoodTypes, AtOrder
    <3> QED BY <1>5, <2>1, <2>3, <3>2
  <2> QED BY <1>5, <2>3, <2>4, <2>5 DEF o
<1>14. agg_epsn[h] = At(k)
  <2>1. agg_epsn[h] <= At(k)
    BY GoodParts DEF ControlInv
  <2>2. k <= op[h]
    BY <1>1, <1>2, <1>5
  <2>3. At(k) <= agg_epsn[h]
    BY <1>5, <2>2, GoodParts DEF AckInv
  <2>4. At(k) \in Nat /\ agg_epsn[h] \in Nat
    BY <1>12, MessagePsn, GoodTypes
  <2> QED BY <2>1, <2>3, <2>4
<1> QED BY <1>5, <1>11, <1>12, <1>13, <1>14

------------------------------------------------------------------------------
(* What a step leaves as it is. *)

LEMMA SameChunks ==
    ASSUME program' = program
    PROVE  /\ Calls' = Calls /\ Chunks' = Chunks
           /\ \A o : At(o)' = At(o) /\ Before(o)' = Before(o)
           /\ \A c : /\ Psn(c)' = Psn(c) /\ CallOf(c)' = CallOf(c)
                     /\ Index(c)' = Index(c) /\ Expected(c)' = Expected(c)
           /\ \A g, c : Receiver(g, c)' <=> Receiver(g, c)
           /\ Orderly(program)' <=> Orderly(program)
<1>1. Calls' = Calls /\ Chunks' = Chunks
  BY SameProgram
<1>2. \A o : At(o)' = At(o)
  BY DEF At
<1>3. \A o : Before(o)' = Before(o)
  BY <1>2 DEF Before
<1>4. \A c : Psn(c)' = Psn(c) /\ CallOf(c)' = CallOf(c) /\ Index(c)' = Index(c)
  BY <1>2, <1>3 DEF Psn, CallOf, Index
<1>5. \A c : Expected(c)' = Expected(c)
  BY DEF Expected, From, NoData
<1>6. \A g, c : Receiver(g, c)' <=> Receiver(g, c)
  BY <1>4 DEF Receiver
<1> QED BY <1>1, <1>2, <1>3, <1>4, <1>5, <1>6

(* A caller that does not move, and what it knows. *)
LEMMA CallerStays ==
    ASSUME Good, program' = program, NEW g \in Hosts,
           op'[g] = op[g], phase'[g] = phase[g], send_num'[g] = send_num[g],
           receive_num'[g] = receive_num[g],
           send_complete'[g] = send_complete[g],
           sent'[g] = sent[g], got'[g] = got[g],
           arrived[g] <= arrived'[g], arrived'[g] \in Nat
    PROVE  SentInv(g)' /\ GotInv(g)'
<1>1. SentInv(g) /\ GotInv(g)
  BY GoodParts
<1>2. /\ Calls' = Calls /\ Chunks' = Chunks
      /\ \A o : At(o)' = At(o) /\ Before(o)' = Before(o)
      /\ \A c : Psn(c)' = Psn(c) /\ Index(c)' = Index(c)
      /\ \A c : Receiver(g, c)' <=> Receiver(g, c)
  BY SameChunks
<1>3. /\ InCall(g)' <=> InCall(g)
      /\ Call(g)' = Call(g) /\ message_num(g)' = message_num(g)
  BY <1>2 DEF InCall, Call, message_num
<1>4. Receives(g)' = Receives(g)
  BY <1>3 DEF Receives, IsRoot
<1>5. Progress(g)' = Progress(g)
  BY <1>4 DEF Progress
<1>6. Psns(g)' = Psns(g) /\ \A psn : Message(g, psn)' = Message(g, psn)
  BY DEF Psns, Message
<1>7. SentInv(g)'
  BY <1>1, <1>2, <1>3, <1>5, <1>6 DEF SentInv
<1>8. Len(got[g]) <= arrived'[g]
  BY <1>1, GoodTypes DEF GotInv
<1>9. GotInv(g)'
  BY <1>1, <1>2, <1>3, <1>4, <1>8 DEF GotInv
<1> QED BY <1>7, <1>9

(* What has been accepted of it. *)
LEMMA AckStays ==
    ASSUME Good, program' = program, NEW g \in Hosts,
           op'[g] = op[g], phase'[g] = phase[g],
           send_complete'[g] = send_complete[g], polled'[g] = polled[g],
           acked'[g] = acked[g], agg_epsn'[g] = agg_epsn[g], ctl'[g] = ctl[g],
           Len(sent[g]) <= Len(sent'[g]), Len(sent'[g]) \in Nat
    PROVE  AckInv(g)' /\ ControlInv(g)'
<1>1. AckInv(g) /\ ControlInv(g)
  BY GoodParts
<1>2. Calls' = Calls /\ \A o : At(o)' = At(o)
  BY SameChunks
<1>3. (InCall(g)' <=> InCall(g)) /\ Call(g)' = Call(g)
  BY <1>2 DEF InCall, Call
<1>4. Receives(g)' = Receives(g)
  BY <1>3 DEF Receives, IsRoot
<1>5. ReducesToOneRoot(program)' = ReducesToOneRoot(program)
  OBVIOUS
<1>6. agg_epsn[g] <= Len(sent'[g])
  BY <1>1, GoodTypes DEF AckInv
<1>7. AckInv(g)'
  BY <1>1, <1>2, <1>3, <1>4, <1>5, <1>6 DEF AckInv
<1>8. ControlInv(g)'
  BY <1>1, <1>2 DEF ControlInv
<1> QED BY <1>7, <1>8

(* Metadata and the control messages handled. *)
LEMMA MetaStays ==
    ASSUME Good, program' = program, ctl' = ctl, UNCHANGED metaVars,
           \A g \in Hosts : InControl(g) \/ InControl(g)' =>
              /\ pc'[g] = pc[g] /\ cur'[g] = cur[g] /\ agg_epsn'[g] = agg_epsn[g]
              /\ prim'[g] = prim[g] /\ param'[g] = param[g]
    PROVE  MetaInv'
<1>1. MetaInv
  BY DEF Good, Order
<1>2. ASSUME NEW g \in Hosts
      PROVE  /\ ControlHandlerInv(g)'
             /\ Typed(g)' = Typed(g) /\ Rooted(g)' = Rooted(g)
  <2>1. ControlHandlerInv(g)
    BY GoodParts
  <2>2. Calls' = Calls /\ \A o : At(o)' = At(o)
    BY SameChunks
  <2>3. CASE InControl(g) \/ InControl(g)'
    <3>1. /\ pc'[g] = pc[g] /\ cur'[g] = cur[g] /\ agg_epsn'[g] = agg_epsn[g]
          /\ prim'[g] = prim[g] /\ param'[g] = param[g]
      BY <2>3
    <3> QED BY <2>1, <2>2, <3>1
            DEF ControlHandlerInv, InControl, Typed, Rooted, metaVars
  <2>4. CASE ~ InControl(g) /\ ~ InControl(g)'
    <3>1. pc'[g] \notin {"meta", "control"} /\ pc[g] \notin {"meta", "control"}
      BY <2>4 DEF InControl
    <3> QED BY <3>1 DEF ControlHandlerInv, InControl, Typed, Rooted
  <2> QED BY <2>3, <2>4
<1> QED BY <1>1, <1>2 DEF MetaInv, metaVars, Hosts

(* The chunk on a thread's hands stays the same. *)
LEMMA InHandStays ==
    ASSUME Good, NEW h \in Hosts, Action(h), NEW g \in Hosts,
           pc[g] # "idle", cur'[g] = cur[g]
    PROVE  InHand(g)' = InHand(g)
<1>1. cur[g] \in Psns(g) /\ IInv
  BY GoodParts DEF Good, HandlerInv
<1>2. sent'[g][cur[g] + 1] = sent[g][cur[g] + 1]
  BY <1>1, SentGrows
<1> QED BY <1>2 DEF InHand, Message

(* A thread that does not move. *)
LEMMA ThreadStays ==
    ASSUME Good, NEW h \in Hosts, Action(h), NEW g \in Hosts,
           pc'[g] = pc[g],
           pc[g] # "idle" => /\ cur'[g] = cur[g] /\ agg_epsn'[g] = agg_epsn[g]
                             /\ prim'[g] = prim[g] /\ param'[g] = param[g]
                             /\ out_conns'[g] = out_conns[g]
                             /\ todo'[g] = todo[g],
           pc[g] = "send" => bcast_buffer' = bcast_buffer,
           operation_type = "reduce" => operation_type' = "reduce",
           \A c \in Chunks : Full(c) => Full(c)'
    PROVE  ThreadInv(g)'
<1>1. ThreadInv(g)
  BY GoodParts
<1>2. program' = program
  BY ProgramUnchanged
<1>3. CASE pc[g] = "idle" \/ InControl(g)
  BY <1>3 DEF ThreadInv, Busy, InControl
<1>4. CASE pc[g] # "idle" /\ ~ InControl(g)
  <2>1. InHand(g)' = InHand(g) /\ InHand(g) \in Chunks
    BY <1>4, InHandStays, InHandChunk
  <2>2. \A c : Expected(c)' = Expected(c) /\ CallOf(c)' = CallOf(c)
    BY <1>2, SameChunks
  <2>3. /\ Expected(InHand(g))' = Expected(InHand(g))
        /\ CallOf(InHand(g))' = CallOf(InHand(g))
    BY <1>2, <2>1 DEF Expected, From, NoData, CallOf
  <2>4. Busy(g)' => Full(InHand(g))'
    <3>1. Busy(g)' => Busy(g)
      BY DEF Busy
    <3>2. Busy(g) => Full(InHand(g))
      BY <1>1 DEF ThreadInv
    <3>3. Full(InHand(g)) => Full(InHand(g))'
      BY <1>2, <2>1, SameChunks DEF Full
    <3> QED BY <3>1, <3>2, <3>3
  <2>5. ~ InControl(g)'
    BY <1>4 DEF InControl
  <2> QED BY <1>1, <1>4, <2>3, <2>4, <2>5 DEF ThreadInv, Idx
<1> QED BY <1>3, <1>4

(* Steps that add nothing to a slot and free none. *)
LEMMA SlotsStay ==
    ASSUME Good, program' = program,
           \A g \in Hosts : \A c \in Chunks :
              Psn(c) < Added(g)' <=> Psn(c) < Added(g),
           \A t \in Hosts : /\ Busy(t)' <=> Busy(t)
                            /\ Busy(t) => /\ cur'[t] = cur[t] /\ pc'[t] = pc[t]
                                          /\ todo'[t] = todo[t],
           UNCHANGED <<slotVars, out>>
    PROVE  /\ OneBusy' /\ SlotInv'
           /\ \A g \in Hosts : OutInv(g)'
           /\ \A c \in Chunks : Full(c)' <=> Full(c)
<1>1. OneBusy /\ SlotInv
  BY DEF Good, Order
<1>2. /\ Chunks' = Chunks
      /\ \A c : /\ Psn(c)' = Psn(c) /\ Index(c)' = Index(c)
                /\ Expected(c)' = Expected(c)
      /\ \A g, c : Receiver(g, c)' <=> Receiver(g, c)
  BY SameChunks
<1>3. \A c \in Chunks : Full(c)' <=> Full(c)
  BY <1>2 DEF Full
<1>4. \A c \in Chunks : \A t \in Hosts : Serves(t, c)' <=> Serves(t, c)
  BY <1>2 DEF Serves
<1>5. \A c \in Chunks : Freed(c)' <=> Freed(c)
  BY <1>3, <1>4 DEF Freed
<1>6. \A c \in Chunks : \A g \in Hosts : SentTo(g, c)' <=> SentTo(g, c)
  <2>1. \A c \in Chunks : \A t \in Hosts :
           Serves(t, c) => pc'[t] = pc[t] /\ todo'[t] = todo[t]
    BY DEF Serves
  <2> QED BY <1>3, <1>4, <2>1 DEF SentTo
<1>7. OneBusy'
  BY <1>1 DEF OneBusy
<1>8. UNCHANGED <<degree, arrival, agg_buffer, out>>
  BY DEF slotVars
<1>9. \A c \in Chunks : Parts(c)' = Parts(c)
  BY <1>2 DEF Parts
<1>10. \A i : \A c \in Chunks : Owner(i, c)' <=> Owner(i, c)
  BY <1>2, <1>5 DEF Owner, Idx
<1>11. SlotInv'
  <2>1. ASSUME NEW i \in Slots
        PROVE  {h \in Hosts : \E c \in Chunks : Owner(i, c) /\ Psn(c) < Added(h)}'
               = {h \in Hosts : \E c \in Chunks : Owner(i, c) /\ Psn(c) < Added(h)}
    BY <1>2, <1>10
  <2>2. \A c \in Chunks : Idx(Psn(c))' = Idx(Psn(c))
    BY <1>2 DEF Idx
  <2> QED BY <1>1, <1>2, <1>5, <1>8, <1>9, <2>1, <2>2 DEF SlotInv
<1>12. ASSUME NEW g \in Hosts
       PROVE  OutInv(g)'
  <2>1. OutInv(g)
    BY GoodParts
  <2> QED BY <1>2, <1>6, <1>8, <2>1 DEF OutInv
<1> QED BY <1>3, <1>7, <1>11, <1>12

------------------------------------------------------------------------------
(* The steps of the callers. *)

(* Callers and NICs leave the switch alone. *)
LEMMA SwitchSame ==
    ASSUME Good, NEW h \in Hosts, Action(h), UNCHANGED switchVars
    PROVE  /\ MetaInv' /\ OneBusy' /\ SlotInv'
           /\ \A g \in Hosts : ThreadInv(g)' /\ OutInv(g)'
<1>1. program' = program
  BY ProgramUnchanged
<1>2. /\ UNCHANGED <<agg_epsn, bcast_buffer, pc, cur, prim, param, out_conns>>
      /\ UNCHANGED <<todo, ctl, out, slotVars, metaVars>>
  BY DEF switchVars, handlerVars
<1>3. \A g \in Hosts : Added(g)' = Added(g) /\ (Busy(g)' <=> Busy(g))
  BY <1>2 DEF Added, Busy
<1>4. /\ OneBusy' /\ SlotInv' /\ \A g \in Hosts : OutInv(g)'
      /\ \A c \in Chunks : Full(c)' <=> Full(c)
  BY <1>1, <1>2, <1>3, SlotsStay
<1>5. \A g \in Hosts : ThreadInv(g)'
  BY <1>2, <1>4, ThreadStays DEF metaVars
<1>6. MetaInv'
  BY <1>1, <1>2, MetaStays
<1> QED BY <1>4, <1>5, <1>6

CallerStep(h) == \/ Begin(h) \/ Start(h) \/ PollRecv(h) \/ PollSend(h)
                 \/ Return(h) \/ Arrive(h)

LEMMA CallerLeavesSwitch ==
    ASSUME NEW h \in Hosts, CallerStep(h)
    PROVE  Action(h) /\ UNCHANGED switchVars /\ acked' = acked
BY DEF CallerStep, Action, Begin, Start, PollRecv, PollSend, Return, Arrive

(* The other callers. *)
LEMMA OtherCallersStay ==
    ASSUME Good, NEW h \in Hosts, CallerStep(h), NEW g \in Hosts, g # h
    PROVE  SentInv(g)' /\ GotInv(g)' /\ AckInv(g)' /\ ControlInv(g)'
<1>1. /\ program' = program /\ acked' = acked
      /\ UNCHANGED <<agg_epsn, ctl>>
  BY CallerLeavesSwitch, ProgramUnchanged DEF switchVars
<1>2. /\ op'[g] = op[g] /\ phase'[g] = phase[g] /\ send_num'[g] = send_num[g]
      /\ receive_num'[g] = receive_num[g]
      /\ send_complete'[g] = send_complete[g]
      /\ sent'[g] = sent[g] /\ got'[g] = got[g] /\ arrived'[g] = arrived[g]
      /\ polled'[g] = polled[g]
  <2>1. /\ op \in [Hosts -> 1 .. Len(program) + 1]
        /\ phase \in [Hosts -> {"start", "ctl", "run"}]
        /\ send_num \in [Hosts -> Nat] /\ receive_num \in [Hosts -> Nat]
        /\ send_complete \in [Hosts -> Nat] /\ polled \in [Hosts -> Nat]
        /\ arrived \in [Hosts -> Nat]
        /\ sent \in [Hosts -> Seq(Messages)] /\ got \in [Hosts -> Seq(Results)]
    BY GoodTypes DEF TypeOK
  <2>2. CASE Begin(h)
    BY <2>1, <2>2 DEF Begin, nicVars
  <2>3. CASE Start(h)
    BY <2>1, <2>3 DEF Start, nicVars
  <2>4. CASE PollRecv(h)
    BY <2>1, <2>4 DEF PollRecv, PostNext, nicVars
  <2>5. CASE PollSend(h)
    BY <2>1, <2>5 DEF PollSend, PostNext, nicVars
  <2>6. CASE Return(h)
    BY <2>1, <2>6 DEF Return, nicVars, qpVars
  <2>7. CASE Arrive(h)
    BY <2>1, <2>7 DEF Arrive, callVars, qpVars
  <2> QED BY <2>2, <2>3, <2>4, <2>5, <2>6, <2>7 DEF CallerStep
<1>3. arrived[g] <= arrived'[g] /\ arrived'[g] \in Nat
      /\ Len(sent[g]) <= Len(sent'[g]) /\ Len(sent'[g]) \in Nat
  BY <1>2, GoodTypes
<1> QED BY <1>1, <1>2, <1>3, CallerStays, AckStays

(* Messages posted with the PSNs they should have. *)
LEMMA SentMore ==
    ASSUME Good, program' = program, NEW h \in Hosts, NEW s \in Seq(Messages),
           sent'[h] = sent[h] \o s,
           \A i \in 1 .. Len(s) :
              Len(sent[h]) + i - 1 = IF s[i].kind = "ctl" THEN At(s[i].call)
                                                          ELSE Psn(s[i].chunk)
    PROVE  /\ Len(sent'[h]) = Len(sent[h]) + Len(s)
           /\ \A psn \in Psns(h)' :
                 psn = IF Message(h, psn)'.kind = "ctl"
                       THEN At(Message(h, psn).call)'
                       ELSE Psn(Message(h, psn).chunk)'
<1>1. sent[h] \in Seq(Messages) /\ Len(sent[h]) \in Nat /\ Len(s) \in Nat
  BY GoodTypes, SequenceTypes
<1>2. Len(sent'[h]) = Len(sent[h]) + Len(s)
  BY <1>1
<1>3. ASSUME NEW psn \in Psns(h)'
      PROVE  psn = IF sent'[h][psn + 1].kind = "ctl"
                   THEN At(sent'[h][psn + 1].call)
                   ELSE Psn(sent'[h][psn + 1].chunk)
  <2>1. psn \in 0 .. Len(sent[h]) + Len(s) - 1
    BY <1>2 DEF Psns
  <2>2. CASE psn < Len(sent[h])
    <3>1. psn \in Psns(h) /\ sent'[h][psn + 1] = sent[h][psn + 1]
      BY <1>1, <2>1, <2>2 DEF Psns
    <3> QED BY <3>1, GoodParts DEF SentInv, Message
  <2>3. CASE ~ (psn < Len(sent[h]))
    <3> DEFINE i == psn + 1 - Len(sent[h])
    <3>1. i \in 1 .. Len(s) /\ psn = Len(sent[h]) + i - 1
      BY <1>1, <2>1, <2>3
    <3>2. sent'[h][psn + 1] = s[i]
      <4> DEFINE j == psn + 1
      <4>1. /\ j \in 1 .. Len(sent[h]) + Len(s) /\ ~ (j <= Len(sent[h]))
            /\ j - Len(sent[h]) = i
        BY <1>1, <2>1, <2>3
      <4>2. \A k \in 1 .. Len(sent[h]) + Len(s) :
               (sent[h] \o s)[k] = IF k <= Len(sent[h]) THEN sent[h][k]
                                   ELSE s[k - Len(sent[h])]
        BY <1>1, ConcatProperties
      <4> HIDE DEF j, i
      <4>3. (sent[h] \o s)[j] = s[i]
        BY <4>1, <4>2
      <4> QED BY <4>3 DEF j
    <3> HIDE DEF i
    <3> QED BY <3>1, <3>2
  <2> QED BY <2>2, <2>3
<1>4. ASSUME NEW psn
      PROVE  /\ Message(h, psn)' = sent'[h][psn + 1]
             /\ At(Message(h, psn).call)' = At(sent'[h][psn + 1].call)
             /\ Psn(Message(h, psn).chunk)' = Psn(sent'[h][psn + 1].chunk)
  BY DEF Message, At, Psn
<1> QED BY <1>2, <1>3, <1>4

LEMMA SentOne ==
    ASSUME Good, program' = program, NEW h \in Hosts, NEW e \in Messages,
           sent' = [sent EXCEPT ![h] = Append(@, e)],
           Len(sent[h]) = IF e.kind = "ctl" THEN At(e.call) ELSE Psn(e.chunk)
    PROVE  /\ Len(sent'[h]) = Len(sent[h]) + 1
           /\ \A psn \in Psns(h)' :
                 psn = IF Message(h, psn)'.kind = "ctl"
                       THEN At(Message(h, psn).call)'
                       ELSE Psn(Message(h, psn).chunk)'
<1>1. sent \in [Hosts -> Seq(Messages)] /\ sent[h] \in Seq(Messages)
      /\ Len(sent[h]) \in Nat
  BY GoodTypes, SequenceTypes
<1>2. sent'[h] = Append(sent[h], e)
  BY <1>1
<1>3. Append(sent[h], e) = sent[h] \o <<e>> /\ <<e>> \in Seq(Messages)
  <2>1. \A q \in Seq(Messages) : Append(q, e) = q \o <<e>>
    OBVIOUS
  <2> QED BY <1>1, <2>1
<1>4. Len(<<e>>) = 1 /\ <<e>>[1] = e
  OBVIOUS
<1>5. \A i \in 1 .. Len(<<e>>) :
         Len(sent[h]) + i - 1 = IF <<e>>[i].kind = "ctl" THEN At(<<e>>[i].call)
                                                         ELSE Psn(<<e>>[i].chunk)
  BY <1>1, <1>4
<1> QED BY <1>2, <1>3, <1>4, <1>5, SentMore

LEMMA SameCall ==
    ASSUME program' = program, NEW h \in Hosts, op'[h] = op[h]
    PROVE  /\ InCall(h)' <=> InCall(h)
           /\ Call(h)' = Call(h) /\ message_num(h)' = message_num(h)
           /\ Receives(h)' = Receives(h)
<1>1. Calls' = Calls
  BY SameChunks
<1>2. (InCall(h)' <=> InCall(h)) /\ Call(h)' = Call(h)
  BY <1>1 DEF InCall, Call
<1> QED BY <1>2 DEF message_num, Receives, IsRoot

(* The call a host is in. *)
LEMMA CurrentCall ==
    ASSUME Good, NEW h \in Hosts, InCall(h)
    PROVE  /\ op[h] \in Calls /\ op[h] \in Nat /\ op[h] <= Len(program)
           /\ op[h] + 1 \in 1 .. Len(program) + 1
           /\ program[op[h]] = Call(h) /\ program[op[h]].len = message_num(h)
           /\ message_num(h) \in Nat \ {0}
           /\ At(op[h]) \in Nat /\ Before(op[h]) \in Nat
           /\ At(op[h] + 1) = At(op[h]) + message_num(h) + 1
           /\ Before(op[h] + 1) = Before(op[h]) + message_num(h)
           /\ \A k \in 1 .. message_num(h) :
                 /\ <<op[h], k>> \in Chunks
                 /\ Psn(<<op[h], k>>) = At(op[h]) + k
                 /\ Index(<<op[h], k>>) = Before(op[h]) + k
<1>1. op[h] \in Calls /\ TypeOK
  BY GoodTypes
<1>2. op[h] \in Nat /\ op[h] <= Len(program) /\ op[h] + 1 \in 1 .. Len(program) + 1
  BY <1>1, GoodTypes DEF Calls
<1>3. program[op[h]].len \in Nat \ {0} /\ op[h] \in 1 .. Len(program) + 1
  BY <1>1, GoodTypes, ProgramCalls
<1>4. /\ program[op[h]] = Call(h) /\ program[op[h]].len = message_num(h)
  BY DEF Call, message_num
<1>5. \A k \in 1 .. message_num(h) :
         /\ <<op[h], k>> \in Chunks
         /\ Psn(<<op[h], k>>) = At(op[h]) + k
         /\ Index(<<op[h], k>>) = Before(op[h]) + k
  BY <1>1, <1>4, ProgramCalls DEF Psn, Index
<1>6. At(op[h]) \in Nat /\ Before(op[h]) \in Nat
  BY <1>1, <1>3, AtGrows, BeforeGrows
<1>7. /\ At(op[h] + 1) = At(op[h]) + message_num(h) + 1
      /\ Before(op[h] + 1) = Before(op[h]) + message_num(h)
  BY <1>1, <1>4, AtNext, BeforeGrows
<1> QED BY <1>1, <1>2, <1>3, <1>4, <1>5, <1>6, <1>7

(* What a step of the caller that stays in its call has to show. *)
LEMMA InvInCall ==
    ASSUME Good, NEW h \in Hosts, CallerStep(h), op'[h] = op[h],
           Len(sent'[h]) = At(op[h]) + IF phase'[h] = "start" THEN 0
                                       ELSE 1 + send_num'[h],
           Len(sent[h]) <= Len(sent'[h]),
           phase'[h] = "run" =>
              /\ send_num'[h] <= Window + Progress(h)'
              /\ send_num'[h] \in {message_num(h), Window + Progress(h)'},
           phase'[h] # "run" => send_complete'[h] = 0,
           \A psn \in Psns(h)' :
              psn = IF Message(h, psn)'.kind = "ctl"
                    THEN At(Message(h, psn).call)'
                    ELSE Psn(Message(h, psn).chunk)',
           Len(got'[h]) <= arrived'[h], Len(got[h]) <= Len(got'[h]),
           Len(got'[h]) \in Nat, Len(sent'[h]) \in Nat,
           InCall(h) /\ Receives(h)
              => Len(got'[h]) = Before(op[h]) + receive_num'[h],
           polled'[h] <= acked[h],
           InCall(h) /\ ~ Receives(h) /\ ReducesToOneRoot(program)
              => polled'[h] = At(op[h]) + IF phase'[h] = "run"
                                          THEN 1 + send_complete'[h] ELSE 0
    PROVE  SentInv(h)' /\ GotInv(h)' /\ AckInv(h)' /\ ControlInv(h)'
<1>1. /\ program' = program /\ acked' = acked
      /\ agg_epsn' = agg_epsn /\ ctl' = ctl
  BY CallerLeavesSwitch, ProgramUnchanged DEF switchVars
<1>2. /\ InCall(h)' <=> InCall(h)
      /\ Call(h)' = Call(h) /\ message_num(h)' = message_num(h)
      /\ Receives(h)' = Receives(h)
  BY <1>1, SameCall
<1>3. /\ Calls' = Calls /\ Chunks' = Chunks
      /\ \A o : At(o)' = At(o) /\ Before(o)' = Before(o)
      /\ \A c : Index(c)' = Index(c)
      /\ \A c : Receiver(h, c)' <=> Receiver(h, c)
  BY <1>1, SameChunks
<1>4. SentInv(h)'
  <2>1. At(op[h])' = At(op[h])
    BY <1>1 DEF At
  <2> QED BY <1>2, <1>3, <2>1 DEF SentInv
<1>5. GotInv(h)'
  <2>1. \A c \in Chunks : Receiver(h, c) /\ c[1] < op[h] => Index(c) <= Len(got'[h])
    <3>1. \A c \in Chunks : Receiver(h, c) /\ c[1] < op[h] => Index(c) <= Len(got[h])
      BY GoodParts DEF GotInv
    <3>2. \A c \in Chunks : Index(c) \in Nat /\ Len(got[h]) \in Nat
      BY GoodTypes, ChunkFacts
    <3> QED BY <3>1, <3>2
  <2>2. Before(op[h])' = Before(op[h])
    BY <1>1 DEF Before, At
  <2> QED BY <1>2, <1>3, <2>1, <2>2 DEF GotInv
<1>6. AckInv(h)'
  <2>1. AckInv(h) /\ agg_epsn[h] \in Nat /\ Len(sent[h]) \in Nat
    BY GoodParts, GoodTypes
  <2>2. agg_epsn[h] <= Len(sent'[h])
    BY <2>1 DEF AckInv
  <2>3. At(op[h])' = At(op[h])
    BY <1>1 DEF At
  <2>4. ReducesToOneRoot(program)' = ReducesToOneRoot(program)
    BY <1>1
  <2> QED BY <1>1, <1>2, <1>3, <2>1, <2>2, <2>3, <2>4 DEF AckInv
<1>7. ControlInv(h)'
  BY <1>1, <1>3, GoodParts DEF ControlInv
<1> QED BY <1>4, <1>5, <1>6, <1>7

LEMMA BeginOrder ==
    ASSUME Good, NEW h \in Hosts, Begin(h)
    PROVE  SentInv(h)' /\ GotInv(h)' /\ AckInv(h)' /\ ControlInv(h)'
<1>1. /\ InCall(h) /\ phase[h] = "start" /\ Sends(h) /\ program' = program
      /\ CallerStep(h)
  BY GoodTypes, OrderlyCaller DEF Begin, CallerStep
<1>2. /\ sent' = [sent EXCEPT ![h] = Append(@, Control(op[h]))]
      /\ phase' = [phase EXCEPT ![h] = "ctl"]
      /\ op' = op /\ got' = got /\ polled' = polled
      /\ send_num' = send_num /\ receive_num' = receive_num
      /\ send_complete' = send_complete /\ arrived' = arrived
  BY <1>1 DEF Begin, nicVars
<1>3. phase'[h] = "ctl"
  BY <1>2, GoodTypes, CallerTypes
<1>4. /\ Len(sent[h]) = At(op[h]) /\ send_num[h] = 0 /\ send_complete[h] = 0
  BY <1>1, GoodParts, GoodTypes DEF SentInv, CallInv
<1>5. /\ Control(op[h]) \in Messages /\ Control(op[h]).kind = "ctl"
      /\ Control(op[h]).call = op[h]
  BY <1>1, MessageTypes DEF Control, InCall
<1>6. /\ Len(sent'[h]) = Len(sent[h]) + 1
      /\ \A psn \in Psns(h)' :
            psn = IF Message(h, psn)'.kind = "ctl"
                  THEN At(Message(h, psn).call)'
                  ELSE Psn(Message(h, psn).chunk)'
  BY <1>1, <1>2, <1>4, <1>5, SentOne
<1>7. /\ Len(sent[h]) \in Nat /\ Len(got[h]) \in Nat /\ At(op[h]) \in Nat
  BY GoodTypes
<1>8. /\ Len(got[h]) <= arrived[h] /\ polled[h] <= acked[h]
      /\ Receives(h) => Len(got[h]) = Before(op[h]) + receive_num[h]
      /\ ~ Receives(h) /\ ReducesToOneRoot(program) => polled[h] = At(op[h]) + 0
  BY <1>1, GoodParts DEF GotInv, AckInv
<1> QED BY <1>1, <1>2, <1>3, <1>4, <1>6, <1>7, <1>8, InvInCall

LEMMA StartOrder ==
    ASSUME Good, NEW h \in Hosts, Start(h)
    PROVE  SentInv(h)' /\ GotInv(h)' /\ AckInv(h)' /\ ControlInv(h)'
<1> DEFINE window == Min({Window, message_num(h)})
           s == [k \in 1 .. window |-> Data(op[h], k)]
<1>1. /\ InCall(h) /\ phase[h] = "ctl" /\ program' = program
      /\ CallerStep(h)
  BY GoodParts DEF Start, CallerStep, CallInv
<1>2. /\ sent' = [sent EXCEPT ![h] = @ \o s]
      /\ phase' = [phase EXCEPT ![h] = "run"]
      /\ polled' = [polled EXCEPT ![h] = @ + 1]
      /\ send_num' = [send_num EXCEPT ![h] = window]
      /\ op' = op /\ got' = got /\ receive_num' = receive_num
      /\ send_complete' = send_complete /\ arrived' = arrived
      /\ polled[h] < acked[h]
  BY <1>1 DEF Start, nicVars
<1>3. /\ phase'[h] = "run" /\ sent'[h] = sent[h] \o s
      /\ polled'[h] = polled[h] + 1 /\ send_num'[h] = window
  BY <1>2, GoodTypes, CallerTypes, SequenceTypes
<1>4. /\ Len(sent[h]) = At(op[h]) + 1 /\ receive_num[h] = 0
      /\ send_complete[h] = 0
  BY <1>1, GoodParts, GoodTypes DEF SentInv, CallInv
<1>5. message_num(h) \in Nat \ {0} /\ Window \in Nat \ {0}
  BY <1>1, CurrentCall, SizesAssumption
<1>6. window \in Nat /\ window <= message_num(h) /\ window <= Window
      /\ window \in {message_num(h), Window}
  <2>1. \E x \in {Window, message_num(h)} : \A y \in {Window, message_num(h)} : x =< y
    BY <1>5
  <2>2. window \in {Window, message_num(h)}
    BY <2>1 DEF Min
  <2> QED BY <1>5, <2>2, MinOfTwo
<1> HIDE DEF window
<1>7. \A k \in 1 .. window :
         /\ k \in 1 .. message_num(h)
         /\ Data(op[h], k) \in Messages /\ Data(op[h], k).kind = "data"
         /\ Psn(Data(op[h], k).chunk) = At(op[h]) + k
  <2> SUFFICES ASSUME NEW k \in 1 .. window
               PROVE  /\ k \in 1 .. message_num(h)
                      /\ Data(op[h], k) \in Messages
                      /\ Data(op[h], k).kind = "data"
                      /\ Psn(Data(op[h], k).chunk) = At(op[h]) + k
    OBVIOUS
  <2>1. k \in 1 .. message_num(h)
    BY <1>5, <1>6
  <2> QED BY <1>1, <2>1, CurrentCall, MessageTypes DEF Data
<1>8. s \in Seq(Messages) /\ Len(s) = window
  BY <1>6, <1>7
<1>9. /\ Len(sent'[h]) = Len(sent[h]) + Len(s)
      /\ \A psn \in Psns(h)' :
            psn = IF Message(h, psn)'.kind = "ctl"
                  THEN At(Message(h, psn).call)'
                  ELSE Psn(Message(h, psn).chunk)'
  <2>1. \A i \in 1 .. Len(s) :
           Len(sent[h]) + i - 1 = IF s[i].kind = "ctl" THEN At(s[i].call)
                                                       ELSE Psn(s[i].chunk)
    <3> SUFFICES ASSUME NEW i \in 1 .. Len(s)
                 PROVE  Len(sent[h]) + i - 1 =
                           IF s[i].kind = "ctl" THEN At(s[i].call)
                                                ELSE Psn(s[i].chunk)
      OBVIOUS
    <3>1. i \in 1 .. window /\ s[i] = Data(op[h], i)
      BY <1>8
    <3>2. s[i].kind = "data" /\ Psn(s[i].chunk) = At(op[h]) + i
      BY <1>7, <3>1
    <3>3. i \in Int /\ At(op[h]) \in Nat
      BY <1>1, CurrentCall
    <3>4. Len(sent[h]) + i - 1 = At(op[h]) + i
      BY <1>4, <3>3
    <3> QED BY <3>2, <3>4
  <2> HIDE DEF s
  <2> QED BY <1>1, <1>3, <1>8, <2>1, SentMore
<1>10. /\ Len(sent[h]) \in Nat /\ Len(got[h]) \in Nat /\ At(op[h]) \in Nat
       /\ polled[h] \in Nat /\ acked[h] \in Nat
  BY GoodTypes
<1>11. /\ Len(got[h]) <= arrived[h]
       /\ Receives(h) => Len(got[h]) = Before(op[h]) + receive_num[h]
       /\ ~ Receives(h) /\ ReducesToOneRoot(program) => polled[h] = At(op[h])
  BY <1>1, <1>10, GoodParts DEF GotInv, AckInv
<1>12. Progress(h)' = 0
  <2>1. Receives(h)' = Receives(h)
    BY <1>1, <1>2, SameCall
  <2> QED BY <1>2, <1>4, <2>1 DEF Progress
<1> HIDE DEF s
<1>13. /\ Len(sent'[h]) = At(op[h]) + (1 + send_num'[h])
       /\ Len(sent[h]) <= Len(sent'[h]) /\ Len(sent'[h]) \in Nat
  BY <1>3, <1>4, <1>6, <1>8, <1>9, <1>10
<1>14. /\ send_num'[h] <= Window + Progress(h)'
       /\ send_num'[h] \in {message_num(h), Window + Progress(h)'}
  BY <1>3, <1>5, <1>6, <1>12
<1>15. polled'[h] <= acked[h] /\ polled'[h] = polled[h] + 1
  BY <1>2, <1>3, <1>10
<1>16. /\ got'[h] = got[h] /\ receive_num'[h] = receive_num[h]
       /\ arrived'[h] = arrived[h] /\ op'[h] = op[h] /\ send_complete'[h] = 0
  BY <1>2, <1>4
<1>17. ~ Receives(h) /\ ReducesToOneRoot(program)
          => polled'[h] = At(op[h]) + (1 + send_complete'[h])
  BY <1>10, <1>11, <1>15, <1>16
<1>18. Len(got[h]) \in Nat /\ Len(got[h]) <= Len(got'[h]) /\ Len(got'[h]) \in Nat
  BY <1>10, <1>16
<1> QED BY <1>1, <1>3, <1>9, <1>11, <1>13, <1>14, <1>15, <1>16, <1>17, <1>18,
           InvInCall

(* One more message, if one is left. *)
LEMMA PostNextOrder ==
    ASSUME Good, NEW h \in Hosts, InCall(h), phase[h] = "run", program' = program,
           PostNext(h) \/ UNCHANGED <<sent, send_num>>
    PROVE  /\ Len(sent'[h]) = At(op[h]) + (1 + send_num'[h])
           /\ Len(sent[h]) <= Len(sent'[h]) /\ Len(sent'[h]) \in Nat
           /\ \A psn \in Psns(h)' :
                 psn = IF Message(h, psn)'.kind = "ctl"
                       THEN At(Message(h, psn).call)'
                       ELSE Psn(Message(h, psn).chunk)'
           /\ PostNext(h) => send_num'[h] = IF send_num[h] < message_num(h)
                                            THEN send_num[h] + 1 ELSE send_num[h]
<1>1. /\ Len(sent[h]) = At(op[h]) + (1 + send_num[h])
      /\ Len(sent[h]) \in Nat /\ send_num[h] \in Nat /\ At(op[h]) \in Nat
      /\ send_num \in [Hosts -> Nat]
  BY GoodParts, GoodTypes, CallerTypes DEF SentInv
<1>2. CASE UNCHANGED <<sent, send_num>>
  <2>1. \A psn \in Psns(h) :
           psn = IF Message(h, psn).kind = "ctl" THEN At(Message(h, psn).call)
                                                 ELSE Psn(Message(h, psn).chunk)
    BY GoodParts DEF SentInv
  <2>2. Psns(h)' = Psns(h)
    BY <1>2 DEF Psns
  <2>3. ASSUME NEW psn
        PROVE  /\ Message(h, psn)' = Message(h, psn)
               /\ At(Message(h, psn).call)' = At(Message(h, psn).call)
               /\ Psn(Message(h, psn).chunk)' = Psn(Message(h, psn).chunk)
    BY <1>2 DEF Message, At, Psn
  <2>4. PostNext(h) => ~ (send_num[h] < message_num(h))
    <3>1. send_num[h] < message_num(h) /\ PostNext(h)
             => send_num' = [send_num EXCEPT ![h] = @ + 1]
      BY DEF PostNext
    <3> QED BY <1>1, <1>2, <3>1
  <2> QED BY <1>1, <1>2, <2>1, <2>2, <2>3, <2>4
<1>3. CASE PostNext(h) /\ ~ UNCHANGED <<sent, send_num>>
  <2> DEFINE k == send_num[h] + 1
  <2>1. /\ send_num[h] < message_num(h)
        /\ sent' = [sent EXCEPT ![h] = Append(@, Data(op[h], k))]
        /\ send_num' = [send_num EXCEPT ![h] = @ + 1]
    BY <1>3 DEF PostNext
  <2>2. k \in 1 .. message_num(h)
    BY SMTT(30), <1>1, <2>1, CurrentCall
  <2>3. /\ Data(op[h], k) \in Messages /\ Data(op[h], k).kind = "data"
        /\ Psn(Data(op[h], k).chunk) = At(op[h]) + k
    BY <2>2, CurrentCall, MessageTypes DEF Data
  <2>4. Len(sent[h]) = At(op[h]) + k
    BY <1>1
  <2> HIDE DEF k
  <2>5. /\ Len(sent'[h]) = Len(sent[h]) + 1
        /\ \A psn \in Psns(h)' :
              psn = IF Message(h, psn)'.kind = "ctl"
                    THEN At(Message(h, psn).call)'
                    ELSE Psn(Message(h, psn).chunk)'
    BY <2>1, <2>3, <2>4, SentOne
  <2>6. send_num'[h] = send_num[h] + 1
    BY <1>1, <2>1
  <2>7. /\ Len(sent'[h]) = At(op[h]) + (1 + send_num'[h])
        /\ Len(sent[h]) <= Len(sent'[h]) /\ Len(sent'[h]) \in Nat
    BY SMTT(30), <1>1, <2>5, <2>6
  <2> QED BY <2>1, <2>5, <2>6, <2>7
<1> QED BY <1>2, <1>3

(* The window moves on with what paces the sender. *)
LEMMA WindowMoves ==
    ASSUME NEW w \in Nat, NEW m \in Nat, NEW n \in Nat, NEW p \in Nat,
           n <= w + p, n \in {m, w + p}, n <= m
    PROVE  LET k == IF n < m THEN n + 1 ELSE n
           IN  k <= w + (p + 1) /\ k \in {m, w + (p + 1)}
OBVIOUS

LEMMA PollRecvOrder ==
    ASSUME Good, NEW h \in Hosts, PollRecv(h)
    PROVE  SentInv(h)' /\ GotInv(h)' /\ AckInv(h)' /\ ControlInv(h)'
<1>1. /\ InCall(h) /\ phase[h] = "run" /\ Receives(h) /\ program' = program
      /\ CallerStep(h) /\ PostNext(h)
      /\ Len(got[h]) < arrived[h]
  BY GoodTypes, OrderlyCaller DEF PollRecv, CallerStep, PacedByResults
<1>2. /\ receive_num' = [receive_num EXCEPT ![h] = @ + 1]
      /\ \E e : got' = [got EXCEPT ![h] = Append(@, e)]
      /\ op' = op /\ phase' = phase /\ polled' = polled
      /\ send_complete' = send_complete /\ arrived' = arrived
  BY <1>1 DEF PollRecv, nicVars
<1>3. /\ receive_num'[h] = receive_num[h] + 1
      /\ Len(got'[h]) = Len(got[h]) + 1
  <2>1. receive_num \in [Hosts -> Nat] /\ got \in [Hosts -> Seq(Results)]
    BY GoodTypes, CallerTypes, SequenceTypes
  <2>2. PICK e : got'[h] = Append(got[h], e)
    BY <1>2, <2>1
  <2>3. got[h] \in Seq(Results)
    BY <2>1
  <2> QED BY <1>2, <2>1, <2>2, <2>3
<1>4. /\ Len(sent'[h]) = At(op[h]) + (1 + send_num'[h])
      /\ Len(sent[h]) <= Len(sent'[h]) /\ Len(sent'[h]) \in Nat
      /\ \A psn \in Psns(h)' :
            psn = IF Message(h, psn)'.kind = "ctl"
                  THEN At(Message(h, psn).call)'
                  ELSE Psn(Message(h, psn).chunk)'
      /\ send_num'[h] = IF send_num[h] < message_num(h)
                        THEN send_num[h] + 1 ELSE send_num[h]
  BY <1>1, PostNextOrder
<1>5. /\ Len(got[h]) \in Nat /\ arrived[h] \in Nat /\ receive_num[h] \in Nat
      /\ send_num[h] \in Nat /\ Before(op[h]) \in Nat
      /\ message_num(h) \in Nat /\ Window \in Nat
  BY <1>1, GoodTypes, CurrentCall, SizesAssumption
<1>6. /\ send_num[h] <= Window + receive_num[h]
      /\ send_num[h] \in {message_num(h), Window + receive_num[h]}
      /\ send_num[h] <= message_num(h)
      /\ Len(got[h]) = Before(op[h]) + receive_num[h]
      /\ polled[h] <= acked[h]
  BY <1>1, GoodParts DEF SentInv, CallInv, GotInv, AckInv, Progress
<1>7. Progress(h)' = receive_num[h] + 1
  <2>1. Receives(h)' = Receives(h)
    BY <1>1, <1>2, SameCall
  <2> QED BY <1>1, <1>3, <2>1 DEF Progress
<1>8. /\ send_num'[h] <= Window + Progress(h)'
      /\ send_num'[h] \in {message_num(h), Window + Progress(h)'}
  BY SMTT(30), <1>4, <1>5, <1>6, <1>7, WindowMoves
<1>9. /\ Len(got'[h]) = Before(op[h]) + receive_num'[h]
      /\ Len(got[h]) <= Len(got'[h]) /\ Len(got'[h]) \in Nat
      /\ Len(got'[h]) <= arrived[h]
  BY SMTT(30), <1>1, <1>3, <1>5, <1>6
<1> QED BY <1>1, <1>2, <1>4, <1>6, <1>8, <1>9, InvInCall

LEMMA PollSendOrder ==
    ASSUME Good, NEW h \in Hosts, PollSend(h)
    PROVE  SentInv(h)' /\ GotInv(h)' /\ AckInv(h)' /\ ControlInv(h)'
<1>1. /\ InCall(h) /\ phase[h] = "run" /\ program' = program
      /\ CallerStep(h) /\ polled[h] < acked[h]
      /\ IF Receives(h) THEN UNCHANGED <<sent, send_num, send_complete>>
         ELSE PostNext(h) /\ send_complete' = [send_complete EXCEPT ![h] = @ + 1]
  BY DEF PollSend, CallerStep
<1>2. /\ polled' = [polled EXCEPT ![h] = @ + 1]
      /\ op' = op /\ phase' = phase /\ receive_num' = receive_num
      /\ got' = got /\ arrived' = arrived
  BY <1>1 DEF PollSend, nicVars
<1>3. /\ polled'[h] = polled[h] + 1
      /\ send_complete'[h] = IF Receives(h) THEN send_complete[h]
                                            ELSE send_complete[h] + 1
  BY <1>1, <1>2, GoodTypes, CallerTypes
<1>4. /\ Len(sent'[h]) = At(op[h]) + (1 + send_num'[h])
      /\ Len(sent[h]) <= Len(sent'[h]) /\ Len(sent'[h]) \in Nat
      /\ \A psn \in Psns(h)' :
            psn = IF Message(h, psn)'.kind = "ctl"
                  THEN At(Message(h, psn).call)'
                  ELSE Psn(Message(h, psn).chunk)'
      /\ PostNext(h) => send_num'[h] = IF send_num[h] < message_num(h)
                                       THEN send_num[h] + 1 ELSE send_num[h]
  BY <1>1, PostNextOrder
<1>5. /\ Len(got[h]) \in Nat /\ send_complete[h] \in Nat
      /\ send_num[h] \in Nat /\ At(op[h]) \in Nat
      /\ polled[h] \in Nat /\ acked[h] \in Nat
      /\ message_num(h) \in Nat /\ Window \in Nat
  BY <1>1, GoodTypes, CurrentCall, SizesAssumption
<1>6. /\ send_num[h] <= Window + Progress(h)
      /\ send_num[h] \in {message_num(h), Window + Progress(h)}
      /\ send_num[h] <= message_num(h)
      /\ Receives(h) => Len(got[h]) = Before(op[h]) + receive_num[h]
      /\ Len(got[h]) <= arrived[h]
      /\ ~ Receives(h) /\ ReducesToOneRoot(program)
            => polled[h] = At(op[h]) + (1 + send_complete[h])
  BY <1>1, GoodParts DEF SentInv, CallInv, GotInv, AckInv
<1>7. Progress(h)' = IF Receives(h) THEN Progress(h) ELSE send_complete[h] + 1
  <2>1. Receives(h)' = Receives(h)
    BY <1>1, <1>2, SameCall
  <2> QED BY <1>2, <1>3, <2>1 DEF Progress
<1>8. /\ send_num'[h] <= Window + Progress(h)'
      /\ send_num'[h] \in {message_num(h), Window + Progress(h)'}
  <2>1. CASE Receives(h)
    BY <1>1, <1>6, <1>7, <2>1
  <2>2. CASE ~ Receives(h)
    <3>1. /\ send_num[h] <= Window + send_complete[h]
          /\ send_num[h] \in {message_num(h), Window + send_complete[h]}
      BY <1>6, <2>2 DEF Progress
    <3>2. send_num'[h] = IF send_num[h] < message_num(h)
                         THEN send_num[h] + 1 ELSE send_num[h]
      BY <1>1, <1>4, <2>2
    <3>3. /\ send_num'[h] <= Window + (send_complete[h] + 1)
          /\ send_num'[h] \in {message_num(h), Window + (send_complete[h] + 1)}
      BY SMTT(30), <1>5, <1>6, <3>1, <3>2, WindowMoves
    <3> QED BY <1>7, <2>2, <3>3
  <2> QED BY <2>1, <2>2
<1>9. /\ polled'[h] <= acked[h]
      /\ ~ Receives(h) /\ ReducesToOneRoot(program)
            => polled'[h] = At(op[h]) + (1 + send_complete'[h])
  BY <1>1, <1>3, <1>5, <1>6
<1>10. got'[h] = got[h] /\ Len(got[h]) <= Len(got'[h]) /\ Len(got'[h]) \in Nat
  BY <1>2, <1>5
<1> QED BY <1>1, <1>2, <1>4, <1>6, <1>8, <1>9, <1>10, InvInCall

(* A call has sent all its messages when it returns, and a receiver has all *)
(* its results; so the switch has accepted all that came before.            *)
LEMMA ReturnOrder ==
    ASSUME Good, NEW h \in Hosts, Return(h)
    PROVE  SentInv(h)' /\ GotInv(h)' /\ AckInv(h)' /\ ControlInv(h)'
<1> DEFINE o == op[h]
           m == message_num(h)
<1>1. /\ InCall(h) /\ phase[h] = "run" /\ Complete(h) /\ program' = program
      /\ sent' = sent /\ got' = got /\ arrived' = arrived
      /\ polled' = polled /\ acked' = acked /\ agg_epsn' = agg_epsn
      /\ ctl' = ctl
  BY DEF Return, callVars, qpVars, nicVars, switchVars
<1>2. /\ op'[h] = o + 1 /\ phase'[h] = "start" /\ send_num'[h] = 0
      /\ receive_num'[h] = 0 /\ send_complete'[h] = 0
  <2>1. op \in [Hosts -> 1 .. Len(program) + 1]
    BY GoodTypes DEF TypeOK
  <2> QED BY <2>1, GoodTypes, CallerTypes DEF Return
<1>3. /\ o \in Calls /\ o \in Nat /\ o <= Len(program) /\ m \in Nat \ {0}
      /\ o + 1 \in 1 .. Len(program) + 1
      /\ At(o) \in Nat /\ At(o + 1) = At(o) + m + 1
      /\ Before(o) \in Nat /\ Before(o + 1) = Before(o) + m
      /\ program[o] = Call(h)
  BY <1>1, CurrentCall
<1>4. /\ Len(program) \in Nat /\ Window \in Nat \ {0}
      /\ send_num[h] \in Nat /\ receive_num[h] \in Nat
      /\ send_complete[h] \in Nat /\ polled[h] \in Nat /\ acked[h] \in Nat
      /\ agg_epsn[h] \in Nat /\ Len(got[h]) \in Nat /\ Len(sent[h]) \in Nat
  BY GoodTypes, SizesAssumption
<1>5. /\ ~ Receives(h) => IsReduce(Call(h))
      /\ \A c \in Chunks : c[1] = o => (Receiver(h, c) <=> Receives(h))
      /\ Receives(h) <=> IsAllReduce(Call(h)) \/ Call(h).root = h
  BY <1>1, GoodTypes, OrderlyCaller
<1>6. send_num[h] = m
  <2>1. /\ send_num[h] <= m
        /\ send_num[h] \in {m, Window + Progress(h)}
    BY <1>1, GoodParts DEF SentInv, CallInv
  <2>2. CASE Receives(h)
    <3>1. Progress(h) = m
      BY <1>1, <2>2 DEF Complete, Progress
    <3> QED BY <1>3, <1>4, <2>1, <3>1
  <2>3. CASE ~ Receives(h)
    <3>1. Progress(h) = send_complete[h] /\ send_complete[h] >= send_num[h]
      BY <1>1, <1>5, <2>3 DEF Complete, Progress, IsReduce
    <3> QED BY <1>3, <1>4, <2>1, <3>1
  <2> QED BY <2>2, <2>3
<1>7. Len(sent[h]) = At(o + 1)
  <2>1. Len(sent[h]) = At(o) + (1 + send_num[h])
    BY <1>1, GoodParts DEF SentInv
  <2> QED BY <1>3, <1>6, <2>1
<1>8. Receives(h) => /\ Len(got[h]) = Before(o + 1)
                     /\ At(o + 1) <= agg_epsn[h]
  <2> SUFFICES ASSUME Receives(h)
               PROVE  Len(got[h]) = Before(o + 1) /\ At(o + 1) <= agg_epsn[h]
    OBVIOUS
  <2>1. receive_num[h] = m
    BY <1>1 DEF Complete
  <2>2. Len(got[h]) = Before(o) + receive_num[h]
    BY <1>1, GoodParts DEF GotInv
  <2>3. Len(got[h]) = Before(o + 1)
    BY <1>3, <2>1, <2>2
  <2>4. PICK c \in Chunks : /\ c[1] = o /\ Index(c) = Before(o + 1)
                            /\ Psn(c) = At(o + 1) - 1
    BY <1>3, GoodTypes, LastChunk
  <2>5. Full(c)
    <3>1. Receiver(h, c) /\ Index(c) <= Len(got[h])
      BY <1>4, <1>5, <2>3, <2>4
    <3> QED BY <3>1, Received
  <2>6. Psn(c) < Added(h) /\ Added(h) <= agg_epsn[h] /\ Added(h) \in Nat
    BY <2>5, AddedFacts DEF Full
  <2> QED BY <1>3, <1>4, <2>3, <2>4, <2>6
<1>9. ~ Receives(h) /\ ReducesToOneRoot(program)
         => polled[h] = At(o + 1) /\ At(o + 1) <= agg_epsn[h]
  <2> SUFFICES ASSUME ~ Receives(h), ReducesToOneRoot(program)
               PROVE  polled[h] = At(o + 1) /\ At(o + 1) <= agg_epsn[h]
    OBVIOUS
  <2>1. /\ polled[h] = At(o) + (1 + send_complete[h])
        /\ polled[h] <= acked[h] /\ acked[h] <= agg_epsn[h]
        /\ agg_epsn[h] <= Len(sent[h])
    BY <1>1, GoodParts DEF AckInv
  <2>2. send_complete[h] >= m
    BY <1>1, <1>5, <1>6 DEF Complete, IsReduce
  <2>3. At(o + 1) \in Nat /\ At(o + 1) <= polled[h]
    <3>1. \A i, j, k \in Nat : k >= j => i + j + 1 \in Nat /\ i + j + 1 <= i + (1 + k)
      OBVIOUS
    <3>2. At(o) \in Nat /\ m \in Nat /\ send_complete[h] \in Nat
      BY <1>3, <1>4
    <3> QED BY SMTT(30), <1>3, <2>1, <2>2, <3>1, <3>2
  <2>4. polled[h] <= agg_epsn[h] /\ agg_epsn[h] <= At(o + 1)
    BY <1>4, <1>7, <2>1
  <2> QED BY <1>4, <2>3, <2>4
<1>10. o + 1 \in Calls /\ ~ Receives(h) => ReducesToOneRoot(program)
  <2> SUFFICES ASSUME o + 1 \in Calls, ~ Receives(h)
               PROVE  ReducesToOneRoot(program)
    OBVIOUS
  <2>1. IsReduce(program[o])
    BY <1>3, <1>5
  <2>2. TypeOK /\ Orderly(program) /\ o \in Calls
    BY <1>3, GoodTypes
  <2> HIDE DEF o
  <2>3. o # Len(program)
    <3>1. o \in Nat /\ Len(program) \in Nat /\ o + 1 \in 1 .. Len(program)
      BY <1>3, <1>4 DEF Calls
    <3> QED BY ONLY <3>1
  <2> QED BY ONLY <2>1, <2>2, <2>3, OrderlyCalls
<1>11. o + 1 \in Calls /\ ReducesToOneRoot(program)
          => (Receives(h)' <=> Receives(h))
  <2> SUFFICES ASSUME o + 1 \in Calls, ReducesToOneRoot(program)
               PROVE  Receives(h)' <=> Receives(h)
    OBVIOUS
  <2>1. /\ program[o + 1].prim = "reduce" /\ program[o].prim = "reduce"
        /\ program[o + 1].root = program[o].root
    BY <1>3 DEF ReducesToOneRoot, IsReduce, Calls
  <2>2. Call(h)' = program[o + 1]
    BY <1>1, <1>2 DEF Call
  <2> QED BY <1>3, <2>1, <2>2 DEF Receives, IsRoot
<1>12. InCall(h)' <=> o + 1 \in Calls
  BY <1>1, <1>2 DEF InCall, Calls
<1>13. /\ \A q : At(q)' = At(q) /\ Before(q)' = Before(q)
       /\ At(op[h])' = At(o + 1) /\ Before(op[h])' = Before(o + 1)
       /\ Calls' = Calls /\ Chunks' = Chunks
       /\ \A c : Index(c)' = Index(c) /\ (Receiver(h, c)' <=> Receiver(h, c))
       /\ ReducesToOneRoot(program)' <=> ReducesToOneRoot(program)
  <2>1. At(op[h])' = At(o + 1) /\ Before(op[h])' = Before(o + 1)
    BY <1>1, <1>2 DEF At, Before
  <2> QED BY <1>1, <2>1, SameChunks
<1>14. SentInv(h)'
  <2>1. \A psn \in Psns(h)' :
           psn = IF Message(h, psn)'.kind = "ctl"
                 THEN At(Message(h, psn).call)' ELSE Psn(Message(h, psn).chunk)'
    BY <1>1, GoodParts, SameChunks DEF SentInv, Psns, Message, At, Psn
  <2>2. Len(sent'[h]) = At(op[h])'
    BY <1>1, <1>7, <1>13
  <2> QED BY <1>2, <1>3, <1>13, <2>1, <2>2 DEF SentInv
<1>15. GotInv(h)'
  <2>1. InCall(h)' /\ Receives(h)' => Len(got[h]) = Before(o + 1)
    BY <1>8, <1>10, <1>11, <1>12
  <2>2. ASSUME NEW c \in Chunks, Receiver(h, c), c[1] < o + 1
        PROVE  Index(c) <= Len(got[h])
    <3>1. c[1] \in Nat /\ Index(c) \in Nat
      BY GoodTypes, ChunkFacts
    <3>2. CASE c[1] = o
      <4>1. Index(c) <= Before(o + 1)
        BY <1>3, <2>2, GoodTypes, ChunkAndCall
      <4> QED BY <1>5, <1>8, <2>2, <3>2, <4>1
    <3>3. CASE c[1] # o
      <4>1. c[1] < o
        BY SMTT(30), <1>3, <2>2, <3>1, <3>3
      <4> QED BY <2>2, <4>1, GoodParts DEF GotInv
    <3> QED BY <3>2, <3>3
  <2>3. Before(o + 1) = Before(o + 1) + 0
    BY <1>3
  <2>4. Len(got[h]) <= arrived[h]
    BY GoodParts DEF GotInv
  <2> QED BY <1>1, <1>2, <1>13, <2>1, <2>2, <2>3, <2>4 DEF GotInv
<1>16. AckInv(h)'
  <2>1. ASSUME NEW q \in Calls, q <= o + 1
        PROVE  At(q) <= agg_epsn[h]
    <3>1. CASE q = o + 1
      BY <1>8, <1>9, <1>10, <2>1, <3>1
    <3>2. CASE q # o + 1
      <4>1. q <= o
        BY <1>3, <1>4, <2>1, <3>2 DEF Calls
      <4> QED BY <4>1, GoodParts DEF AckInv
    <3> QED BY <3>1, <3>2
  <2>2. /\ polled[h] <= acked[h] /\ acked[h] <= agg_epsn[h]
        /\ agg_epsn[h] <= Len(sent[h])
    BY GoodParts DEF AckInv
  <2>3. InCall(h)' /\ ~ Receives(h)' /\ ReducesToOneRoot(program)
           => polled[h] = At(o + 1)
    BY <1>9, <1>11, <1>12
  <2>4. At(o + 1) + 0 = At(o + 1)
    BY <1>3
  <2> QED BY <1>1, <1>2, <1>13, <2>1, <2>2, <2>3, <2>4 DEF AckInv
<1>17. ControlInv(h)'
  BY <1>1, <1>13, GoodParts DEF ControlInv
<1> QED BY <1>14, <1>15, <1>16, <1>17

(* A result reaches a host in the call it belongs to, whose receive *)
(* requests are posted before its first message.                    *)
LEMMA ResultExpected ==
    ASSUME Good, NEW h \in Hosts, arrived[h] < Len(out[h])
    PROVE  arrived[h] < posted[h]
<1>1. /\ Len(out[h]) \in Nat /\ arrived[h] \in Nat /\ Len(got[h]) \in Nat
      /\ posted[h] \in Nat /\ op[h] \in Nat /\ receive_num[h] \in Nat
      /\ Len(sent[h]) \in Nat /\ agg_epsn[h] \in Nat
  BY GoodTypes
<1>2. PICK c \in Chunks : Receiver(h, c) /\ Index(c) = arrived[h] + 1
  <2>1. arrived[h] + 1 \in 1 .. Len(out[h])
    BY <1>1
  <2> QED BY <2>1, GoodParts DEF OutInv
<1>3. c[1] <= op[h] /\ (c[1] = op[h] => phase[h] = "run" /\ InCall(h))
  <2>1. Index(c) <= Len(out[h])
    BY <1>1, <1>2
  <2>2. Full(c)
    BY <1>2, <2>1, GoodParts DEF OutInv, SentTo
  <2>3. Psn(c) < Added(h) /\ Added(h) \in Nat /\ Added(h) <= agg_epsn[h]
        /\ agg_epsn[h] <= Len(sent[h])
    BY <2>2, AddedFacts DEF Full
  <2>4. Psn(c) \in Nat
    BY GoodTypes, ChunkFacts
  <2>5. Psn(c) < Len(sent[h])
    BY <1>1, <2>3, <2>4
  <2> QED BY <2>5, SentChunk
<1>4. c[1] = op[h]
  <2> SUFFICES ASSUME c[1] # op[h] PROVE FALSE
    OBVIOUS
  <2>1. c[1] \in Nat
    BY GoodTypes, ChunkFacts
  <2>2. c[1] < op[h]
    BY <1>1, <1>3, <2>1
  <2>3. Index(c) <= Len(got[h]) /\ Len(got[h]) <= arrived[h]
    BY <1>2, <2>2, GoodParts DEF GotInv
  <2> QED BY <1>1, <1>2, <2>3
<1>5. Receives(h) /\ phase[h] = "run" /\ InCall(h)
  BY <1>2, <1>3, <1>4, GoodTypes, OrderlyCaller
<1>6. /\ posted[h] - Len(got[h]) = message_num(h) - receive_num[h]
      /\ Len(got[h]) = Before(op[h]) + receive_num[h]
  BY <1>5, GoodParts DEF GotInv, CallInv, Unused
<1>7. /\ Before(op[h] + 1) = Before(op[h]) + message_num(h)
      /\ Before(op[h]) \in Nat /\ message_num(h) \in Nat
      /\ op[h] + 1 \in 1 .. Len(program) + 1
  BY <1>5, CurrentCall
<1>8. Index(c) <= Before(op[h] + 1)
  BY <1>1, <1>4, <1>7, GoodTypes, ChunkAndCall
<1>9. posted[h] = Before(op[h] + 1)
  <2> DEFINE b == Before(op[h])
             m == message_num(h)
             r == receive_num[h]
             l == Len(got[h])
             p == posted[h]
  <2>1. /\ p - l = m - r /\ l = b + r
        /\ b \in Int /\ m \in Int /\ r \in Int /\ l \in Int /\ p \in Int
    BY <1>1, <1>6, <1>7
  <2> HIDE DEF b, m, r, l, p
  <2>2. p = b + m
    BY <2>1
  <2> QED BY <1>7, <2>2 DEF b, m, p
<1> QED BY <1>1, <1>2, <1>8, <1>9

(* A result is taken for the chunk it is the result of. *)
LEMMA ResultMatched ==
    ASSUME Good, NEW h \in Hosts, PollRecv(h)
    PROVE  out[h][Len(got[h]) + 1] = Expected(<<op[h], receive_num[h] + 1>>)
<1>1. /\ InCall(h) /\ phase[h] = "run" /\ Receives(h) /\ Len(got[h]) < arrived[h]
      /\ program' = program /\ op' = op /\ phase' = phase
      /\ receive_num' = [receive_num EXCEPT ![h] = @ + 1]
  BY DEF PollRecv
<1>2. /\ Len(out[h]) \in Nat /\ arrived[h] \in Nat /\ Len(got[h]) \in Nat
      /\ receive_num[h] \in Nat
  BY GoodTypes
<1>3. receive_num[h] + 1 <= message_num(h)
  <2>1. CallInv(h)'
    BY CallStep DEF Good, Action
  <2>2. receive_num'[h] = receive_num[h] + 1
    BY <1>1, GoodTypes, CallerTypes
  <2> QED BY <1>1, <2>1, <2>2 DEF CallInv, message_num, Call
<1> DEFINE d == <<op[h], receive_num[h] + 1>>
<1>4. d \in Chunks /\ Index(d) = Before(op[h]) + (receive_num[h] + 1)
      /\ Before(op[h]) \in Nat
  <2>1. receive_num[h] + 1 \in 1 .. message_num(h)
    BY SMTT(30), <1>1, <1>2, <1>3, CurrentCall
  <2> QED BY <1>1, <2>1, CurrentCall
<1>5. Index(d) = Len(got[h]) + 1
  <2>1. Len(got[h]) = Before(op[h]) + receive_num[h]
    BY <1>1, GoodParts DEF GotInv
  <2> HIDE DEF d
  <2> QED BY <1>2, <1>4, <2>1
<1>6. Len(got[h]) + 1 \in 1 .. Len(out[h])
  <2>1. arrived[h] <= Len(out[h])
    BY GoodParts DEF CallInv
  <2> QED BY <1>1, <1>2, <2>1
<1>7. PICK c \in Chunks : /\ Index(c) = Len(got[h]) + 1
                          /\ out[h][Len(got[h]) + 1] = Expected(c)
  BY <1>6, GoodParts DEF OutInv
<1>8. c = d
  <2> HIDE DEF d
  <2> QED BY <1>4, <1>5, <1>7, GoodTypes, ChunkOrder
<1> QED BY <1>7, <1>8

(* The invariant is kept by the steps of a host. *)
LEMMA CallerOrder ==
    ASSUME Good, NEW h \in Hosts, CallerStep(h)
    PROVE  Order'
<1>1. /\ Action(h) /\ UNCHANGED switchVars /\ acked' = acked
  BY CallerLeavesSwitch
<1>2. program' = program
  BY <1>1, ProgramUnchanged
<1>3. SentInv(h)' /\ GotInv(h)' /\ AckInv(h)' /\ ControlInv(h)'
  <2>1. CASE Arrive(h)
    <3>1. /\ UNCHANGED callVars /\ UNCHANGED qpVars
          /\ arrived' = [arrived EXCEPT ![h] = @ + 1] \/ arrived' = arrived
      BY <2>1 DEF Arrive
    <3>2. arrived[h] <= arrived'[h] /\ arrived'[h] \in Nat
      BY <3>1, GoodTypes, CallerTypes
    <3>3. SentInv(h)' /\ GotInv(h)'
      BY <1>2, <3>1, <3>2, CallerStays DEF callVars, qpVars
    <3>4. Len(sent[h]) <= Len(sent'[h]) /\ Len(sent'[h]) \in Nat
      BY <3>1, GoodTypes DEF qpVars
    <3>5. AckInv(h)' /\ ControlInv(h)'
      BY <1>1, <1>2, <3>1, <3>4, AckStays DEF callVars, qpVars, switchVars
    <3> QED BY <3>3, <3>5
  <2> QED BY <2>1, BeginOrder, StartOrder, PollRecvOrder, PollSendOrder,
             ReturnOrder DEF CallerStep
<1>4. CallersInv' /\ AcksInv'
  <2>1. Hosts' = Hosts
    BY DEF Hosts
  <2>2. \A g \in Hosts : SentInv(g)' /\ GotInv(g)' /\ AckInv(g)' /\ ControlInv(g)'
    BY <1>3, OtherCallersStay
  <2> QED BY <2>1, <2>2 DEF CallersInv, AcksInv
<1>5. MetaInv' /\ OneBusy' /\ SlotInv' /\ ThreadsInv'
  BY <1>1, SwitchSame DEF ThreadsInv, Hosts
<1>6. ReceiversReady'
  <2>1. CASE Arrive(h)
    <3>1. arrived[h] < Len(out[h])
      BY <2>1 DEF Arrive
    <3>2. UNCHANGED dropped
      BY <2>1, <3>1, ResultExpected DEF Arrive
    <3> QED BY <3>2 DEF Good, Order, ReceiversReady, Hosts
  <2>2. CASE ~ Arrive(h)
    <3>1. UNCHANGED dropped
      BY <2>2 DEF CallerStep, Begin, Start, PollRecv, PollSend, Return, nicVars
    <3> QED BY <3>1 DEF Good, Order, ReceiversReady, Hosts
  <2> QED BY <2>1, <2>2
<1>7. ResultsCorrect'
  <2>1. CASE PollRecv(h)
    <3> DEFINE e == [chunk |-> <<op[h], receive_num[h] + 1>>,
                     sum |-> out[h][Len(got[h]) + 1]]
    <3>1. got' = [got EXCEPT ![h] = Append(@, e)]
      BY <2>1 DEF PollRecv
    <3>2. e.sum = Expected(e.chunk)
      BY <2>1, ResultMatched
    <3> HIDE DEF e
    <3>3. got \in [Hosts -> Seq(Results)]
      BY GoodTypes, SequenceTypes
    <3>4. ASSUME NEW g \in Hosts, NEW i \in 1 .. Len(got'[g])
          PROVE  got'[g][i].sum = Expected(got'[g][i].chunk)
      <4>1. got[g] \in Seq(Results) /\ Len(got[g]) \in Nat
        BY <3>3
      <4>2. \/ i \in 1 .. Len(got[g]) /\ got'[g][i] = got[g][i]
            \/ got'[g][i] = e
        <5>1. CASE g = h
          <6>1. got'[g] = Append(got[g], e)
            BY <3>1, <3>3, <5>1
          <6>2. /\ Len(got'[g]) = Len(got[g]) + 1
                /\ got'[g][Len(got[g]) + 1] = e
                /\ \A j \in 1 .. Len(got[g]) : got'[g][j] = got[g][j]
            BY <4>1, <6>1
          <6> QED BY <4>1, <6>2, <3>4
        <5>2. CASE g # h
          <6>1. got'[g] = got[g]
            BY <3>1, <3>3, <5>2
          <6> QED BY <6>1, <3>4
        <5> QED BY <5>1, <5>2
      <4> QED BY <3>2, <4>2 DEF Good, Order, ResultsCorrect
    <3>5. \A c : Expected(c)' = Expected(c)
      BY <1>2, SameChunks
    <3> QED BY <3>4, <3>5 DEF ResultsCorrect, Hosts
  <2>2. CASE ~ PollRecv(h)
    <3>1. UNCHANGED got
      BY <2>2 DEF CallerStep, Begin, Start, PollSend, Return, Arrive, callVars
    <3>2. \A c : Expected(c)' = Expected(c)
      BY <1>2, SameChunks
    <3> QED BY <3>1, <3>2 DEF Good, Order, ResultsCorrect, Hosts
  <2> QED BY <2>1, <2>2
<1> QED BY <1>4, <1>5, <1>6, <1>7 DEF Order

(* The invariant of the hosts is kept by a switch thread. *)
LEMMA SwitchLeavesCallers ==
    ASSUME Good, UNCHANGED <<callVars, qpVars, nicVars>>
    PROVE  CallersInv' /\ ResultsCorrect' /\ ReceiversReady'
<1>1. CallersInv'
  <2>1. ASSUME NEW g \in Hosts
        PROVE  SentInv(g)' /\ GotInv(g)'
    <3>1. arrived'[g] = arrived[g] /\ arrived[g] \in Nat
      BY GoodTypes DEF nicVars
    <3>2. arrived[g] <= arrived'[g] /\ arrived'[g] \in Nat
      BY <3>1
    <3> QED BY <3>2, CallerStays DEF callVars, qpVars
  <2> QED BY <2>1 DEF CallersInv, Hosts
<1>2. ResultsCorrect'
  BY SameChunks DEF Good, Order, ResultsCorrect, Hosts, callVars
<1>3. ReceiversReady'
  BY DEF Good, Order, ReceiversReady, Hosts, nicVars
<1> QED BY <1>1, <1>2, <1>3

LEMMA MaxIs ==
    ASSUME NEW a \in Nat, NEW b \in Nat, a <= b
    PROVE  Max({a, b}) = b
<1>1. b \in {a, b} /\ \A x \in {a, b} : b >= x
  OBVIOUS
<1>2. \A y \in {a, b} : (\A x \in {a, b} : y >= x) => y = b
  OBVIOUS
<1> QED BY <1>1, <1>2 DEF Max

(* A control message of an AllReduce comes before any of a Reduce. *)
LEMMA NoReduceYet ==
    ASSUME Good, NEW h \in Hosts, NEW o \in Calls, IsAllReduce(program[o]),
           agg_epsn[h] = At(o), pc[h] = "idle" \/ InControl(h),
           NEW g \in Hosts, NEW q \in Typed(g), IsReduce(program[q])
    PROVE  FALSE
<1>1. q \in Calls /\ q \in Nat /\ q <= op[g] /\ op[g] \in Nat /\ o \in Nat
  BY AnnouncedCalls, GoodTypes DEF Calls
<1>2. o < q
  BY <1>1, GoodTypes, OrderlyCalls
<1>3. o < op[g]
  BY <1>1, <1>2
<1>4. PICK c \in Chunks : c[1] = o /\ Psn(c) = At(o + 1) - 1
  BY GoodTypes, LastChunk
<1>5. Receiver(g, c)
  BY <1>4 DEF Receiver, CallOf
<1>6. Full(c)
  BY <1>3, <1>4, <1>5, CallReceived
<1>7. Psn(c) < At(o)
  <2>1. Added(h) = agg_epsn[h]
    BY AddedFacts DEF InControl
  <2> QED BY <1>6, <2>1 DEF Full
<1>8. At(o) \in Nat /\ At(o + 1) >= At(o) + 1 /\ At(o + 1) \in Nat
  <2>1. program[o].len \in Nat \ {0} /\ At(o + 1) = At(o) + program[o].len + 1
    BY GoodTypes, AtNext, ProgramCalls
  <2>2. At(o) \in Nat
    BY GoodTypes, AtGrows DEF Calls
  <2> QED BY <2>1, <2>2
<1> QED BY <1>4, <1>7, <1>8

(* What a host knows and what the switch has accepted may grow, up to the *)
(* next control message.                                                  *)
LEMMA AckMoves ==
    ASSUME Good, NEW h \in Hosts, UNCHANGED <<callVars, qpVars, ctl>>,
           acked'[h] \in Nat, agg_epsn'[h] \in Nat, acked[h] <= acked'[h],
           acked'[h] <= agg_epsn'[h], agg_epsn[h] <= agg_epsn'[h],
           agg_epsn'[h] <= Len(sent[h]), agg_epsn'[h] <= At(ctl[h] + 1)
    PROVE  AckInv(h)' /\ ControlInv(h)'
<1>1. AckInv(h) /\ ControlInv(h)
  BY GoodParts
<1>2. /\ polled[h] \in Nat /\ acked[h] \in Nat /\ agg_epsn[h] \in Nat
      /\ ctl[h] \in Nat
  BY GoodTypes
<1>3. polled[h] <= acked'[h]
  BY <1>1, <1>2 DEF AckInv
<1>4. \A o \in Calls : o <= op[h] => At(o) <= agg_epsn'[h]
  <2> TAKE o \in Calls
  <2> HAVE o <= op[h]
  <2>1. At(o) <= agg_epsn[h]
    BY <1>1 DEF AckInv
  <2>2. At(o) \in Nat
    BY GoodTypes, AtGrows DEF Calls
  <2> QED BY SMTT(30), <1>2, <2>1, <2>2
<1>5. program' = program /\ op' = op /\ phase' = phase /\ polled' = polled
      /\ send_complete' = send_complete /\ sent' = sent
  BY DEF callVars, qpVars
<1>6. Calls' = Calls /\ \A o : At(o)' = At(o)
  BY <1>5, SameChunks
<1>7. (InCall(h)' <=> InCall(h)) /\ Receives(h)' = Receives(h)
      /\ ReducesToOneRoot(program)' = ReducesToOneRoot(program)
  BY <1>5, SameCall
<1>8. AckInv(h)'
  BY <1>1, <1>3, <1>4, <1>5, <1>6, <1>7 DEF AckInv
<1>9. ControlInv(h)'
  <2>1. ctl[h] > 0 => At(ctl[h]) < agg_epsn'[h]
    <3> SUFFICES ASSUME ctl[h] > 0 PROVE At(ctl[h]) < agg_epsn'[h]
      OBVIOUS
    <3>1. ctl[h] \in 1 .. Len(program) + 1
      BY <1>1, <1>2, GoodTypes DEF ControlInv
    <3>2. At(ctl[h]) \in Nat
      BY <3>1, GoodTypes, AtGrows
    <3> QED BY <1>1, <1>2, <3>2 DEF ControlInv
  <2> QED BY <1>1, <1>5, <1>6, <2>1 DEF ControlInv
<1> QED BY <1>8, <1>9

(* A step of a thread that adds nothing to a slot and sends no result. *)
LEMMA PacketStep ==
    ASSUME Good, NEW h \in Hosts, Action(h),
           UNCHANGED <<callVars, qpVars, nicVars, slotVars, bcast_buffer, todo,
                       out>>,
           operation_type = "reduce" => operation_type' = "reduce",
           \A g \in Hosts : g # h =>
              /\ pc'[g] = pc[g] /\ cur'[g] = cur[g] /\ prim'[g] = prim[g]
              /\ param'[g] = param[g] /\ out_conns'[g] = out_conns[g]
              /\ agg_epsn'[g] = agg_epsn[g] /\ acked'[g] = acked[g]
              /\ ctl'[g] = ctl[g],
           \A c \in Chunks : Psn(c) < Added(h)' <=> Psn(c) < Added(h),
           ~ Busy(h), ~ Busy(h)',
           ThreadInv(h)', AckInv(h)', ControlInv(h)', MetaInv'
    PROVE  Order'
<1>1. program' = program /\ sent' = sent
  BY DEF callVars, qpVars
<1>2. \A g \in Hosts : \A c \in Chunks :
         Psn(c) < Added(g)' <=> Psn(c) < Added(g)
  BY DEF Added
<1>3. \A t \in Hosts : /\ Busy(t)' <=> Busy(t)
                       /\ Busy(t) => /\ cur'[t] = cur[t] /\ pc'[t] = pc[t]
                                     /\ todo'[t] = todo[t]
  BY DEF Busy
<1>4. OneBusy' /\ SlotInv' /\ (\A g \in Hosts : OutInv(g)')
      /\ (\A c \in Chunks : Full(c)' <=> Full(c))
  BY <1>1, <1>2, <1>3, SlotsStay
<1>5. \A g \in Hosts : ThreadInv(g)'
  <2> TAKE g \in Hosts
  <2>1. CASE g = h
    BY <2>1
  <2>2. CASE g # h
    BY <1>4, <2>2, ThreadStays
  <2> QED BY <2>1, <2>2
<1>6. \A g \in Hosts : AckInv(g)' /\ ControlInv(g)'
  <2> TAKE g \in Hosts
  <2>1. CASE g = h
    BY <2>1
  <2>2. CASE g # h
    <3>1. Len(sent[g]) <= Len(sent'[g]) /\ Len(sent'[g]) \in Nat
      BY <1>1, GoodTypes
    <3> QED BY <1>1, <2>2, <3>1, AckStays DEF callVars, qpVars
  <2> QED BY <2>1, <2>2
<1>7. CallersInv' /\ ResultsCorrect' /\ ReceiversReady'
  BY SwitchLeavesCallers
<1> QED BY <1>4, <1>5, <1>6, <1>7 DEF Order, ThreadsInv, AcksInv, Hosts

(* One with a data packet, which leaves the metadata alone. *)
LEMMA DataStep ==
    ASSUME Good, NEW h \in Hosts, Action(h),
           UNCHANGED <<callVars, qpVars, nicVars, metaVars, slotVars,
                       bcast_buffer, todo, ctl, out>>,
           \A g \in Hosts : g # h =>
              /\ pc'[g] = pc[g] /\ cur'[g] = cur[g] /\ prim'[g] = prim[g]
              /\ param'[g] = param[g] /\ out_conns'[g] = out_conns[g]
              /\ agg_epsn'[g] = agg_epsn[g] /\ acked'[g] = acked[g],
           ~ InControl(h), ~ InControl(h)',
           Added(h)' = Added(h), ~ Busy(h), ~ Busy(h)',
           ThreadInv(h)', AckInv(h)', ControlInv(h)'
    PROVE  Order'
<1>1. program' = program
  BY DEF callVars
<1>2. MetaInv'
  <2>1. \A g \in Hosts : InControl(g) \/ InControl(g)' => g # h
    OBVIOUS
  <2> QED BY <1>1, <2>1, MetaStays
<1> QED BY <1>2, PacketStep DEF metaVars

(* A control message comes in its turn; the type is written, and none of a  *)
(* Reduce has set a root_rank that an AllReduce could take away.            *)
LEMMA HandleControlOrder ==
    ASSUME Good, NEW h \in Hosts, HandleControl(h)
    PROVE  Order'
<1> DEFINE o == ctl[h] + 1
<1>1. /\ Action(h)
      /\ UNCHANGED <<callVars, qpVars, acked, nicVars, agg_epsn, root_rank,
                     slotVars, bcast_buffer, out_conns, todo, ctl, out>>
  BY DEF HandleControl, Action
<1>2. /\ pc[h] = "idle" /\ ctl[h] < Cardinality(ControlPsns(h))
      /\ \A g \in Hosts : pc[g] # "meta"
  BY DEF HandleControl
<1>3. program' = program /\ sent' = sent
  BY <1>1 DEF callVars, qpVars
<1>4. /\ o \in Calls /\ NextControl(h) = At(o) /\ agg_epsn[h] = At(o)
      /\ Message(h, NextControl(h)).call = o
  BY <1>2, ControlTurn
<1>5. /\ cur' = [cur EXCEPT ![h] = At(o)]
      /\ prim' = [prim EXCEPT ![h] = program[o].prim]
      /\ param' = [param EXCEPT ![h] = program[o].root]
      /\ operation_type' = program[o].prim
      /\ pc' = [pc EXCEPT ![h] = "meta"]
  <2> HIDE DEF o
  <2> QED BY <1>4 DEF HandleControl
<1>6. /\ cur'[h] = At(o) /\ prim'[h] = program[o].prim
      /\ param'[h] = program[o].root /\ pc'[h] = "meta"
      /\ \A g \in Hosts : g # h => /\ pc'[g] = pc[g] /\ cur'[g] = cur[g]
                                   /\ prim'[g] = prim[g] /\ param'[g] = param[g]
  <2> HIDE DEF o
  <2> QED BY <1>5, GoodTypes, SwitchTypes
<1>7. program[o].prim \in {"allreduce", "reduce"}
  BY <1>4, GoodTypes, OrderlyCalls
<1>8. ASSUME NEW g \in Hosts, NEW q \in Typed(g), IsReduce(program[q])
      PROVE  IsReduce(program[o])
  <2>1. ~ IsAllReduce(program[o])
    <3> HIDE DEF o
    <3> QED BY <1>2, <1>4, <1>8, NoReduceYet
  <2> QED BY <1>7, <2>1 DEF IsReduce, IsAllReduce
<1>9. operation_type = "reduce" => operation_type' = "reduce"
  <2> SUFFICES ASSUME operation_type = "reduce" PROVE operation_type' = "reduce"
    OBVIOUS
  <2>1. \E g \in Hosts : \E q \in Typed(g) : IsReduce(program[q])
    BY DEF Good, Order, MetaInv
  <2> QED BY <1>5, <1>8, <2>1 DEF IsReduce
<1>10. ASSUME NEW g \in Hosts
       PROVE  /\ ControlHandlerInv(g)'
              /\ Typed(g)' = (IF g = h THEN 1 .. o ELSE Typed(g))
              /\ Rooted(g)' = Rooted(g)
  <2>1. Calls' = Calls /\ \A q : At(q)' = At(q)
    BY <1>3, SameChunks
  <2>2. CASE g = h
    <3>1. Rooted(h)' = Rooted(h)
      BY <1>1, <1>2, <1>6 DEF Rooted
    <3>2. Typed(h)' = 1 .. o
      BY <1>1, <1>6 DEF Typed, InControl
    <3>3. ControlHandlerInv(h)'
      BY <1>1, <1>3, <1>4, <1>5, <1>6, <2>1 DEF ControlHandlerInv
    <3> QED BY <2>2, <3>1, <3>2, <3>3
  <2>3. CASE g # h
    <3>1. /\ pc'[g] = pc[g] /\ cur'[g] = cur[g] /\ prim'[g] = prim[g]
          /\ param'[g] = param[g] /\ pc[g] # "meta"
      BY <1>2, <1>6, <2>3
    <3>2. ControlHandlerInv(g)
      BY GoodParts
    <3> QED BY <1>1, <1>3, <2>1, <2>3, <3>1, <3>2
            DEF ControlHandlerInv, InControl, Typed, Rooted
  <2> QED BY <2>2, <2>3
<1>11. MetaInv'
  <2>1. operation_type' = "reduce"
           => \E g \in Hosts : \E q \in Typed(g)' : IsReduce(program[q])
    <3>1. o \in 1 .. o
      BY <1>4 DEF Calls
    <3> QED BY <1>5, <1>10, <3>1 DEF IsReduce
  <2>2. ASSUME NEW g \in Hosts, NEW q \in Rooted(g), IsReduce(program[q])
        PROVE  operation_type' = "reduce" /\ root_rank' = program[q].root
    <3>1. operation_type = "reduce" /\ root_rank = program[q].root
      BY <2>2 DEF Good, Order, MetaInv
    <3> QED BY <1>1, <1>9, <3>1
  <2> QED BY <1>3, <1>5, <1>7, <1>10, <2>1, <2>2 DEF MetaInv, Hosts
<1>12. /\ Added(h)' = Added(h) /\ ~ Busy(h) /\ ~ Busy(h)' /\ InControl(h)'
  BY <1>1, <1>2, <1>6 DEF Added, Busy, InControl
<1>13. ThreadInv(h)'
  BY <1>6, <1>12 DEF ThreadInv
<1>14. AckInv(h)' /\ ControlInv(h)'
  <2>1. Len(sent[h]) <= Len(sent'[h]) /\ Len(sent'[h]) \in Nat
    BY <1>3, GoodTypes
  <2> QED BY <1>1, <1>3, <2>1, AckStays DEF callVars, qpVars
<1>15. \A g \in Hosts : g # h => /\ out_conns'[g] = out_conns[g]
                                 /\ agg_epsn'[g] = agg_epsn[g]
                                 /\ acked'[g] = acked[g] /\ ctl'[g] = ctl[g]
  BY <1>1
<1> QED BY <1>1, <1>6, <1>9, <1>11, <1>12, <1>13, <1>14, <1>15, PacketStep

(* Then the root: all that is announced by now are Reduces to one root, if  *)
(* this is one.                                                             *)
LEMMA SetRootOrder ==
    ASSUME Good, NEW h \in Hosts, SetRoot(h)
    PROVE  Order'
<1> DEFINE o == ctl[h] + 1
<1>1. /\ Action(h) /\ pc[h] = "meta"
      /\ root_rank' = param[h] /\ pc' = [pc EXCEPT ![h] = "control"]
      /\ UNCHANGED <<callVars, qpVars, acked, nicVars, agg_epsn, operation_type,
                     slotVars, bcast_buffer, handlerVars, todo, ctl, out>>
  BY DEF SetRoot, Action
<1>2. pc'[h] = "control" /\ \A g \in Hosts : g # h => pc'[g] = pc[g]
  BY <1>1, GoodTypes, SwitchTypes
<1>3. program' = program /\ sent' = sent
  BY <1>1 DEF callVars, qpVars
<1>4. /\ o \in Calls /\ agg_epsn[h] = At(o) /\ InControl(h)
      /\ operation_type = program[o].prim /\ root_rank' = program[o].root
  BY <1>1, GoodParts DEF ControlHandlerInv, InControl
<1>5. ASSUME NEW g \in Hosts
      PROVE  /\ ControlHandlerInv(g)' /\ Typed(g)' = Typed(g)
             /\ Rooted(g)' = (IF g = h THEN 1 .. o ELSE Rooted(g))
  <2>1. Calls' = Calls /\ \A q : At(q)' = At(q)
    BY <1>3, SameChunks
  <2>2. InControl(g)' <=> InControl(g)
    BY <1>1, <1>2 DEF InControl
  <2>3. ControlHandlerInv(g)
    BY GoodParts
  <2>4. pc'[g] = "meta" => pc[g] = "meta"
    BY <1>2
  <2>5. UNCHANGED <<cur, prim, param>>
    BY <1>1 DEF handlerVars
  <2>6. ControlHandlerInv(g)'
    BY <1>1, <1>3, <2>1, <2>2, <2>3, <2>4, <2>5 DEF ControlHandlerInv
  <2>7. Typed(g)' = Typed(g)
    BY <1>1, <2>2 DEF Typed
  <2>8. Rooted(g)' = (IF g = h THEN 1 .. o ELSE Rooted(g))
    BY <1>1, <1>2 DEF Rooted
  <2> QED BY <2>6, <2>7, <2>8
<1>6. ASSUME NEW g \in Hosts, NEW q \in Rooted(g)', IsReduce(program[q])
      PROVE  operation_type = "reduce" /\ root_rank' = program[q].root
  <2>1. q \in Typed(g)
    <3>1. CASE g = h
      BY <1>4, <1>5, <3>1 DEF Typed
    <3>2. CASE g # h
      <4>1. q \in Rooted(g)
        BY <1>5, <3>2
      <4>2. ctl[g] \in Nat
        BY GoodTypes
      <4>3. CASE pc[g] = "control"
        BY <4>1, <4>3 DEF Rooted, Typed, InControl
      <4>4. CASE pc[g] # "control"
        <5>1. q \in 1 .. ctl[g]
          BY <4>1, <4>4 DEF Rooted
        <5> QED BY <4>2, <5>1 DEF Typed
      <4> QED BY <4>3, <4>4
    <3> QED BY <3>1, <3>2
  <2>2. q \in Calls
    BY <2>1, AnnouncedCalls
  <2>3. ~ IsAllReduce(program[o])
    <3> HIDE DEF o
    <3> QED BY <1>4, <1>6, <2>1, NoReduceYet
  <2>4. IsReduce(program[o])
    BY <1>4, <2>3, GoodTypes, OrderlyCalls DEF IsReduce, IsAllReduce
  <2>5. program[o].root = program[q].root
    BY <1>4, <1>6, <2>2, <2>4, GoodTypes, OrderlyCalls
  <2> QED BY <1>4, <2>4, <2>5 DEF IsReduce
<1>7. MetaInv'
  <2>1. /\ operation_type \in {"allreduce", "reduce"}
        /\ operation_type = "reduce"
              => \E g \in Hosts : \E q \in Typed(g) : IsReduce(program[q])
    BY DEF Good, Order, MetaInv
  <2> QED BY <1>1, <1>3, <1>5, <1>6, <2>1 DEF MetaInv, Hosts
<1>8. /\ Added(h)' = Added(h) /\ ~ Busy(h) /\ ~ Busy(h)' /\ InControl(h)'
  BY <1>1, <1>2 DEF Added, Busy, InControl
<1>9. ThreadInv(h)'
  BY <1>2, <1>8 DEF ThreadInv
<1>10. AckInv(h)' /\ ControlInv(h)'
  <2>1. Len(sent[h]) <= Len(sent'[h]) /\ Len(sent'[h]) \in Nat
    BY <1>3, GoodTypes
  <2> QED BY <1>1, <1>3, <2>1, AckStays DEF callVars, qpVars
<1>11. \A g \in Hosts : g # h =>
          /\ cur'[g] = cur[g] /\ prim'[g] = prim[g] /\ param'[g] = param[g]
          /\ out_conns'[g] = out_conns[g] /\ agg_epsn'[g] = agg_epsn[g]
          /\ acked'[g] = acked[g] /\ ctl'[g] = ctl[g]
  BY <1>1 DEF handlerVars
<1> QED BY <1>1, <1>2, <1>7, <1>8, <1>9, <1>10, <1>11, PacketStep

(* The control message finds its rule and counts. *)
LEMMA AckControlOrder ==
    ASSUME Good, NEW h \in Hosts, AckControl(h)
    PROVE  Order'
<1> DEFINE o == ctl[h] + 1
<1>1. /\ Action(h) /\ pc[h] = "control" /\ InControl(h)
      /\ pc' = [pc EXCEPT ![h] = "idle"]
      /\ UNCHANGED <<callVars, qpVars, nicVars, metaVars, slotVars,
                     bcast_buffer, handlerVars, todo, out>>
  BY DEF AckControl, Action, InControl
<1>2. pc'[h] = "idle" /\ \A g \in Hosts : g # h => pc'[g] = pc[g]
  BY <1>1, GoodTypes, SwitchTypes
<1>3. program' = program /\ sent' = sent
  BY <1>1 DEF callVars, qpVars
<1>4. /\ o \in Calls /\ cur[h] = At(o) /\ agg_epsn[h] = At(o)
      /\ prim[h] = program[o].prim /\ param[h] = program[o].root
      /\ At(o) \in Psns(h)
  BY <1>1, GoodParts DEF ControlHandlerInv, HandlerInv, InControl
<1>5. /\ o \in Nat /\ o \in 1 .. Len(program) + 1 /\ o <= Len(program)
      /\ At(o) \in Nat /\ At(o + 1) \in Nat /\ At(o + 1) >= At(o) + 1
      /\ At(o) + 1 <= Len(sent[h]) /\ Len(sent[h]) \in Nat
  <2>1. Len(program) \in Nat /\ Len(sent[h]) \in Nat
    BY GoodTypes
  <2>2. program[o].len \in Nat \ {0} /\ At(o + 1) = At(o) + program[o].len + 1
    BY <1>4, GoodTypes, AtNext, ProgramCalls
  <2>3. At(o) \in Nat
    BY <1>4, GoodTypes
  <2>4. At(o) \in 0 .. Len(sent[h]) - 1
    BY <1>4 DEF Psns
  <2> QED BY SMTT(30), <1>4, <2>1, <2>2, <2>3, <2>4 DEF Calls
<1>6. /\ agg_epsn' = [agg_epsn EXCEPT ![h] = @ + 1]
      /\ acked' = Acked(h, At(o) + 1)
      /\ ctl' = [ctl EXCEPT ![h] = @ + 1]
  <2>1. HasRule(h, prim[h], param[h])
    BY <1>4, GoodTypes, OrderlyCalls DEF HasRule, IsReduce
  <2> HIDE DEF o
  <2> QED BY <1>4, <2>1 DEF AckControl
<1>7. agg_epsn'[h] = At(o) + 1 /\ ctl'[h] = o /\ acked'[h] = At(o) + 1
  <2>1. agg_epsn \in [Hosts -> Nat] /\ acked \in [Hosts -> Nat]
        /\ ctl \in [Hosts -> Nat]
    BY GoodTypes DEF TypeOK
  <2>2. acked[h] <= At(o) + 1 /\ acked[h] \in Nat
    <3>1. acked[h] <= agg_epsn[h]
      BY GoodParts DEF AckInv
    <3> QED BY <1>4, <1>5, <2>1, <3>1
  <2>3. acked'[h] = Max({acked[h], At(o) + 1})
    BY <1>6, <2>1 DEF Acked
  <2>4. acked'[h] = At(o) + 1
    <3> HIDE DEF o
    <3>1. At(o) + 1 \in Nat
      BY <1>5
    <3> QED BY <2>2, <2>3, <3>1, MaxIs
  <2>5. agg_epsn'[h] = agg_epsn[h] + 1 /\ ctl'[h] = ctl[h] + 1
    BY <1>6, <2>1
  <2> QED BY <1>4, <2>4, <2>5
<1>8. \A g \in Hosts : g # h => /\ agg_epsn'[g] = agg_epsn[g] /\ ctl'[g] = ctl[g]
                                /\ acked'[g] = acked[g]
  BY <1>6, GoodTypes DEF Acked, TypeOK
<1>9. \A c \in Chunks : Psn(c) < Added(h)' <=> Psn(c) < Added(h)
  <2> TAKE c \in Chunks
  <2>1. Added(h) = At(o) /\ Added(h)' = At(o) + 1
    BY <1>1, <1>2, <1>4, <1>7 DEF Added
  <2>2. Psn(c) # At(o) /\ Psn(c) \in Nat
    BY <1>5, GoodTypes, ChunkAndCall, ChunkFacts
  <2> QED BY <1>5, <2>1, <2>2
<1>10. ~ Busy(h) /\ ~ Busy(h)' /\ ThreadInv(h)'
  BY <1>1, <1>2 DEF Busy, ThreadInv, InControl
<1>11. AckInv(h)' /\ ControlInv(h)'
  <2>1. AckInv(h)'
    <3>1. /\ polled[h] <= acked[h] /\ acked[h] <= agg_epsn[h]
          /\ \A q \in Calls : q <= op[h] => At(q) <= agg_epsn[h]
          /\ polled[h] \in Nat /\ acked[h] \in Nat
      BY GoodTypes, GoodParts DEF AckInv
    <3>2. /\ polled'[h] <= acked'[h] /\ acked'[h] <= agg_epsn'[h]
          /\ agg_epsn'[h] <= Len(sent'[h])
      BY <1>1, <1>3, <1>4, <1>5, <1>7, <3>1 DEF qpVars
    <3>3. \A q \in Calls : q <= op[h] => At(q) <= agg_epsn'[h]
      <4> TAKE q \in Calls
      <4> HAVE q <= op[h]
      <4>1. At(q) \in Nat /\ At(q) <= At(o)
        BY SMTT(30), <1>4, <3>1, GoodTypes, AtGrows DEF Calls
      <4> QED BY <1>5, <1>7, <4>1
    <3>4. InCall(h)' /\ ~ Receives(h)' /\ ReducesToOneRoot(program)'
             => polled'[h] = At(op[h])' + IF phase'[h] = "run"
                                       THEN 1 + send_complete'[h] ELSE 0
      BY <1>1, GoodParts DEF AckInv, callVars, qpVars, InCall, Calls, Receives,
                             Call, IsRoot, At
    <3> QED BY <1>1, <1>3, <3>2, <3>3, <3>4, SameChunks
            DEF AckInv, callVars, qpVars
  <2>2. ControlInv(h)'
    <3>1. ctl'[h] <= Len(program) /\ agg_epsn'[h] <= At(o + 1)
          /\ At(o) < agg_epsn'[h]
      BY <1>5, <1>7
    <3> QED BY <1>3, <1>7, <3>1, SameChunks DEF ControlInv
  <2> QED BY <2>1, <2>2
<1>12. MetaInv'
  <2>1. ASSUME NEW g \in Hosts
        PROVE  /\ ControlHandlerInv(g)'
               /\ Typed(g)' = Typed(g) /\ Rooted(g)' = Rooted(g)
    <3>1. CASE g = h
      BY <1>1, <1>2, <1>7, <3>1
         DEF ControlHandlerInv, Typed, Rooted, InControl
    <3>2. CASE g # h
      <4>1. Calls' = Calls /\ \A q : At(q)' = At(q)
        BY <1>3, SameChunks
      <4>2. /\ pc'[g] = pc[g] /\ ctl'[g] = ctl[g] /\ agg_epsn'[g] = agg_epsn[g]
            /\ UNCHANGED <<cur, prim, param, operation_type>>
        BY <1>1, <1>2, <1>8, <3>2 DEF handlerVars, metaVars
      <4>3. ControlHandlerInv(g)
        BY GoodParts
      <4> QED BY <1>3, <4>1, <4>2, <4>3
              DEF ControlHandlerInv, Typed, Rooted, InControl
    <3> QED BY <3>1, <3>2
  <2>2. MetaInv
    BY DEF Good, Order
  <2> QED BY <1>1, <1>3, <2>1, <2>2 DEF MetaInv, metaVars, Hosts
<1>13. operation_type' = operation_type
  BY <1>1 DEF metaVars
<1>14. \A g \in Hosts : g # h =>
          /\ cur'[g] = cur[g] /\ prim'[g] = prim[g] /\ param'[g] = param[g]
          /\ out_conns'[g] = out_conns[g]
  BY <1>1 DEF handlerVars
<1> QED BY <1>1, <1>2, <1>8, <1>9, <1>10, <1>11, <1>12, <1>13, <1>14, PacketStep

LEMMA ReceiveDataOrder ==
    ASSUME Good, NEW h \in Hosts, NEW psn \in Psns(h), ReceiveData(h, psn)
    PROVE  Order'
<1>1. Action(h) /\ UNCHANGED <<callVars, qpVars, nicVars, metaVars, slotVars,
                               bcast_buffer, todo, ctl, out>>
      /\ UNCHANGED <<acked, agg_epsn, param, out_conns>>
  BY DEF ReceiveData, Action
<1>2. /\ pc[h] = "idle" /\ Message(h, psn).kind = "data"
      /\ cur' = [cur EXCEPT ![h] = psn]
      /\ prim' = [prim EXCEPT ![h] = operation_type]
      /\ pc' = [pc EXCEPT ![h] = "lookup"]
  BY DEF ReceiveData
<1>3. \A g \in Hosts : g # h => /\ pc'[g] = pc[g] /\ cur'[g] = cur[g]
                                /\ prim'[g] = prim[g]
  BY <1>2, GoodTypes, SwitchTypes
<1>4. pc'[h] = "lookup" /\ cur'[h] = psn /\ prim'[h] = operation_type
  BY <1>2, GoodTypes, SwitchTypes
<1>5. Added(h) = agg_epsn[h] /\ Added(h)' = agg_epsn[h] /\ ~ Busy(h) /\ ~ Busy(h)'
      /\ ~ InControl(h) /\ ~ InControl(h)'
  BY <1>1, <1>2, <1>4 DEF Added, Busy, InControl
<1>6. program' = program /\ sent' = sent
  BY <1>1 DEF callVars, qpVars
<1>7. ThreadInv(h)'
  <2> DEFINE c == Message(h, psn).chunk
  <2>1. c \in Chunks /\ psn = Psn(c)
    BY <1>2, MessagePsn
  <2>2. CallOf(InHand(h))' = CallOf(c)
    BY <1>4, <1>6 DEF InHand, Message, CallOf
  <2>3. psn = agg_epsn[h] => operation_type = CallOf(c).prim
    BY <1>5, <2>1, MetaFor
  <2>4. operation_type' = operation_type
        /\ operation_type \in {"allreduce", "reduce"}
    BY <1>1 DEF metaVars, Good, Order, MetaInv
  <2> QED BY <1>1, <1>4, <1>5, <2>2, <2>3, <2>4 DEF ThreadInv
<1>8. AckInv(h)' /\ ControlInv(h)'
  <2>1. Len(sent[h]) <= Len(sent'[h]) /\ Len(sent'[h]) \in Nat
    BY <1>6, GoodTypes
  <2> QED BY <1>1, <1>6, <2>1, AckStays DEF callVars, qpVars
<1> QED BY <1>1, <1>3, <1>5, <1>7, <1>8, DataStep

LEMMA DropDataOrder ==
    ASSUME Good, NEW h \in Hosts, DropData(h)
    PROVE  Order'
<1>1. Action(h) /\ UNCHANGED <<callVars, qpVars, nicVars, metaVars, slotVars,
                               bcast_buffer, todo, ctl, out>>
      /\ UNCHANGED <<acked, agg_epsn, cur, prim, param, out_conns>>
  BY DEF DropData, Action, handlerVars
<1>2. pc[h] = "lookup" /\ pc' = [pc EXCEPT ![h] = "idle"]
  BY DEF DropData
<1>3. pc'[h] = "idle" /\ \A g \in Hosts : g # h => pc'[g] = pc[g]
  BY <1>2, GoodTypes, SwitchTypes
<1>4. Added(h)' = Added(h) /\ ~ Busy(h) /\ ~ Busy(h)'
      /\ ~ InControl(h) /\ ~ InControl(h)'
  BY <1>1, <1>2, <1>3 DEF Added, Busy, InControl
<1>5. ThreadInv(h)'
  BY <1>3, <1>4 DEF ThreadInv
<1>6. AckInv(h)' /\ ControlInv(h)'
  <2>1. Len(sent[h]) <= Len(sent'[h]) /\ Len(sent'[h]) \in Nat
    BY <1>1, GoodTypes DEF qpVars
  <2> QED BY <1>1, <2>1, AckStays DEF callVars, qpVars
<1> QED BY <1>1, <1>3, <1>4, <1>5, <1>6, DataStep

(* An ACK of everything below n. *)
LEMMA AckedFacts ==
    ASSUME Good, NEW h \in Hosts, NEW n \in Nat, acked[h] <= n,
           acked' = Acked(h, n) \/ UNCHANGED acked
    PROVE  /\ acked'[h] \in Nat /\ acked[h] <= acked'[h] /\ acked'[h] <= n
           /\ \A g \in Hosts : g # h => acked'[g] = acked[g]
<1>1. acked \in [Hosts -> Nat] /\ acked[h] \in Nat
  BY GoodTypes, SwitchTypes
<1>2. Max({acked[h], n}) = n
  BY <1>1, MaxIs
<1> QED BY <1>1, <1>2 DEF Acked

LEMMA AnswerDataOrder ==
    ASSUME Good, NEW h \in Hosts, AnswerData(h)
    PROVE  Order'
<1>1. Action(h) /\ UNCHANGED <<callVars, qpVars, nicVars, metaVars, slotVars,
                               bcast_buffer, todo, ctl, out>>
      /\ UNCHANGED <<agg_epsn, cur, prim, param, out_conns>>
  BY DEF AnswerData, Action, handlerVars
<1>2. /\ pc[h] = "lookup" /\ pc' = [pc EXCEPT ![h] = "idle"]
      /\ acked' = Acked(h, agg_epsn[h]) \/ UNCHANGED acked
  BY DEF AnswerData
<1>3. pc'[h] = "idle" /\ \A g \in Hosts : g # h => pc'[g] = pc[g]
  BY <1>2, GoodTypes, SwitchTypes
<1>4. Added(h)' = Added(h) /\ ~ Busy(h) /\ ~ Busy(h)'
      /\ ~ InControl(h) /\ ~ InControl(h)'
  BY <1>1, <1>2, <1>3 DEF Added, Busy, InControl
<1>5. ThreadInv(h)'
  BY <1>3, <1>4 DEF ThreadInv
<1>6. /\ agg_epsn[h] \in Nat /\ acked[h] <= agg_epsn[h]
      /\ agg_epsn[h] <= Len(sent[h]) /\ agg_epsn[h] <= At(ctl[h] + 1)
  BY GoodTypes, GoodParts DEF AckInv, ControlInv
<1>7. /\ acked'[h] \in Nat /\ acked[h] <= acked'[h] /\ acked'[h] <= agg_epsn[h]
      /\ \A g \in Hosts : g # h => acked'[g] = acked[g]
  BY <1>2, <1>6, AckedFacts
<1>8. AckInv(h)' /\ ControlInv(h)'
  <2>1. agg_epsn'[h] = agg_epsn[h] /\ agg_epsn[h] <= agg_epsn'[h]
    BY <1>1, <1>6
  <2> QED BY <1>1, <1>6, <1>7, <2>1, AckMoves
<1> QED BY <1>1, <1>3, <1>4, <1>5, <1>7, <1>8, DataStep

LEMMA AcceptDataOrder ==
    ASSUME Good, NEW h \in Hosts, AcceptData(h)
    PROVE  Order'
<1> DEFINE c == InHand(h)
<1>1. Action(h) /\ UNCHANGED <<callVars, qpVars, nicVars, metaVars, slotVars,
                               bcast_buffer, todo, ctl, out>>
      /\ UNCHANGED <<cur, prim, param>>
  BY DEF AcceptData, Action
<1>2. /\ pc[h] = "lookup" /\ cur[h] = agg_epsn[h]
      /\ agg_epsn' = [agg_epsn EXCEPT ![h] = @ + 1]
      /\ acked' = Acked(h, agg_epsn[h] + 1) \/ UNCHANGED acked
      /\ out_conns' = [out_conns EXCEPT ![h] = OutConns(prim[h], root_rank)]
      /\ pc' = [pc EXCEPT ![h] = "accepted"]
  BY DEF AcceptData
<1>3. /\ pc'[h] = "accepted" /\ agg_epsn'[h] = agg_epsn[h] + 1
      /\ out_conns'[h] = OutConns(prim[h], root_rank)
      /\ \A g \in Hosts : g # h => /\ pc'[g] = pc[g] /\ agg_epsn'[g] = agg_epsn[g]
                                   /\ out_conns'[g] = out_conns[g]
  BY <1>2, GoodTypes, SwitchTypes
<1>4. Added(h)' = Added(h) /\ ~ Busy(h) /\ ~ Busy(h)'
      /\ ~ InControl(h) /\ ~ InControl(h)'
  BY <1>1, <1>2, <1>3 DEF Added, Busy, InControl
<1>5. /\ c \in Chunks /\ cur[h] = Psn(c) /\ cur[h] \in Psns(h)
      /\ CallOf(InHand(h))' = CallOf(c)
  <2>1. pc[h] # "idle" /\ cur'[h] = cur[h]
    BY <1>1, <1>2
  <2>2. InHand(h)' = c
    BY <1>1, <2>1, InHandStays
  <2> QED BY <1>1, <1>2, <2>1, <2>2, InHandChunk DEF CallOf, callVars, InControl
<1>6. ThreadInv(h)'
  <2>1. prim[h] = CallOf(c).prim
    BY <1>2, GoodParts DEF ThreadInv
  <2>2. IsAllReduce(CallOf(c)) => out_conns'[h] = Hosts
    BY <1>3, <2>1 DEF IsAllReduce, OutConns
  <2>3. agg_epsn'[h] = cur'[h] + 1
    BY <1>1, <1>2, <1>3
  <2>4. Hosts' = Hosts
    BY DEF Hosts
  <2> QED BY <1>3, <1>4, <1>5, <2>2, <2>3, <2>4 DEF ThreadInv, IsAllReduce
<1>7. /\ agg_epsn[h] \in Nat /\ acked[h] <= agg_epsn[h] /\ ctl[h] \in Nat
      /\ agg_epsn[h] <= At(ctl[h] + 1) /\ ctl[h] + 1 \in 1 .. Len(program) + 1
      /\ Len(sent[h]) \in Nat /\ acked[h] \in Nat
  BY GoodTypes, GoodParts DEF AckInv, ControlInv
<1>8. agg_epsn[h] + 1 <= At(ctl[h] + 1) /\ agg_epsn[h] + 1 <= Len(sent[h])
  <2>1. Psn(c) # At(ctl[h] + 1) /\ At(ctl[h] + 1) \in Nat
    BY <1>5, <1>7, GoodTypes, ChunkAndCall, AtGrows
  <2>2. agg_epsn[h] # At(ctl[h] + 1)
    BY <1>2, <1>5, <2>1
  <2>3. cur[h] \in 0 .. Len(sent[h]) - 1
    BY <1>5 DEF Psns
  <2> QED BY <1>2, <1>7, <2>1, <2>2, <2>3
<1>9. /\ acked'[h] \in Nat /\ acked[h] <= acked'[h]
      /\ acked'[h] <= agg_epsn[h] + 1
      /\ \A g \in Hosts : g # h => acked'[g] = acked[g]
  <2>1. agg_epsn[h] + 1 \in Nat /\ acked[h] <= agg_epsn[h] + 1
    BY <1>7
  <2> QED BY <1>2, <2>1, AckedFacts
<1>10. AckInv(h)' /\ ControlInv(h)'
  BY <1>1, <1>3, <1>7, <1>8, <1>9, AckMoves
<1> QED BY <1>1, <1>3, <1>4, <1>6, <1>9, <1>10, DataStep

(* The metadata a thread reads are those of its packet's operation. *)
LEMMA ReadOperationOrder ==
    ASSUME Good, NEW h \in Hosts, ReadOperation(h)
    PROVE  Order'
<1> DEFINE c == InHand(h)
<1>1. Action(h) /\ UNCHANGED <<callVars, qpVars, nicVars, metaVars, slotVars,
                               bcast_buffer, todo, ctl, out>>
      /\ UNCHANGED <<acked, agg_epsn, cur, param, out_conns>>
  BY DEF ReadOperation, Action
<1>2. /\ pc[h] = "accepted" /\ pc' = [pc EXCEPT ![h] = "typed"]
      /\ prim' = [prim EXCEPT ![h] = operation_type]
  BY DEF ReadOperation
<1>3. /\ pc'[h] = "typed" /\ prim'[h] = operation_type
      /\ \A g \in Hosts : g # h => pc'[g] = pc[g] /\ prim'[g] = prim[g]
  BY <1>2, GoodTypes, SwitchTypes
<1>4. Added(h)' = Added(h) /\ Added(h) = cur[h] /\ ~ Busy(h) /\ ~ Busy(h)'
      /\ ~ InControl(h) /\ ~ InControl(h)'
  BY <1>1, <1>2, <1>3 DEF Added, Busy, InControl
<1>5. c \in Chunks /\ cur[h] = Psn(c) /\ CallOf(InHand(h))' = CallOf(c)
  <2>1. pc[h] # "idle" /\ cur'[h] = cur[h]
    BY <1>1, <1>2
  <2>2. InHand(h)' = c
    BY <1>1, <2>1, InHandStays
  <2> QED BY <1>1, <1>2, <2>1, <2>2, InHandChunk DEF CallOf, callVars, InControl
<1>6. ThreadInv(h)'
  <2>1. operation_type = CallOf(c).prim
    BY <1>4, <1>5, MetaFor
  <2>2. agg_epsn[h] = cur[h] + 1 /\ (IsAllReduce(CallOf(c)) => out_conns[h] = Hosts)
    BY <1>2, GoodParts DEF ThreadInv, InControl
  <2>3. Hosts' = Hosts
    BY DEF Hosts
  <2> QED BY <1>1, <1>3, <1>4, <1>5, <2>1, <2>2, <2>3 DEF ThreadInv, IsAllReduce
<1>7. AckInv(h)' /\ ControlInv(h)'
  <2>1. Len(sent[h]) <= Len(sent'[h]) /\ Len(sent'[h]) \in Nat
    BY <1>1, GoodTypes DEF qpVars
  <2> QED BY <1>1, <2>1, AckStays DEF callVars, qpVars
<1> QED BY <1>1, <1>3, <1>4, <1>6, <1>7, DataStep

LEMMA ReadRootOrder ==
    ASSUME Good, NEW h \in Hosts, ReadRoot(h)
    PROVE  Order'
<1> DEFINE c == InHand(h)
<1>1. pc[h] = "typed" /\ param' = [param EXCEPT ![h] = root_rank]
      /\ Action(h) /\ UNCHANGED <<callVars, qpVars, nicVars, metaVars, slotVars,
                                  bcast_buffer, ctl, out>>
      /\ UNCHANGED <<acked, agg_epsn, cur, prim, out_conns>>
  BY DEF ReadRoot, Action
<1>2. /\ c \in Chunks /\ cur[h] = Psn(c) /\ CallOf(InHand(h))' = CallOf(c)
      /\ prim[h] = CallOf(c).prim /\ c[1] \in Calls
  <2>1. pc[h] # "idle" /\ cur'[h] = cur[h]
    BY <1>1
  <2>2. InHand(h)' = c
    BY <1>1, <2>1, InHandStays
  <2>3. c \in Chunks /\ cur[h] = Psn(c)
    BY <1>1, <2>1, InHandChunk DEF InControl
  <2>4. c[1] \in Calls
    BY <2>3, GoodTypes, ChunkFacts
  <2>5. prim[h] = CallOf(c).prim
    BY <1>1, GoodParts DEF ThreadInv
  <2> QED BY <1>1, <2>2, <2>3, <2>4, <2>5 DEF CallOf, callVars
<1>3. prim[h] # "broadcast"
  BY <1>2, GoodTypes, OrderlyCalls DEF CallOf
<1>4. pc' = [pc EXCEPT ![h] = "aggregate"] /\ UNCHANGED todo
  BY <1>3 DEF ReadRoot
<1>5. /\ pc'[h] = "aggregate" /\ param'[h] = root_rank
      /\ \A g \in Hosts : g # h => pc'[g] = pc[g] /\ param'[g] = param[g]
  BY <1>1, <1>4, GoodTypes, SwitchTypes
<1>6. Added(h)' = Added(h) /\ Added(h) = cur[h] /\ ~ Busy(h) /\ ~ Busy(h)'
      /\ ~ InControl(h) /\ ~ InControl(h)'
  BY <1>1, <1>5 DEF Added, Busy, InControl
<1>7. ThreadInv(h)'
  <2>1. IsReduce(CallOf(c)) => root_rank = CallOf(c).root
    BY <1>2, <1>6, MetaFor
  <2>2. agg_epsn[h] = cur[h] + 1 /\ (IsAllReduce(CallOf(c)) => out_conns[h] = Hosts)
    BY <1>1, GoodParts DEF ThreadInv, InControl
  <2>3. Hosts' = Hosts
    BY DEF Hosts
  <2> QED BY <1>1, <1>2, <1>5, <1>6, <2>1, <2>2, <2>3
          DEF ThreadInv, IsAllReduce, IsReduce
<1>8. AckInv(h)' /\ ControlInv(h)'
  <2>1. Len(sent[h]) <= Len(sent'[h]) /\ Len(sent'[h]) \in Nat
    BY <1>1, GoodTypes DEF qpVars
  <2> QED BY <1>1, <2>1, AckStays DEF callVars, qpVars
<1> QED BY <1>1, <1>4, <1>5, <1>6, <1>7, <1>8, DataStep

------------------------------------------------------------------------------
(* The slot a packet is added to. *)

LEMMA HostsFinite ==
    /\ IsFiniteSet(Hosts) /\ Cardinality(Hosts) = fan_in /\ fan_in \in Nat \ {0}
    /\ Hosts # {}
<1>1. fan_in \in Nat \ {0}
  BY SizesAssumption
<1>2. IsFiniteSet(Hosts) /\ Cardinality(Hosts) = fan_in
  <2>1. 0 \in Int /\ fan_in - 1 \in Int /\ ~ (0 > fan_in - 1)
        /\ fan_in - 1 - 0 + 1 = fan_in
    BY <1>1
  <2> QED BY <2>1, FS_Interval DEF Hosts
<1>3. 0 \in Hosts
  BY <1>1 DEF Hosts
<1> QED BY <1>1, <1>2, <1>3

LEMMA SlotOf ==
    ASSUME TypeOK, NEW c \in Chunks
    PROVE  Idx(Psn(c)) \in Slots
<1>1. Psn(c) \in Nat /\ N \in Nat \ {0}
  BY ChunkFacts, SizesAssumption
<1> QED BY <1>1 DEF Idx, Slots

(* What of a chunk is in its slot has been sent. *)
LEMMA AddedSent ==
    ASSUME Good, NEW c \in Chunks, NEW g \in Hosts, Psn(c) < Added(g)
    PROVE  Psn(c) < Len(sent[g])
<1>1. /\ Added(g) \in Nat /\ Added(g) <= agg_epsn[g] /\ agg_epsn[g] <= Len(sent[g])
      /\ agg_epsn[g] \in Nat /\ Len(sent[g]) \in Nat /\ Psn(c) \in Nat
  BY AddedFacts, GoodTypes, ChunkFacts
<1> QED BY <1>1

(* The slot of a chunk that is not finished belongs to it alone. *)
LEMMA SlotIs ==
    ASSUME Good, NEW c \in Chunks, ~ Freed(c),
           \E g \in Hosts : Psn(c) < Len(sent[g])
    PROVE  /\ Idx(Psn(c)) \in Slots
           /\ \A d \in Chunks : \A g \in Hosts :
                 Owner(Idx(Psn(c)), d) /\ Psn(d) < Added(g) => d = c
           /\ arrival[Idx(Psn(c))] = {g \in Hosts : Psn(c) < Added(g)}
           /\ degree[Idx(Psn(c))] = Cardinality(arrival[Idx(Psn(c))])
           /\ \A g \in Hosts : Psn(c) < Added(g)
                 => agg_buffer[Idx(Psn(c))] = Parts(c)
<1>1. Idx(Psn(c)) \in Slots
  BY GoodTypes, SlotOf
<1>2. SlotInv
  BY DEF Good, Order
<1>3. ASSUME NEW d \in Chunks, NEW g \in Hosts, Owner(Idx(Psn(c)), d),
             Psn(d) < Added(g)
      PROVE  d = c
  <2>1. Idx(Psn(d)) = Idx(Psn(c)) /\ ~ Freed(d)
    BY <1>3 DEF Owner
  <2>2. \E k \in Hosts : Psn(d) < Len(sent[k])
    BY <1>3, AddedSent
  <2> QED BY <2>1, <2>2, OwnSlot
<1>4. Owner(Idx(Psn(c)), c)
  BY DEF Owner
<1>5. arrival[Idx(Psn(c))] = {g \in Hosts : \E d \in Chunks :
                                 Owner(Idx(Psn(c)), d) /\ Psn(d) < Added(g)}
  BY <1>1, <1>2 DEF SlotInv
<1>6. arrival[Idx(Psn(c))] = {g \in Hosts : Psn(c) < Added(g)}
  BY <1>3, <1>4, <1>5
<1> QED BY <1>1, <1>2, <1>3, <1>6 DEF SlotInv

(* What the slot holds when a packet is added to it. *)
LEMMA SlotAtAggregate ==
    ASSUME Good, NEW h \in Hosts, pc[h] = "aggregate"
    PROVE  LET c == InHand(h)
               i == Idx(cur[h])
           IN  /\ c \in Chunks /\ cur[h] = Psn(c) /\ i \in Slots
               /\ Added(h) = Psn(c) /\ ~ Full(c) /\ ~ Freed(c)
               /\ \E g \in Hosts : Psn(c) < Len(sent[g])
               /\ arrival[i] = {g \in Hosts : Psn(c) < Added(g)}
               /\ h \notin arrival[i]
               /\ IsFiniteSet(arrival[i]) /\ degree[i] = Cardinality(arrival[i])
               /\ degree[i] # 0 => agg_buffer[i] = Parts(c)
               /\ (IF degree[i] = 0 THEN NoData ELSE agg_buffer[i]) = Parts(c)
<1> DEFINE c == InHand(h)
           i == Idx(cur[h])
<1>1. c \in Chunks /\ cur[h] = Psn(c) /\ cur[h] \in Psns(h)
  BY InHandChunk DEF InControl
<1>2. Psn(c) \in Nat /\ Len(sent[h]) \in Nat
  BY <1>1, GoodTypes, ChunkFacts
<1>3. Psn(c) < Len(sent[h])
  <2>1. cur[h] \in 0 .. Len(sent[h]) - 1
    BY <1>1 DEF Psns
  <2> QED BY <1>1, <1>2, <2>1
<1>4. Added(h) = Psn(c)
  BY <1>1 DEF Added
<1>5. ~ Full(c)
  BY <1>2, <1>4 DEF Full
<1>6. ~ Freed(c)
  BY <1>5 DEF Freed
<1> HIDE DEF c
<1>7. /\ i \in Slots
      /\ arrival[i] = {g \in Hosts : Psn(c) < Added(g)}
      /\ degree[i] = Cardinality(arrival[i])
      /\ \A g \in Hosts : Psn(c) < Added(g) => agg_buffer[i] = Parts(c)
  BY <1>1, <1>3, <1>6, SlotIs
<1>8. h \notin arrival[i]
  BY <1>2, <1>4, <1>7
<1>9. IsFiniteSet(arrival[i])
  <2>1. arrival[i] \in SUBSET Hosts
    BY <1>7
  <2> QED BY <2>1, HostsFinite, FS_Subset
<1>10. degree[i] # 0 => agg_buffer[i] = Parts(c)
  <2>1. degree[i] # 0 => arrival[i] # {}
    BY <1>7, FS_EmptySet
  <2> QED BY <1>7, <2>1
<1>11. degree[i] = 0 => NoData = Parts(c)
  <2>1. degree[i] = 0 => arrival[i] = {}
    BY <1>7, <1>9, FS_EmptySet
  <2>2. arrival[i] = {} => \A g \in Hosts : ~ (Psn(c) < Added(g))
    BY <1>7
  <2> QED BY <2>1, <2>2 DEF NoData, Parts
<1> QED BY <1>1, <1>3, <1>4, <1>5, <1>6, <1>7, <1>8, <1>9, <1>10, <1>11 DEF c

(* The packet is added: its chunk becomes full, or is as it was. *)
LEMMA AggregateAdds ==
    ASSUME Good, NEW h \in Hosts, Aggregate(h), NEW c \in Chunks, c = InHand(h)
    PROVE  /\ \A g \in Hosts : \A d \in Chunks :
                 Psn(d) < Added(g)' <=> Psn(d) < Added(g) \/ (g = h /\ d = c)
           /\ \A d \in Chunks : d # c => (Full(d)' <=> Full(d))
           /\ Full(c)' <=> degree[Idx(cur[h])] + 1 = fan_in
           /\ Full(c)' => \A t \in Hosts : ~ Busy(t)
<1> DEFINE i == Idx(cur[h])
<1>1. /\ pc[h] = "aggregate" /\ program' = program /\ cur' = cur
      /\ agg_epsn' = agg_epsn /\ pc' = [pc EXCEPT ![h] = Completion(h)]
  BY DEF Aggregate, callVars, handlerVars
<1>2. /\ cur[h] = Psn(c) /\ i \in Slots
      /\ Added(h) = Psn(c) /\ ~ Full(c)
      /\ arrival[i] = {g \in Hosts : Psn(c) < Added(g)}
      /\ h \notin arrival[i] /\ IsFiniteSet(arrival[i])
      /\ degree[i] = Cardinality(arrival[i])
  BY <1>1, SlotAtAggregate
<1>3. \A g \in Hosts : g # h => pc'[g] = pc[g] /\ Added(g)' = Added(g)
  BY <1>1, GoodTypes, SwitchTypes DEF Added
<1>4. Added(h)' = Psn(c) + 1
  <2>1. pc'[h] = Completion(h)
    BY <1>1, GoodTypes, SwitchTypes
  <2>2. prim[h] \in {"allreduce", "reduce"}
    <3>1. prim[h] = CallOf(c).prim
      BY <1>1, GoodParts DEF ThreadInv
    <3> QED BY <3>1, GoodTypes, ChunkFacts, OrderlyCalls DEF CallOf
  <2>3. pc'[h] \in {"idle", "cache", "reduce"}
    BY <2>1, <2>2 DEF Completion
  <2>4. agg_epsn[h] = cur[h] + 1
    BY <1>1, AddedFacts
  <2> QED BY <1>1, <1>2, <2>3, <2>4 DEF Added
<1>5. \A d \in Chunks : Psn(d)' = Psn(d) /\ Psn(d) \in Nat
                        /\ (Psn(d) = Psn(c) <=> d = c)
  BY <1>1, GoodTypes, SameChunks, ChunkFacts, ChunkOrder
<1>6. \A g \in Hosts : \A d \in Chunks :
         Psn(d) < Added(g)' <=> Psn(d) < Added(g) \/ (g = h /\ d = c)
  <2> TAKE g \in Hosts
  <2> TAKE d \in Chunks
  <2>1. CASE g = h
    <3>1. Psn(d) < Psn(c) + 1 <=> Psn(d) < Psn(c) \/ Psn(d) = Psn(c)
      BY <1>5
    <3> QED BY <1>2, <1>4, <1>5, <2>1, <3>1
  <2>2. CASE g # h
    BY <1>3, <2>2
  <2> QED BY <2>1, <2>2
<1>7. \A d \in Chunks : Full(d)' <=> \A g \in Hosts : Psn(d) < Added(g)'
  BY <1>5 DEF Full, Hosts
<1>8. \A d \in Chunks : d # c => (Full(d)' <=> Full(d))
  BY <1>6, <1>7 DEF Full
<1>9. Full(c)' <=> degree[i] + 1 = fan_in
  <2>1. /\ IsFiniteSet(arrival[i] \union {h})
        /\ Cardinality(arrival[i] \union {h}) = degree[i] + 1
    BY <1>2, FS_AddElement
  <2>2. Full(c)' <=> arrival[i] \union {h} = Hosts
    BY <1>2, <1>6, <1>7
  <2>3. arrival[i] \union {h} \in SUBSET Hosts
    BY <1>2
  <2>4. Cardinality(arrival[i] \union {h}) = Cardinality(Hosts)
           => arrival[i] \union {h} = Hosts
    BY <2>3, HostsFinite, FS_Subset
  <2> HIDE DEF i
  <2> QED BY <2>1, <2>2, <2>4, HostsFinite
<1>10. ASSUME Full(c)', NEW t \in Hosts, Busy(t)
       PROVE  FALSE
  <2>1. t # h
    BY <1>1, <1>10 DEF Busy
  <2>2. /\ InHand(t) \in Chunks /\ cur[t] = Psn(InHand(t)) /\ Full(InHand(t))
        /\ Added(t) = cur[t] + 1
    BY <1>10, InHandChunk, AddedFacts, GoodParts DEF ThreadInv, Busy, InControl
  <2> DEFINE d == InHand(t)
  <2>3. Psn(d) < Psn(c)
    BY <1>2, <2>2 DEF Full
  <2>4. Psn(c) < Psn(d) + 1
    BY <1>3, <1>7, <1>10, <2>1, <2>2
  <2>5. Psn(c) \in Nat /\ Psn(d) \in Nat
    BY <1>5, <2>2
  <2> QED BY <2>3, <2>4, <2>5
<1> QED BY <1>6, <1>8, <1>9, <1>10

LEMMA AggregateOrder ==
    ASSUME Good, NEW h \in Hosts, Aggregate(h)
    PROVE  Order'
<1> DEFINE i == Idx(cur[h])
<1>1. /\ pc[h] = "aggregate" /\ Action(h)
      /\ UNCHANGED <<callVars, qpVars, acked, nicVars, agg_epsn, metaVars,
                     bcast_buffer, handlerVars, todo, ctl, out>>
      /\ agg_buffer' = [agg_buffer EXCEPT ![i] = Summed(h)]
      /\ arrival' = [arrival EXCEPT ![i] = @ \union {h}]
      /\ degree' = [degree EXCEPT ![i] = @ + 1]
      /\ pc' = [pc EXCEPT ![h] = Completion(h)]
  BY DEF Aggregate, Action
<1>2. PICK c \in Chunks : c = InHand(h)
  BY <1>1, SlotAtAggregate
<1>3. /\ cur[h] = Psn(c) /\ i \in Slots /\ Added(h) = Psn(c)
      /\ ~ Full(c) /\ ~ Freed(c)
      /\ \E g \in Hosts : Psn(c) < Len(sent[g])
      /\ arrival[i] = {g \in Hosts : Psn(c) < Added(g)}
      /\ h \notin arrival[i]
      /\ IsFiniteSet(arrival[i]) /\ degree[i] = Cardinality(arrival[i])
      /\ (IF degree[i] = 0 THEN NoData ELSE agg_buffer[i]) = Parts(c)
  BY <1>1, <1>2, SlotAtAggregate
<1>4. /\ \A g \in Hosts : \A d \in Chunks :
            Psn(d) < Added(g)' <=> Psn(d) < Added(g) \/ (g = h /\ d = c)
      /\ \A d \in Chunks : d # c => (Full(d)' <=> Full(d))
      /\ Full(c)' <=> degree[i] + 1 = fan_in
      /\ Full(c)' => \A t \in Hosts : ~ Busy(t)
  BY <1>2, AggregateAdds
<1>5. /\ program' = program /\ cur' = cur /\ todo' = todo /\ out' = out
      /\ sent' = sent
  BY <1>1 DEF callVars, qpVars, handlerVars
<1>6. /\ pc'[h] = Completion(h) /\ \A g \in Hosts : g # h => pc'[g] = pc[g]
  BY <1>1, GoodTypes, SwitchTypes
<1>7. prim[h] = CallOf(c).prim /\ CallOf(c).prim \in {"allreduce", "reduce"}
  <2>1. prim[h] = CallOf(c).prim
    BY <1>1, <1>2, GoodParts DEF ThreadInv
  <2> QED BY <2>1, GoodTypes, ChunkFacts, OrderlyCalls DEF CallOf
<1>8. /\ Full(c)' => pc'[h] = IF IsAllReduce(CallOf(c)) THEN "cache" ELSE "reduce"
      /\ ~ Full(c)' => pc'[h] = "idle"
  BY <1>4, <1>6, <1>7 DEF Completion, IsAllReduce
<1>9. /\ Chunks' = Chunks
      /\ \A d : /\ Psn(d)' = Psn(d) /\ Index(d)' = Index(d)
                /\ CallOf(d)' = CallOf(d) /\ Expected(d)' = Expected(d)
      /\ \A g, d : Receiver(g, d)' <=> Receiver(g, d)
  BY <1>5, SameChunks
<1>10. /\ ~ Busy(h) /\ (Busy(h)' <=> Full(c)')
       /\ \A t \in Hosts : t # h => (Busy(t)' <=> Busy(t))
  BY <1>1, <1>6, <1>8 DEF Busy
<1>11. OneBusy'
  <2>1. OneBusy
    BY DEF Good, Order
  <2>2. \A t, u \in Hosts : Busy(t)' /\ Busy(u)' => t = u
    BY <1>4, <1>10, <2>1 DEF OneBusy
  <2> QED BY <2>2 DEF OneBusy, Hosts
<1>12. \A t \in Hosts : \A d \in Chunks :
          /\ Serves(t, d)' <=> Serves(t, d) \/ (t = h /\ d = c /\ Full(c)')
          /\ Serves(t, d) => t # h
  <2>1. \A d \in Chunks : Psn(d) = Psn(c) <=> d = c
    BY GoodTypes, ChunkOrder
  <2> QED BY <1>3, <1>5, <1>9, <1>10, <2>1 DEF Serves
<1>13. \A d \in Chunks : Freed(d)' <=> Freed(d)
  <2> TAKE d \in Chunks
  <2>1. Freed(d)' <=> Full(d)' /\ \A t \in Hosts : ~ Serves(t, d)'
    BY DEF Freed, Hosts
  <2>2. CASE d = c
    BY <1>3, <1>12, <2>1, <2>2
  <2>3. CASE d # c
    BY <1>4, <1>12, <2>1, <2>3 DEF Freed
  <2> QED BY <2>2, <2>3
<1>14. \A g \in Hosts : \A d \in Chunks : SentTo(g, d)' <=> SentTo(g, d)
  <2> TAKE g \in Hosts
  <2> TAKE d \in Chunks
  <2>1. SentTo(g, d)' <=> /\ Full(d)'
                          /\ \A t \in Hosts : Serves(t, d)' =>
                                \/ pc'[t] = "cleanup"
                                \/ pc'[t] = "send" /\ g \notin todo'[t]
    BY DEF SentTo, Hosts
  <2>2. CASE d = c
    <3>1. ~ SentTo(g, d)
      BY <1>3, <2>2 DEF SentTo
    <3>2. ~ SentTo(g, d)'
      BY <1>8, <1>12, <2>1, <2>2
    <3> QED BY <3>1, <3>2
  <2>3. CASE d # c
    BY <1>4, <1>5, <1>6, <1>12, <2>1, <2>3 DEF SentTo
  <2> QED BY <2>2, <2>3
<1>15. ASSUME NEW g \in Hosts
       PROVE  OutInv(g)'
  <2>1. OutInv(g)
    BY GoodParts
  <2> QED BY <1>5, <1>9, <1>14, <2>1 DEF OutInv
<1>16. \A j : \A d \in Chunks : Owner(j, d)' <=> Owner(j, d)
  BY <1>9, <1>13 DEF Owner, Idx
<1>17. SlotInv'
  <2>1. SlotInv
    BY DEF Good, Order
  <2>2. Owner(i, c) /\ \A j : j # i => ~ Owner(j, c)
    BY <1>3 DEF Owner
  <2>3. ASSUME NEW j \in Slots
        PROVE  /\ arrival'[j] = {g \in Hosts : \E d \in Chunks :
                                    Owner(j, d) /\ Psn(d) < Added(g)'}
               /\ degree'[j] = Cardinality(arrival'[j])
    <3>1. /\ arrival[j] = {g \in Hosts : \E d \in Chunks :
                              Owner(j, d) /\ Psn(d) < Added(g)}
          /\ degree[j] = Cardinality(arrival[j])
      BY <2>1 DEF SlotInv
    <3>2. arrival \in [Slots -> SUBSET Hosts] /\ degree \in [Slots -> Nat]
      BY GoodTypes, SwitchTypes
    <3>3. CASE j = i
      <4>1. arrival'[j] = arrival[i] \union {h} /\ degree'[j] = degree[i] + 1
        BY <1>1, <3>2, <3>3
      <4>2. Cardinality(arrival[i] \union {h}) = degree[i] + 1
        BY <1>3, FS_AddElement
      <4>3. {g \in Hosts : \E d \in Chunks : Owner(j, d) /\ Psn(d) < Added(g)'}
               = arrival[i] \union {h}
        <5> HIDE DEF i
        <5> QED BY <1>4, <2>2, <3>1, <3>3
      <4> QED BY <4>1, <4>2, <4>3
    <3>4. CASE j # i
      <4>1. arrival'[j] = arrival[j] /\ degree'[j] = degree[j]
        BY <1>1, <3>2, <3>4
      <4>2. {g \in Hosts : \E d \in Chunks : Owner(j, d) /\ Psn(d) < Added(g)'}
               = arrival[j]
        <5> HIDE DEF i
        <5> QED BY <1>4, <2>2, <3>1, <3>4
      <4> QED BY <3>1, <4>1, <4>2
    <3> QED BY <3>3, <3>4
  <2>4. ASSUME NEW d \in Chunks, NEW g \in Hosts, ~ Freed(d), Psn(d) < Added(g)'
        PROVE  agg_buffer'[Idx(Psn(d))] = [k \in Hosts |->
                  IF Psn(d) < Added(k)' THEN <<d>> ELSE << >>]
    <3>1. agg_buffer \in [Slots -> Sums]
      BY GoodTypes, SwitchTypes
    <3>2. CASE d = c
      <4>1. agg_buffer'[i] = [Parts(c) EXCEPT ![h] = Append(@, c)]
        BY <1>1, <1>2, <1>3, <3>1 DEF Summed, InHand
      <4>2. Parts(c)[h] = << >>
        BY <1>3 DEF Parts
      <4>3. Append(<< >>, c) = <<c>>
        OBVIOUS
      <4> QED BY <1>3, <1>4, <3>2, <4>1, <4>2, <4>3 DEF Parts
    <3>3. CASE d # c
      <4>1. Psn(d) < Added(g)
        BY <1>4, <2>4, <3>3
      <4>2. Idx(Psn(d)) # i
        <5>1. \E k \in Hosts : Psn(d) < Len(sent[k])
          BY <4>1, AddedSent
        <5> QED BY <1>3, <2>4, <3>3, <5>1, OwnSlot
      <4>3. agg_buffer'[Idx(Psn(d))] = agg_buffer[Idx(Psn(d))]
        <5>1. Idx(Psn(d)) \in Slots
          BY GoodTypes, SlotOf
        <5> QED BY <1>1, <3>1, <4>2, <5>1
      <4>4. agg_buffer[Idx(Psn(d))] = Parts(d)
        BY <2>1, <2>4, <4>1 DEF SlotInv
      <4> QED BY <1>4, <3>3, <4>3, <4>4 DEF Parts
    <3> QED BY <3>2, <3>3
  <2>5. Slots' = Slots /\ Hosts' = Hosts /\ \A d : Idx(Psn(d))' = Idx(Psn(d))
    BY <1>9 DEF Slots, Hosts, Idx
  <2> QED BY <1>9, <1>13, <1>16, <2>3, <2>4, <2>5 DEF SlotInv, Parts
<1>18. ASSUME NEW g \in Hosts
       PROVE  ThreadInv(g)'
  <2>1. \A d \in Chunks : Full(d) => Full(d)'
    BY <1>3, <1>4
  <2>2. CASE g # h
    BY <1>1, <1>6, <2>1, <2>2, ThreadStays DEF handlerVars, metaVars
  <2>3. CASE g = h
    <3>1. /\ agg_epsn[h] = cur[h] + 1
          /\ IsAllReduce(CallOf(c)) => out_conns[h] = Hosts
          /\ IsReduce(CallOf(c)) => param[h] = CallOf(c).root
      BY <1>1, <1>2, GoodParts DEF ThreadInv, InControl
    <3>2. InHand(h)' = c /\ CallOf(InHand(h))' = CallOf(c) /\ Hosts' = Hosts
      <4>1. InHand(h)' = InHand(h)
        BY <1>1, <1>5, InHandStays
      <4>2. InHand(h)' = c
        BY <1>2, <4>1
      <4> QED BY <1>5, <4>2 DEF CallOf, Hosts
    <3>3. Busy(h)' => Full(InHand(h))'
      <4>1. Full(InHand(h))' <=> Full(c)'
        BY <3>2, <1>9 DEF Full
      <4> QED BY <1>10, <4>1
    <3>4. pc'[h] \in {"idle", "cache", "reduce"}
          /\ (pc'[h] = "cache" => IsAllReduce(CallOf(c)))
          /\ (pc'[h] = "reduce" => IsReduce(CallOf(c)))
      BY <1>7, <1>8 DEF IsAllReduce, IsReduce
    <3>5. UNCHANGED <<agg_epsn, cur, prim, param, out_conns>>
      BY <1>1 DEF handlerVars
    <3> QED BY <2>3, <3>1, <3>2, <3>3, <3>4, <3>5 DEF ThreadInv, IsAllReduce, IsReduce
  <2> QED BY <2>2, <2>3
<1>19. AcksInv'
  <2>1. ASSUME NEW g \in Hosts
        PROVE  AckInv(g)' /\ ControlInv(g)'
    <3>1. Len(sent[g]) <= Len(sent'[g]) /\ Len(sent'[g]) \in Nat
      BY <1>5, GoodTypes
    <3> QED BY <1>1, <1>5, <3>1, AckStays DEF callVars, qpVars
  <2> QED BY <2>1 DEF AcksInv, Hosts
<1>20. MetaInv'
  <2>1. \A g \in Hosts : InControl(g) \/ InControl(g)' => g # h
    BY <1>1, <1>6, <1>8 DEF InControl
  <2> QED BY <1>1, <1>5, <1>6, <2>1, MetaStays DEF handlerVars
<1>21. CallersInv' /\ ResultsCorrect' /\ ReceiversReady'
  BY <1>1, SwitchLeavesCallers
<1> QED BY <1>11, <1>15, <1>17, <1>18, <1>19, <1>20, <1>21
        DEF Order, ThreadsInv, Hosts

------------------------------------------------------------------------------
(* The thread that sends a result. *)

(* It is alone, and the slot holds the sum. *)
LEMMA BusyFacts ==
    ASSUME Good, NEW h \in Hosts, Busy(h)
    PROVE  LET c == InHand(h)
               i == Idx(cur[h])
           IN  /\ c \in Chunks /\ cur[h] = Psn(c) /\ i \in Slots
               /\ Full(c) /\ ~ Freed(c)
               /\ \E g \in Hosts : Psn(c) < Len(sent[g])
               /\ \A t \in Hosts : Busy(t) => t = h
               /\ \A t \in Hosts : \A d \in Chunks :
                     Serves(t, d) <=> t = h /\ d = c
               /\ agg_buffer[i] = Expected(c)
               /\ agg_epsn[h] = cur[h] + 1
               /\ CallOf(c).prim \in {"allreduce", "reduce"}
               /\ IsReduce(CallOf(c)) => CallOf(c).root \in Hosts
<1> DEFINE c == InHand(h)
           i == Idx(cur[h])
<1>1. /\ c \in Chunks /\ cur[h] = Psn(c) /\ Full(c)
      /\ agg_epsn[h] = cur[h] + 1
  BY InHandChunk, GoodParts DEF Busy, ThreadInv, InControl
<1> HIDE DEF c
<1>2. Serves(h, c) /\ ~ Freed(c)
  BY <1>1 DEF Serves, Freed
<1>3. \A t \in Hosts : Busy(t) => t = h
  BY DEF Good, Order, OneBusy
<1>4. \A t \in Hosts : \A d \in Chunks : Serves(t, d) <=> t = h /\ d = c
  <2>1. \A d \in Chunks : Psn(d) = Psn(c) <=> d = c
    BY <1>1, GoodTypes, ChunkOrder
  <2> QED BY <1>1, <1>3, <2>1 DEF Serves
<1>5. Psn(c) < Added(h)
  BY <1>1 DEF Full
<1>6. Psn(c) < Len(sent[h])
  BY <1>1, <1>5, AddedSent
<1>7. i \in Slots /\ agg_buffer[i] = Parts(c)
  BY <1>1, <1>2, <1>5, <1>6, SlotIs
<1>8. Parts(c) = Expected(c)
  BY <1>1, GoodTypes, OrderlySum DEF Parts, Full
<1>9. /\ CallOf(c).prim \in {"allreduce", "reduce"}
      /\ IsReduce(CallOf(c)) => CallOf(c).root \in Hosts
  BY <1>1, GoodTypes, ChunkFacts, OrderlyCalls DEF CallOf
<1> QED BY <1>1, <1>2, <1>3, <1>4, <1>6, <1>7, <1>8, <1>9 DEF c

(* A step of the thread that sends: the others stay as they are. *)
LEMMA BusyStep ==
    ASSUME Good, NEW h \in Hosts, Busy(h), Action(h),
           UNCHANGED <<callVars, qpVars, acked, nicVars, agg_epsn, metaVars,
                       handlerVars, ctl>>,
           pc'[h] \in {"send", "cleanup", "idle"},
           \A g \in Hosts : g # h => pc'[g] = pc[g] /\ todo'[g] = todo[g]
    PROVE  /\ CallersInv' /\ AcksInv' /\ MetaInv' /\ OneBusy'
           /\ ResultsCorrect' /\ ReceiversReady'
           /\ \A g \in Hosts : g # h => ThreadInv(g)'
           /\ \A g \in Hosts : Added(g)' = Added(g)
           /\ \A d \in Chunks : Full(d)' <=> Full(d)
           /\ CallOf(InHand(h))' = CallOf(InHand(h)) /\ InHand(h)' = InHand(h)
           /\ \A t \in Hosts : \A d \in Chunks :
                 Serves(t, d)' <=> Serves(t, d) /\ pc'[h] # "idle"
<1>1. /\ program' = program /\ cur' = cur /\ sent' = sent
  BY DEF callVars, qpVars, handlerVars
<1>2. \A t \in Hosts : Busy(t) => t = h
  BY DEF Good, Order, OneBusy
<1>3. \A g \in Hosts : Added(g)' = Added(g)
  <2>1. Added(h)' = Added(h)
    BY <1>1 DEF Added, Busy
  <2> QED BY <1>1, <2>1 DEF Added
<1>4. \A d \in Chunks : Full(d)' <=> Full(d)
  BY <1>1, <1>3, SameChunks DEF Full, Hosts
<1>5. \A t \in Hosts : Busy(t)' <=> Busy(t) /\ pc'[h] # "idle"
  BY <1>2 DEF Busy
<1>6. OneBusy'
  BY <1>2, <1>5 DEF OneBusy, Hosts
<1>7. \A t \in Hosts : \A d \in Chunks :
         Serves(t, d)' <=> Serves(t, d) /\ pc'[h] # "idle"
  BY <1>1, <1>5, SameChunks DEF Serves
<1>8. ASSUME NEW g \in Hosts, g # h
      PROVE  ThreadInv(g)'
  <2>1. pc[g] # "send"
    BY <1>2, <1>8 DEF Busy
  <2> QED BY <1>1, <1>4, <1>8, <2>1, ThreadStays DEF handlerVars, metaVars
<1>9. AcksInv'
  <2>1. ASSUME NEW g \in Hosts
        PROVE  AckInv(g)' /\ ControlInv(g)'
    <3>1. Len(sent[g]) <= Len(sent'[g]) /\ Len(sent'[g]) \in Nat
      BY <1>1, GoodTypes
    <3> QED BY <1>1, <3>1, AckStays DEF callVars, qpVars
  <2> QED BY <2>1 DEF AcksInv, Hosts
<1>10. MetaInv'
  <2>1. \A g \in Hosts : InControl(g) \/ InControl(g)' => g # h
    BY DEF InControl, Busy
  <2> QED BY <1>1, <2>1, MetaStays DEF handlerVars
<1>11. CallersInv' /\ ResultsCorrect' /\ ReceiversReady'
  BY SwitchLeavesCallers
<1>12. InHand(h)' = InHand(h)
  BY <1>1, InHandStays DEF Busy
<1>13. CallOf(InHand(h))' = CallOf(InHand(h))
  BY <1>1, <1>12 DEF CallOf
<1> QED BY <1>3, <1>4, <1>6, <1>7, <1>8, <1>9, <1>10, <1>11, <1>12, <1>13

(* The slots while the thread is not done with its own. *)
LEMMA BusyKeepsSlots ==
    ASSUME Good, program' = program, UNCHANGED slotVars,
           \A g \in Hosts : Added(g)' = Added(g),
           \A d \in Chunks : Freed(d)' <=> Freed(d)
    PROVE  SlotInv'
<1>1. SlotInv
  BY DEF Good, Order
<1>2. Chunks' = Chunks /\ \A d : Psn(d)' = Psn(d) /\ Idx(Psn(d))' = Idx(Psn(d))
  BY SameChunks DEF Idx
<1>3. \A j : \A d \in Chunks : Owner(j, d)' <=> Owner(j, d)
  BY <1>2 DEF Owner, Idx
<1>4. \A d : Parts(d)' = Parts(d)
  BY <1>2 DEF Parts, Hosts
<1>5. UNCHANGED <<degree, arrival, agg_buffer>> /\ Slots' = Slots /\ Hosts' = Hosts
  BY DEF slotVars, Slots, Hosts
<1>6. ASSUME NEW j \in Slots
      PROVE  {g \in Hosts : \E d \in Chunks : Owner(j, d) /\ Psn(d) < Added(g)}'
             = {g \in Hosts : \E d \in Chunks : Owner(j, d) /\ Psn(d) < Added(g)}
  BY <1>2, <1>3, <1>5
<1> QED BY <1>1, <1>2, <1>4, <1>5, <1>6 DEF SlotInv

(* The next result for g is that of the chunk being served. *)
LEMMA NextResult ==
    ASSUME Good, NEW h \in Hosts, Busy(h), NEW c \in Chunks, c = InHand(h),
           NEW g \in Hosts, Receiver(g, c), ~ SentTo(g, c)
    PROVE  Index(c) = Len(out[g]) + 1
<1>1. /\ Full(c) /\ \A t \in Hosts : \A d \in Chunks :
                       Serves(t, d) <=> t = h /\ d = c
  BY BusyFacts
<1>2. Index(c) \in Nat \ {0} /\ Len(out[g]) \in Nat
  BY GoodTypes, ChunkFacts
<1>3. ~ (Index(c) <= Len(out[g]))
  BY GoodParts DEF OutInv
<1>4. Index(c) # 1 => Index(c) - 1 <= Len(out[g])
  <2> SUFFICES ASSUME Index(c) # 1 PROVE Index(c) - 1 <= Len(out[g])
    OBVIOUS
  <2>1. PICK d \in Chunks : Index(d) = Index(c) - 1 /\ d[1] <= c[1]
    BY GoodTypes, PreviousChunk
  <2>2. Receiver(g, d)
    BY <2>1, GoodTypes, ReceiverEarlier
  <2>3. Index(d) < Index(c) /\ Index(d) \in Nat
    BY <1>2, <2>1, GoodTypes, ChunkFacts
  <2>4. Psn(d) < Psn(c) /\ d # c
    BY <1>2, <2>3, GoodTypes, ChunkOrder
  <2>5. Full(d)
    <3>1. Psn(d) <= Psn(c)
      BY <2>4, GoodTypes, ChunkFacts
    <3> QED BY <1>1, <3>1, EarlierFull
  <2>6. SentTo(g, d)
    BY <1>1, <2>4, <2>5 DEF SentTo
  <2>7. Index(d) <= Len(out[g])
    BY <2>2, <2>6, GoodParts DEF OutInv
  <2> QED BY <2>1, <2>7
<1> QED BY <1>2, <1>3, <1>4

(* One result of chunk c is sent to g. *)
Delivers(g, c) ==
    /\ out' = [out EXCEPT ![g] = Append(@, Expected(c))]
    /\ \A t \in Hosts : \A d \in Chunks : Receiver(t, d) =>
          (SentTo(t, d)' <=> SentTo(t, d) \/ (t = g /\ d = c))

LEMMA Delivered ==
    ASSUME Good, NEW h \in Hosts, Busy(h), NEW c \in Chunks, c = InHand(h),
           program' = program, NEW g \in Hosts, Receiver(g, c), ~ SentTo(g, c),
           Delivers(g, c), NEW k \in Hosts
    PROVE  OutInv(k)'
<1>1. /\ out' = [out EXCEPT ![g] = Append(@, Expected(c))]
      /\ \A t \in Hosts : \A d \in Chunks : Receiver(t, d) =>
            (SentTo(t, d)' <=> SentTo(t, d) \/ (t = g /\ d = c))
  BY DEF Delivers
<1>2. Index(c) = Len(out[g]) + 1 /\ Len(out[g]) \in Nat
  BY NextResult, GoodTypes
<1>3. /\ Chunks' = Chunks
      /\ \A d : Index(d)' = Index(d) /\ Expected(d)' = Expected(d)
      /\ \A d : Receiver(k, d)' <=> Receiver(k, d)
  BY SameChunks
<1>4. OutInv(k)
  BY GoodParts
<1>5. out \in [Hosts -> Seq(Sums)]
  BY GoodTypes, SequenceTypes
<1>6. CASE k # g
  <2>1. out'[k] = out[k]
    BY <1>1, <1>5, <1>6
  <2>2. \A d \in Chunks : Receiver(k, d) => (SentTo(k, d)' <=> SentTo(k, d))
    BY <1>1, <1>6
  <2> QED BY <1>3, <1>4, <2>1, <2>2 DEF OutInv
<1>7. CASE k = g
  <2>1. out'[k] = Append(out[k], Expected(c)) /\ out[k] \in Seq(Sums)
    BY <1>1, <1>5, <1>7
  <2>2. /\ Len(out'[k]) = Len(out[k]) + 1
        /\ out'[k][Len(out[k]) + 1] = Expected(c)
        /\ \A n \in 1 .. Len(out[k]) : out'[k][n] = out[k][n]
    BY <2>1
  <2>3. \A d \in Chunks :
           Receiver(k, d) => (SentTo(k, d)' <=> Index(d) <= Len(out'[k]))
    <3> SUFFICES ASSUME NEW d \in Chunks, Receiver(k, d)
                 PROVE  SentTo(k, d)' <=> Index(d) <= Len(out'[k])
      OBVIOUS
    <3>1. SentTo(k, d)' <=> Index(d) <= Len(out[k]) \/ d = c
      BY <1>1, <1>4, <1>7 DEF OutInv
    <3>2. Index(d) \in Nat /\ (Index(d) = Index(c) <=> d = c)
      BY GoodTypes, ChunkFacts, ChunkOrder
    <3> QED BY <1>2, <1>7, <2>2, <3>1, <3>2
  <2>4. ASSUME NEW n \in 1 .. Len(out'[k])
        PROVE  \E d \in Chunks : /\ Receiver(k, d) /\ Index(d) = n
                                 /\ out'[k][n] = Expected(d)
    <3>1. CASE n = Len(out[k]) + 1
      BY <1>2, <1>7, <2>2, <3>1
    <3>2. CASE n # Len(out[k]) + 1
      <4>1. n \in 1 .. Len(out[k])
        BY <1>2, <1>7, <2>2, <2>4, <3>2
      <4> QED BY <1>4, <2>2, <4>1 DEF OutInv
    <3> QED BY <3>1, <3>2
  <2> QED BY <1>3, <2>3, <2>4 DEF OutInv
<1> QED BY <1>6, <1>7

LEMMA CacheOrder ==
    ASSUME Good, NEW h \in Hosts, Cache(h)
    PROVE  Order'
<1> DEFINE i == Idx(cur[h])
<1>1. /\ pc[h] = "cache" /\ Action(h) /\ Busy(h)
      /\ UNCHANGED <<callVars, qpVars, acked, nicVars, agg_epsn, metaVars,
                     slotVars, handlerVars, ctl, out>>
      /\ bcast_buffer' = [bcast_buffer EXCEPT ![i] = agg_buffer[i]]
      /\ todo' = [todo EXCEPT ![h] = out_conns[h]]
      /\ pc' = [pc EXCEPT ![h] = "send"]
  BY DEF Cache, Action, Busy
<1>2. PICK c \in Chunks : c = InHand(h)
  BY <1>1, BusyFacts
<1>3. /\ cur[h] = Psn(c) /\ i \in Slots /\ Full(c)
      /\ \A t \in Hosts : \A d \in Chunks : Serves(t, d) <=> t = h /\ d = c
      /\ agg_buffer[i] = Expected(c) /\ agg_epsn[h] = cur[h] + 1
  BY <1>1, <1>2, BusyFacts
<1>4. /\ pc'[h] = "send" /\ todo'[h] = out_conns[h] /\ bcast_buffer'[i] = Expected(c)
      /\ \A g \in Hosts : g # h => pc'[g] = pc[g] /\ todo'[g] = todo[g]
  BY <1>1, <1>3, GoodTypes, SwitchTypes
<1>5. IsAllReduce(CallOf(c)) /\ out_conns[h] = Hosts
  BY <1>1, <1>2, GoodParts DEF ThreadInv
<1>6. /\ CallersInv' /\ AcksInv' /\ MetaInv' /\ OneBusy'
      /\ ResultsCorrect' /\ ReceiversReady'
      /\ \A g \in Hosts : g # h => ThreadInv(g)'
      /\ \A g \in Hosts : Added(g)' = Added(g)
      /\ \A d \in Chunks : Full(d)' <=> Full(d)
      /\ CallOf(InHand(h))' = CallOf(c) /\ InHand(h)' = c
      /\ \A t \in Hosts : \A d \in Chunks : Serves(t, d)' <=> Serves(t, d)
  BY <1>1, <1>2, <1>4, BusyStep
<1>7. program' = program /\ cur' = cur /\ out' = out
  BY <1>1 DEF callVars, handlerVars
<1>8. \A d \in Chunks : Freed(d)' <=> Freed(d)
  BY <1>6 DEF Freed, Hosts
<1>9. SlotInv'
  BY <1>1, <1>6, <1>7, <1>8, BusyKeepsSlots
<1>10. \A g \in Hosts : \A d \in Chunks : SentTo(g, d)' <=> SentTo(g, d)
  <2> TAKE g \in Hosts
  <2> TAKE d \in Chunks
  <2>1. SentTo(g, d)' <=> /\ Full(d)'
                          /\ \A t \in Hosts : Serves(t, d)' =>
                                \/ pc'[t] = "cleanup"
                                \/ pc'[t] = "send" /\ g \notin todo'[t]
    BY DEF SentTo, Hosts
  <2>2. CASE d = c
    <3>1. ~ SentTo(g, d) /\ ~ SentTo(g, d)'
      BY <1>1, <1>3, <1>4, <1>5, <1>6, <2>1, <2>2 DEF SentTo
    <3> QED BY <3>1
  <2>3. CASE d # c
    BY <1>3, <1>6, <2>1, <2>3 DEF SentTo
  <2> QED BY <2>2, <2>3
<1>11. ASSUME NEW g \in Hosts
       PROVE  OutInv(g)'
  <2>1. OutInv(g)
    BY GoodParts
  <2> QED BY <1>7, <1>10, <2>1, SameChunks DEF OutInv
<1>12. ThreadInv(h)'
  <2>1. /\ bcast_buffer'[Idx(cur[h])'] = Expected(InHand(h))'
        /\ Full(InHand(h))' /\ todo'[h] # {}
    <3>1. Idx(cur[h])' = i
      BY <1>7 DEF Idx
    <3>2. Expected(InHand(h))' = Expected(c)
      BY <1>6, <1>7, SameChunks DEF Expected, Hosts, From, NoData
    <3>3. Full(InHand(h))' <=> Full(c)'
      BY <1>6, <1>7, SameChunks DEF Full
    <3> QED BY <1>3, <1>4, <1>5, <1>6, <3>1, <3>2, <3>3, HostsFinite
  <2>2. agg_epsn'[h] = cur'[h] + 1
    BY <1>1, <1>3, <1>7
  <2> QED BY <1>4, <1>5, <1>6, <2>1, <2>2 DEF ThreadInv, IsAllReduce
<1> QED BY <1>6, <1>9, <1>11, <1>12 DEF Order, ThreadsInv, Hosts

LEMMA LeastConn ==
    ASSUME NEW S \in SUBSET Hosts, S # {}
    PROVE  Min(S) \in S
<1>1. S \in SUBSET Nat
  BY SizesAssumption DEF Hosts
<1>2. \E x \in S : \A y \in S : x =< y
  BY <1>1, LeastNumber
<1> QED BY <1>2 DEF Min

(* A result of an AllReduce goes to one connection after the other. *)
LEMMA SendResultOrder ==
    ASSUME Good, NEW h \in Hosts, SendResult(h)
    PROVE  Order'
<1> DEFINE i == Idx(cur[h])
           g0 == Min(todo[h])
<1>1. /\ pc[h] = "send" /\ Action(h) /\ Busy(h)
      /\ UNCHANGED <<callVars, qpVars, acked, nicVars, agg_epsn, metaVars,
                     slotVars, bcast_buffer, handlerVars, ctl>>
      /\ out' = [out EXCEPT ![g0] = Append(@, bcast_buffer[i])]
      /\ todo' = [todo EXCEPT ![h] = @ \ {g0}]
      /\ pc' = [pc EXCEPT ![h] = IF todo[h] = {g0} THEN "cleanup" ELSE "send"]
  BY DEF SendResult, Action, Busy
<1>2. PICK c \in Chunks : c = InHand(h)
  BY <1>1, BusyFacts
<1>3. /\ cur[h] = Psn(c) /\ i \in Slots /\ Full(c)
      /\ \A t \in Hosts : \A d \in Chunks : Serves(t, d) <=> t = h /\ d = c
      /\ agg_epsn[h] = cur[h] + 1
  BY <1>1, <1>2, BusyFacts
<1>4. /\ IsAllReduce(CallOf(c)) /\ todo[h] # {} /\ bcast_buffer[i] = Expected(c)
  BY <1>1, <1>2, GoodParts DEF ThreadInv
<1>5. PICK g \in todo[h] : g = g0
  <2>1. todo[h] \in SUBSET Hosts /\ todo[h] # {}
    BY <1>4, GoodTypes, SwitchTypes
  <2> QED BY <2>1, LeastConn
<1>6. g \in Hosts
  BY <1>5, GoodTypes, SwitchTypes
<1>7. /\ pc'[h] = IF todo[h] = {g} THEN "cleanup" ELSE "send"
      /\ todo'[h] = todo[h] \ {g}
      /\ out' = [out EXCEPT ![g] = Append(@, Expected(c))]
      /\ \A k \in Hosts : k # h => pc'[k] = pc[k] /\ todo'[k] = todo[k]
  BY <1>1, <1>4, <1>5, GoodTypes, SwitchTypes
<1>8. /\ CallersInv' /\ AcksInv' /\ MetaInv' /\ OneBusy'
      /\ ResultsCorrect' /\ ReceiversReady'
      /\ \A k \in Hosts : k # h => ThreadInv(k)'
      /\ \A k \in Hosts : Added(k)' = Added(k)
      /\ \A d \in Chunks : Full(d)' <=> Full(d)
      /\ CallOf(InHand(h))' = CallOf(c) /\ InHand(h)' = c
      /\ \A t \in Hosts : \A d \in Chunks : Serves(t, d)' <=> Serves(t, d)
  BY <1>1, <1>2, <1>7, BusyStep
<1>9. program' = program /\ cur' = cur /\ bcast_buffer' = bcast_buffer
  BY <1>1 DEF callVars, handlerVars
<1>10. \A d \in Chunks : Freed(d)' <=> Freed(d)
  BY <1>8 DEF Freed, Hosts
<1>11. SlotInv'
  BY <1>1, <1>8, <1>9, <1>10, BusyKeepsSlots
<1>12. \A k \in Hosts : \A d \in Chunks :
          SentTo(k, d)' <=> SentTo(k, d) \/ (k = g /\ d = c)
  <2> TAKE k \in Hosts
  <2> TAKE d \in Chunks
  <2>1. SentTo(k, d)' <=> /\ Full(d)'
                          /\ \A t \in Hosts : Serves(t, d)' =>
                                \/ pc'[t] = "cleanup"
                                \/ pc'[t] = "send" /\ k \notin todo'[t]
    BY DEF SentTo, Hosts
  <2>2. CASE d = c
    <3>1. SentTo(k, d)' <=> k \notin todo[h] \ {g}
      BY <1>3, <1>7, <1>8, <2>1, <2>2
    <3>2. SentTo(k, d) <=> k \notin todo[h]
      BY <1>1, <1>3, <2>2 DEF SentTo
    <3> QED BY <2>2, <3>1, <3>2
  <2>3. CASE d # c
    BY <1>3, <1>8, <2>1, <2>3 DEF SentTo
  <2> QED BY <2>2, <2>3
<1>13. ASSUME NEW k \in Hosts
       PROVE  OutInv(k)'
  <2>1. Receiver(g, c)
    BY <1>4 DEF Receiver
  <2>2. ~ SentTo(g, c)
    BY <1>1, <1>3, <1>5, <1>6 DEF SentTo
  <2>3. Busy(h) /\ program' = program /\ c = InHand(h)
    BY <1>1, <1>2, <1>9
  <2>4. Delivers(g, c)
    BY <1>7, <1>12 DEF Delivers
  <2> QED BY <1>6, <2>1, <2>2, <2>3, <2>4, Delivered
<1>14. ThreadInv(h)'
  <2>1. bcast_buffer'[Idx(cur[h])'] = Expected(InHand(h))' /\ Full(InHand(h))'
    <3>1. Idx(cur[h])' = i
      BY <1>9 DEF Idx
    <3>2. Expected(InHand(h))' = Expected(c)
      BY <1>8, <1>9, SameChunks DEF Expected, Hosts, From, NoData
    <3>3. Full(InHand(h))' <=> Full(c)'
      BY <1>8, <1>9, SameChunks DEF Full
    <3> QED BY <1>3, <1>4, <1>8, <1>9, <3>1, <3>2, <3>3
  <2>2. agg_epsn'[h] = cur'[h] + 1
    BY <1>1, <1>3, <1>9
  <2>3. pc'[h] = "send" => todo'[h] # {}
    BY <1>5, <1>7
  <2> QED BY <1>4, <1>7, <1>8, <2>1, <2>2, <2>3 DEF ThreadInv, IsAllReduce
<1> QED BY <1>8, <1>11, <1>13, <1>14 DEF Order, ThreadsInv, Hosts

(* That of a Reduce goes to the root. *)
LEMMA SendToRootOrder ==
    ASSUME Good, NEW h \in Hosts, SendToRoot(h)
    PROVE  Order'
<1>1. /\ pc[h] = "reduce" /\ Action(h) /\ Busy(h)
      /\ UNCHANGED <<callVars, qpVars, acked, nicVars, agg_epsn, metaVars,
                     slotVars, bcast_buffer, handlerVars, todo, ctl>>
      /\ pc' = [pc EXCEPT ![h] = "cleanup"]
  BY DEF SendToRoot, Action, Busy
<1>2. PICK c \in Chunks : c = InHand(h)
  BY <1>1, BusyFacts
<1>3. /\ cur[h] = Psn(c) /\ Full(c)
      /\ \A t \in Hosts : \A d \in Chunks : Serves(t, d) <=> t = h /\ d = c
      /\ agg_epsn[h] = cur[h] + 1 /\ agg_buffer[Idx(cur[h])] = Expected(c)
  BY <1>1, <1>2, BusyFacts
<1>4. /\ IsReduce(CallOf(c)) /\ CallOf(c).root \in Hosts
      /\ param[h] = CallOf(c).root
  BY <1>1, <1>2, BusyFacts, GoodParts DEF ThreadInv
<1>5. PICK g \in Hosts : g = CallOf(c).root
  BY <1>4
<1>6. /\ pc'[h] = "cleanup"
      /\ out' = [out EXCEPT ![g] = Append(@, Expected(c))]
      /\ \A k \in Hosts : k # h => pc'[k] = pc[k] /\ todo'[k] = todo[k]
  <2>1. out' = [out EXCEPT ![g] = Append(@, Expected(c))]
    BY <1>3, <1>4, <1>5 DEF SendToRoot
  <2> QED BY <1>1, <2>1, GoodTypes, SwitchTypes
<1>7. /\ CallersInv' /\ AcksInv' /\ MetaInv' /\ OneBusy'
      /\ ResultsCorrect' /\ ReceiversReady'
      /\ \A k \in Hosts : k # h => ThreadInv(k)'
      /\ \A k \in Hosts : Added(k)' = Added(k)
      /\ \A d \in Chunks : Full(d)' <=> Full(d)
      /\ CallOf(InHand(h))' = CallOf(c) /\ InHand(h)' = c
      /\ \A t \in Hosts : \A d \in Chunks : Serves(t, d)' <=> Serves(t, d)
  BY <1>1, <1>2, <1>6, BusyStep
<1>8. program' = program /\ cur' = cur
  BY <1>1 DEF callVars, handlerVars
<1>9. \A d \in Chunks : Freed(d)' <=> Freed(d)
  BY <1>7 DEF Freed, Hosts
<1>10. SlotInv'
  BY <1>1, <1>7, <1>8, <1>9, BusyKeepsSlots
<1>11. \A k \in Hosts : \A d \in Chunks : Receiver(k, d) =>
          (SentTo(k, d)' <=> SentTo(k, d) \/ (k = g /\ d = c))
  <2> SUFFICES ASSUME NEW k \in Hosts, NEW d \in Chunks, Receiver(k, d)
               PROVE  SentTo(k, d)' <=> SentTo(k, d) \/ (k = g /\ d = c)
    OBVIOUS
  <2>1. SentTo(k, d)' <=> /\ Full(d)'
                          /\ \A t \in Hosts : Serves(t, d)' =>
                                \/ pc'[t] = "cleanup"
                                \/ pc'[t] = "send" /\ k \notin todo'[t]
    BY DEF SentTo, Hosts
  <2>2. CASE d = c
    <3>1. k = g
      BY <1>4, <1>5, <2>2 DEF Receiver, IsAllReduce, IsReduce
    <3>2. SentTo(k, d)'
      BY <1>3, <1>6, <1>7, <2>1, <2>2
    <3> QED BY <2>2, <3>1, <3>2
  <2>3. CASE d # c
    BY <1>3, <1>7, <2>1, <2>3 DEF SentTo
  <2> QED BY <2>2, <2>3
<1>12. ASSUME NEW k \in Hosts
       PROVE  OutInv(k)'
  <2>1. Receiver(g, c)
    BY <1>5 DEF Receiver
  <2>2. ~ SentTo(g, c)
    BY <1>1, <1>3 DEF SentTo
  <2>3. Busy(h) /\ program' = program /\ c = InHand(h)
    BY <1>1, <1>2, <1>8
  <2>4. Delivers(g, c)
    BY <1>6, <1>11 DEF Delivers
  <2> QED BY <2>1, <2>2, <2>3, <2>4, Delivered
<1>13. ThreadInv(h)'
  <2>1. Full(InHand(h))'
    <3>1. Full(InHand(h))' <=> Full(c)'
      BY <1>7, <1>8, SameChunks DEF Full
    <3> QED BY <1>3, <1>7, <3>1
  <2>2. agg_epsn'[h] = cur'[h] + 1
    BY <1>1, <1>3, <1>8
  <2> QED BY <1>6, <2>1, <2>2 DEF ThreadInv
<1> QED BY <1>7, <1>10, <1>12, <1>13 DEF Order, ThreadsInv, Hosts

(* The slot is free for another chunk. *)
LEMMA CleanupOrder ==
    ASSUME Good, NEW h \in Hosts, Cleanup(h)
    PROVE  Order'
<1> DEFINE i == Idx(cur[h])
<1>1. /\ pc[h] = "cleanup" /\ Action(h) /\ Busy(h)
      /\ UNCHANGED <<callVars, qpVars, acked, nicVars, agg_epsn, metaVars,
                     agg_buffer, bcast_buffer, handlerVars, todo, ctl, out>>
      /\ arrival' = [arrival EXCEPT ![i] = {}]
      /\ degree' = [degree EXCEPT ![i] = 0]
      /\ pc' = [pc EXCEPT ![h] = "idle"]
  BY DEF Cleanup, Action, Busy
<1>2. PICK c \in Chunks : c = InHand(h)
  BY <1>1, BusyFacts
<1>3. /\ cur[h] = Psn(c) /\ i \in Slots /\ Full(c) /\ ~ Freed(c)
      /\ \E g \in Hosts : Psn(c) < Len(sent[g])
      /\ \A t \in Hosts : \A d \in Chunks : Serves(t, d) <=> t = h /\ d = c
  BY <1>1, <1>2, BusyFacts
<1>4. /\ pc'[h] = "idle"
      /\ \A g \in Hosts : g # h => pc'[g] = pc[g] /\ todo'[g] = todo[g]
  BY <1>1, GoodTypes, SwitchTypes
<1>5. /\ CallersInv' /\ AcksInv' /\ MetaInv' /\ OneBusy'
      /\ ResultsCorrect' /\ ReceiversReady'
      /\ \A g \in Hosts : g # h => ThreadInv(g)'
      /\ \A g \in Hosts : Added(g)' = Added(g)
      /\ \A d \in Chunks : Full(d)' <=> Full(d)
      /\ \A t \in Hosts : \A d \in Chunks : ~ Serves(t, d)'
  BY <1>1, <1>2, <1>4, BusyStep
<1>6. program' = program /\ out' = out /\ agg_buffer' = agg_buffer
  BY <1>1 DEF callVars
<1>7. \A d \in Chunks : Freed(d)' <=> Freed(d) \/ d = c
  <2> TAKE d \in Chunks
  <2>1. Freed(d)' <=> Full(d)
    BY <1>5 DEF Freed, Hosts
  <2>2. Freed(d) <=> Full(d) /\ d # c
    BY <1>3 DEF Freed
  <2> QED BY <1>3, <2>1, <2>2
<1>8. \A g \in Hosts : \A d \in Chunks : SentTo(g, d)' <=> SentTo(g, d)
  <2> TAKE g \in Hosts
  <2> TAKE d \in Chunks
  <2>1. SentTo(g, d)' <=> Full(d)
    BY <1>5 DEF SentTo, Hosts
  <2>2. SentTo(g, d) <=> Full(d)
    BY <1>1, <1>3 DEF SentTo
  <2> QED BY <2>1, <2>2
<1>9. ASSUME NEW g \in Hosts
      PROVE  OutInv(g)'
  <2>1. OutInv(g)
    BY GoodParts
  <2> QED BY <1>6, <1>8, <2>1, SameChunks DEF OutInv
<1>10. SlotInv'
  <2>1. SlotInv
    BY DEF Good, Order
  <2>2. /\ Chunks' = Chunks
        /\ \A d : Psn(d)' = Psn(d) /\ Idx(Psn(d))' = Idx(Psn(d))
        /\ Slots' = Slots /\ Hosts' = Hosts
    BY <1>6, SameChunks DEF Idx, Slots, Hosts
  <2>3. \A j : \A d \in Chunks : Owner(j, d)' <=> Owner(j, d) /\ d # c
    BY <1>7, <2>2 DEF Owner, Idx
  <2>4. ASSUME NEW j \in Slots
        PROVE  /\ arrival'[j] = {g \in Hosts : \E d \in Chunks :
                                    Owner(j, d)' /\ Psn(d) < Added(g)}
               /\ degree'[j] = Cardinality(arrival'[j])
    <3>1. /\ arrival[j] = {g \in Hosts : \E d \in Chunks :
                              Owner(j, d) /\ Psn(d) < Added(g)}
          /\ degree[j] = Cardinality(arrival[j])
      BY <2>1 DEF SlotInv
    <3>2. arrival \in [Slots -> SUBSET Hosts] /\ degree \in [Slots -> Nat]
      BY GoodTypes, SwitchTypes
    <3>3. CASE j = i
      <4>1. arrival'[j] = {} /\ degree'[j] = 0
        BY <1>1, <3>2, <3>3
      <4>2. ~ \E g \in Hosts : \E d \in Chunks : Owner(j, d)' /\ Psn(d) < Added(g)
        <5>1. \A d \in Chunks : \A g \in Hosts :
                 Owner(i, d) /\ Psn(d) < Added(g) => d = c
          BY <1>3, SlotIs
        <5> HIDE DEF i
        <5> QED BY <2>3, <3>3, <5>1
      <4> QED BY <4>1, <4>2, FS_EmptySet
    <3>4. CASE j # i
      <4>1. arrival'[j] = arrival[j] /\ degree'[j] = degree[j]
        BY <1>1, <3>2, <3>4
      <4>2. ~ Owner(j, c)
        BY <1>3, <3>4 DEF Owner
      <4>3. \A d \in Chunks : Owner(j, d)' <=> Owner(j, d)
        BY <2>3, <4>2
      <4> QED BY <3>1, <4>1, <4>3
    <3> QED BY <3>3, <3>4
  <2>5. \A d : Parts(d)' = Parts(d)
    BY <1>5, <2>2 DEF Parts
  <2> QED BY <1>5, <1>6, <1>7, <2>1, <2>2, <2>4, <2>5 DEF SlotInv
<1>11. ThreadInv(h)'
  BY <1>4 DEF ThreadInv, Busy
<1> QED BY <1>5, <1>9, <1>10, <1>11 DEF Order, ThreadsInv, Hosts

------------------------------------------------------------------------------
(* The invariant holds throughout. *)

LEMMA InitOrder == ASSUME Init, Orderly(program) PROVE Order
<1>1. TypeOK /\ Len(program) \in Nat
  BY InitInv, ProgramCalls DEF IInv
<1>2. At(1) = 0 /\ Before(1) = 0
  BY <1>1, AtNext, BeforeGrows
<1>3. \A c \in Chunks : Psn(c) \in Nat /\ Index(c) \in Nat \ {0} /\ c[1] \in Calls
  BY <1>1, ChunkFacts
<1>4. \A g \in Hosts : Added(g) = 0
  BY DEF Init, Added
<1>5. \A c \in Chunks : \A g \in Hosts : ~ (Psn(c) < Added(g))
  BY <1>3, <1>4
<1>6. \A c \in Chunks : ~ Full(c)
  BY <1>5, HostsFinite DEF Full
<1>7. \A h \in Hosts : Len(sent[h]) = 0 /\ Len(got[h]) = 0 /\ Len(out[h]) = 0
  BY DEF Init
<1>8. CallersInv
  <2>1. ASSUME NEW h \in Hosts
        PROVE  SentInv(h)
    <3>1. Psns(h) = {}
      BY <1>7 DEF Psns
    <3> QED BY <1>2, <1>7, <3>1 DEF Init, SentInv
  <2>2. ASSUME NEW h \in Hosts
        PROVE  GotInv(h)
    <3>1. \A c \in Chunks : ~ (c[1] < 1)
      BY <1>1, <1>3 DEF Calls
    <3> QED BY <1>2, <1>7, <3>1 DEF Init, GotInv
  <2> QED BY <2>1, <2>2 DEF CallersInv
<1>9. AcksInv
  <2> SUFFICES ASSUME NEW h \in Hosts
               PROVE  AckInv(h) /\ ControlInv(h)
    BY DEF AcksInv
  <2>1. /\ op[h] = 1 /\ phase[h] = "start" /\ polled[h] = 0 /\ acked[h] = 0
        /\ agg_epsn[h] = 0 /\ ctl[h] = 0
    BY DEF Init
  <2>2. \A o \in Calls : o <= 1 => At(o) = 0
    BY <1>1, <1>2 DEF Calls
  <2>3. AckInv(h)
    BY <1>2, <1>7, <2>1, <2>2 DEF AckInv
  <2> QED BY <1>1, <1>2, <2>1, <2>3 DEF ControlInv
<1>10. MetaInv
  <2>1. \A h \in Hosts : pc[h] = "idle" /\ ctl[h] = 0
    BY DEF Init
  <2>2. \A h \in Hosts : Typed(h) = {} /\ Rooted(h) = {} /\ ControlHandlerInv(h)
    BY <2>1 DEF Typed, Rooted, ControlHandlerInv, InControl
  <2> QED BY <2>2 DEF Init, MetaInv
<1>11. OneBusy /\ ThreadsInv
  <2>1. ASSUME NEW h \in Hosts
        PROVE  ThreadInv(h) /\ ~ Busy(h)
    BY DEF Init, ThreadInv, Busy, InControl
  <2>2. ASSUME NEW g \in Hosts
        PROVE  OutInv(g)
    BY <1>3, <1>6, <1>7 DEF OutInv, SentTo
  <2> QED BY <2>1, <2>2 DEF OneBusy, ThreadsInv
<1>12. SlotInv
  BY <1>5, FS_EmptySet DEF Init, SlotInv
<1>13. ResultsCorrect /\ ReceiversReady
  BY <1>7 DEF Init, ResultsCorrect, ReceiversReady
<1> QED BY <1>8, <1>9, <1>10, <1>11, <1>12, <1>13 DEF Order

LEMMA ActionOrder == ASSUME Good, NEW h \in Hosts, Action(h) PROVE Order'
<1>1. ~ Forward(h)
  BY GoodParts DEF Forward, ThreadInv
<1>2. CASE CallerStep(h)
  BY <1>2, CallerOrder
<1>3. CASE HandleControl(h) \/ SetRoot(h) \/ AckControl(h)
  BY <1>3, HandleControlOrder, SetRootOrder, AckControlOrder
<1>4. CASE \E psn \in Psns(h) : ReceiveData(h, psn)
  BY <1>4, ReceiveDataOrder
<1>5. CASE DropData(h) \/ AnswerData(h) \/ AcceptData(h)
  BY <1>5, DropDataOrder, AnswerDataOrder, AcceptDataOrder
<1>6. CASE ReadOperation(h) \/ ReadRoot(h) \/ Aggregate(h)
  BY <1>6, ReadOperationOrder, ReadRootOrder, AggregateOrder
<1>7. CASE Cache(h) \/ SendResult(h) \/ SendToRoot(h) \/ Cleanup(h)
  BY <1>7, CacheOrder, SendResultOrder, SendToRootOrder, CleanupOrder
<1> QED BY <1>1, <1>2, <1>3, <1>4, <1>5, <1>6, <1>7 DEF Action, CallerStep

LEMMA StutterOrder == ASSUME Good, UNCHANGED vars PROVE Order'
<1>1. /\ UNCHANGED <<callVars, qpVars, acked, nicVars>>
      /\ UNCHANGED switchVars
  BY DEF vars
<1>2. /\ UNCHANGED <<agg_epsn, pc, cur, prim, param, out_conns, todo, ctl, out>>
      /\ UNCHANGED <<metaVars, slotVars, bcast_buffer>>
  BY <1>1 DEF switchVars, handlerVars
<1>3. program' = program /\ sent' = sent
  BY <1>1 DEF callVars, qpVars
<1>4. OneBusy' /\ SlotInv' /\ (\A g \in Hosts : OutInv(g)')
      /\ (\A c \in Chunks : Full(c)' <=> Full(c))
  BY <1>2, <1>3, SlotsStay DEF Busy, Added
<1>5. ASSUME NEW g \in Hosts
      PROVE  ThreadInv(g)'
  <2>1. ThreadInv(g)
    BY GoodParts
  <2>2. InHand(g)' = InHand(g) /\ CallOf(InHand(g))' = CallOf(InHand(g))
    BY <1>2, <1>3 DEF InHand, Message, CallOf
  <2>3. Full(InHand(g))' <=> Full(InHand(g))
    BY <1>2, <1>3 DEF Full, Psn, At, InHand, Message, Added, Hosts
  <2>4. Expected(InHand(g))' = Expected(InHand(g)) /\ Idx(cur[g])' = Idx(cur[g])
    BY <1>2, <1>3, <2>2 DEF Expected, Hosts, From, NoData, Idx
  <2>5. operation_type' = operation_type
    BY <1>2 DEF metaVars
  <2> QED BY <1>2, <2>1, <2>2, <2>3, <2>4, <2>5
          DEF ThreadInv, Busy, Hosts, InControl
<1>6. AcksInv'
  <2>1. ASSUME NEW g \in Hosts
        PROVE  AckInv(g)' /\ ControlInv(g)'
    <3>1. Len(sent[g]) <= Len(sent'[g]) /\ Len(sent'[g]) \in Nat
      BY <1>3, GoodTypes
    <3> QED BY <1>1, <1>2, <1>3, <3>1, AckStays DEF callVars, qpVars
  <2> QED BY <2>1 DEF AcksInv, Hosts
<1>7. MetaInv'
  BY <1>2, <1>3, MetaStays
<1>8. CallersInv' /\ ResultsCorrect' /\ ReceiversReady'
  BY <1>1, SwitchLeavesCallers
<1> QED BY <1>4, <1>5, <1>6, <1>7, <1>8 DEF Order, ThreadsInv, Hosts

(* In every orderly program: what is said of hosts, switch and slots in *)
(* SwitchOpsOrder holds in every state.                                 *)
THEOREM OrderInductive == Spec => [](IInv /\ OrderInv)
<1>1. Init => IInv /\ OrderInv
  BY InitInv, InitOrder DEF OrderInv
<1>2. IInv /\ OrderInv /\ [Next]_vars => (IInv /\ OrderInv)'
  <2> SUFFICES ASSUME IInv, OrderInv, [Next]_vars
               PROVE  IInv' /\ OrderInv'
    OBVIOUS
  <2>1. IInv'
    BY StepInv
  <2>2. program' = program
    <3>1. CASE Next
      BY <3>1, StepIsAction, ProgramUnchanged
    <3>2. CASE UNCHANGED vars
      BY <3>2 DEF vars, callVars
    <3> QED BY <3>1, <3>2
  <2>3. ASSUME Orderly(program)' PROVE Order'
    <3>1. Orderly(program)
      BY <2>2, <2>3, SameChunks
    <3>2. Good
      BY <3>1 DEF Good, OrderInv
    <3>3. CASE Next
      BY <3>2, <3>3, StepIsAction, ActionOrder
    <3>4. CASE UNCHANGED vars
      BY <3>2, <3>4, StutterOrder
    <3> QED BY <3>3, <3>4
  <2> QED BY <2>1, <2>3 DEF OrderInv
<1> QED BY <1>1, <1>2, PTL DEF Spec

------------------------------------------------------------------------------
(* The theorems.  GoodState names what they share. *)
LEMMA GoodState == Spec => [](Orderly(program) => Good)
<1>1. IInv /\ OrderInv => (Orderly(program) => Good)
  BY DEF OrderInv, Good
<1> QED BY <1>1, OrderInductive, PTL

(* What a call of an orderly program hands its caller is the sum of that    *)
(* chunk over all hosts, however the packets of neighbouring calls, their   *)
(* control messages and the unlocked reads of the metadata interleave.      *)
THEOREM ResultsAreCorrect == Spec => [](Orderly(program) => ResultsCorrect)
<1>1. Good => ResultsCorrect
  BY DEF Good, Order
<1> QED BY <1>1, GoodState, PTL

(* A result never finds the receive queue of a host empty, though hosts post *)
(* their receive requests call by call (api.c:569).                          *)
THEOREM ReceiversAreReady == Spec => [](Orderly(program) => ReceiversReady)
<1>1. Good => ReceiversReady
  BY DEF Good, Order
<1> QED BY <1>1, GoodState, PTL

(* send_psn of a connection, which no lock protects, is incremented by one *)
(* thread at a time (switch_main.c:133, 162, 245).                         *)
THEOREM OneSenderAtATime == Spec => [](Orderly(program) => OneSenderPerConnection)
<1>1. ASSUME Good
      PROVE  OneSenderPerConnection
  <2>1. \A t \in Hosts : ~ Busy(t) => Pending(t) = {}
    BY <1>1, GoodParts DEF Busy, Pending, ThreadInv
  <2>2. \A t, u \in Hosts : Busy(t) /\ Busy(u) => t = u
    BY <1>1 DEF Good, Order, OneBusy
  <2> QED BY <2>1, <2>2 DEF OneSenderPerConnection
<1> QED BY <1>1, GoodState, PTL

(* A slot, reused modulo N and never checked, is free or holds the chunk *)
(* that is added to it, without the adding host's share                  *)
(* (switch_main.c:188-217).                                              *)
THEOREM SlotsHoldOneChunk == Spec => [](Orderly(program) => SlotHoldsOneChunk)
<1>1. ASSUME Good
      PROVE  SlotHoldsOneChunk
  <2> SUFFICES ASSUME NEW h \in Hosts, pc[h] = "aggregate",
                      degree[Idx(cur[h])] > 0
               PROVE  /\ h \notin arrival[Idx(cur[h])]
                      /\ \A g \in arrival[Idx(cur[h])] :
                            agg_buffer[Idx(cur[h])][g] = <<InHand(h)>>
    BY DEF SlotHoldsOneChunk, InHand
  <2> DEFINE i == Idx(cur[h])
  <2>1. /\ arrival[i] = {g \in Hosts : Psn(InHand(h)) < Added(g)}
        /\ h \notin arrival[i] /\ (degree[i] # 0 => agg_buffer[i] = Parts(InHand(h)))
    BY <1>1, SlotAtAggregate
  <2>2. degree[i] # 0
    OBVIOUS
  <2> HIDE DEF i
  <2> QED BY <2>1, <2>2 DEF Parts, i
<1> QED BY <1>1, GoodState, PTL

(* The packet a connection expects finds its rule, whatever the other       *)
(* connections' control messages do to the metadata; any other packet finds *)
(* one unless it is looked up between the two writes of a control message   *)
(* (switch_main.c:416-417, 496-505).                                        *)
THEOREM PacketsAreAnswered == Spec => [](Orderly(program) => PacketsAnswered)
<1>1. ASSUME Good
      PROVE  PacketsAnswered
  <2> SUFFICES ASSUME NEW h \in Hosts, pc[h] = "lookup"
               PROVE  \/ HasRule(h, prim[h], root_rank)
                      \/ cur[h] # agg_epsn[h] /\ \E g \in Hosts : pc[g] = "meta"
    BY DEF PacketsAnswered
  <2>1. \/ prim[h] = "allreduce"
        \/ prim[h] = "reduce" /\ operation_type = "reduce"
    BY <1>1, GoodParts DEF ThreadInv
  <2>2. CASE prim[h] = "allreduce"
    BY <2>2 DEF HasRule
  <2>3. CASE prim[h] = "reduce" /\ cur[h] = agg_epsn[h]
    <3> DEFINE c == InHand(h)
    <3>1. c \in Chunks /\ Psn(c) = Added(h) /\ c[1] \in Calls
      BY <1>1, <2>3, InHandChunk, AddedFacts, GoodTypes, ChunkFacts DEF InControl
    <3>2. IsReduce(CallOf(c))
      BY <1>1, <2>3, GoodParts DEF ThreadInv, IsReduce
    <3>3. root_rank = CallOf(c).root
      BY <1>1, <3>1, <3>2, MetaFor
    <3>4. CallOf(c).root \in Hosts
      BY <1>1, <3>1, <3>2, GoodTypes, OrderlyCalls DEF CallOf
    <3> QED BY <2>3, <3>3, <3>4 DEF HasRule
  <2>4. CASE prim[h] = "reduce" /\ \A g \in Hosts : pc[g] # "meta"
    <3>1. PICK g \in Hosts : \E o \in Typed(g) : IsReduce(program[o])
      BY <1>1, <2>1, <2>4 DEF Good, Order, MetaInv
    <3>2. PICK o \in Typed(g) : IsReduce(program[o])
      BY <3>1
    <3>3. o \in Rooted(g)
      BY <2>4, <3>2 DEF Typed, Rooted, InControl
    <3>4. root_rank = program[o].root
      BY <1>1, <3>2, <3>3 DEF Good, Order, MetaInv
    <3>5. program[o].root \in Hosts
      BY <1>1, <3>2, AnnouncedCalls, GoodTypes, OrderlyCalls
    <3> QED BY <2>4, <3>4, <3>5 DEF HasRule
  <2> QED BY <2>1, <2>2, <2>3, <2>4
<1> QED BY <1>1, GoodState, PTL

------------------------------------------------------------------------------
(* SwitchOps implements Collectives. *)

(* Where a host is to its callers: how many calls it has made. *)
CallsMade == [g \in Hosts |-> IF phase[g] = "start" THEN op[g] - 1 ELSE op[g]]
CallerSame == UNCHANGED <<program, op, receive_num, got, CallsMade>>

LEMMA CallerSameStutters == CallerSame => UNCHANGED Promise!collVars
BY DEF CallerSame, CallsMade, Promise!collVars

LEMMA InitPromise == Init => Promise!CInit
<1> SUFFICES ASSUME Init PROVE Promise!CInit
  OBVIOUS
<1>1. Promise!Hosts = Hosts
  BY DEF Promise!Hosts, Hosts
<1>2. CallsMade = [h \in Hosts |-> 0]
  BY DEF Init, CallsMade
<1> QED BY <1>1, <1>2 DEF Init, CallsMade, Promise!CInit

(* In an orderly program all contribute, and the right sum is that of all. *)
LEMMA RightSums ==
    ASSUME Good
    PROVE  /\ \A h \in Hosts : InCall(h) =>
                 /\ Promise!Contributors(Call(h)) = Hosts
                 /\ Promise!Receives(h) <=> Receives(h)
           /\ \A c \in Chunks : Promise!RightSum(c) = Expected(c)
<1>1. Promise!Hosts = Hosts
  BY DEF Promise!Hosts, Hosts
<1>2. \A o \in Calls : program[o].prim \in {"allreduce", "reduce"}
  BY GoodTypes, OrderlyCalls
<1>3. ASSUME NEW h \in Hosts, InCall(h)
      PROVE  /\ Promise!Contributors(Call(h)) = Hosts
             /\ Promise!Receives(h) <=> Receives(h)
  <2>1. Call(h).prim \in {"allreduce", "reduce"} /\ Promise!Call(h) = Call(h)
    BY <1>2, <1>3 DEF Call, InCall, Promise!Call
  <2> QED BY <1>1, <2>1 DEF Promise!Contributors, Promise!Receives, Receives, IsRoot
<1>4. ASSUME NEW c \in Chunks
      PROVE  Promise!RightSum(c) = Expected(c)
  <2>1. program[c[1]].prim \in {"allreduce", "reduce"}
    BY <1>2, GoodTypes, ChunkFacts
  <2>2. Expected(c) = [h \in Hosts |-> <<c>>]
    BY GoodTypes, OrderlySum
  <2> QED BY <1>1, <2>1, <2>2 DEF Promise!RightSum, Promise!Contributors
<1> QED BY <1>3, <1>4

LEMMA BeginPromise ==
    ASSUME Good, NEW h \in Hosts, Begin(h)
    PROVE  Promise!Make(h)
<1>1. InCall(h) /\ phase[h] = "start" /\ Sends(h)
  BY GoodTypes, OrderlyCaller DEF Begin
<1>2. /\ phase' = [phase EXCEPT ![h] = "ctl"]
      /\ UNCHANGED <<program, op, receive_num, got>>
  BY <1>1 DEF Begin
<1>3. op[h] \in Nat /\ op[h] <= Len(program)
  BY <1>1, CurrentCall
<1>4. CallsMade[h] < op[h]
  BY <1>1, <1>3 DEF CallsMade
<1>5. CallsMade' = [CallsMade EXCEPT ![h] = op[h]]
  <2>1. ASSUME NEW g \in Hosts
        PROVE  (IF phase'[g] = "start" THEN op'[g] - 1 ELSE op'[g])
                  = IF g = h THEN op[h] ELSE CallsMade[g]
    <3>1. CASE g = h
      BY <1>2, <3>1, GoodTypes, CallerTypes
    <3>2. CASE g # h
      BY <1>2, <3>2, GoodTypes, CallerTypes DEF CallsMade
    <3> QED BY <3>1, <3>2
  <2>2. CallsMade' = [g \in Hosts |-> IF g = h THEN op[h] ELSE CallsMade[g]]
    BY <2>1 DEF CallsMade, Hosts
  <2>3. CallsMade = [g \in Hosts |-> CallsMade[g]]
    BY DEF CallsMade
  <2> HIDE DEF CallsMade
  <2> QED BY <2>2, <2>3
<1> QED BY <1>2, <1>3, <1>4, <1>5 DEF Promise!Make, CallsMade

LEMMA TakePromise ==
    ASSUME Good, NEW h \in Hosts, PollRecv(h)
    PROVE  Promise!Take(h)
<1> DEFINE c == <<op[h], receive_num[h] + 1>>
<1>1. /\ InCall(h) /\ phase[h] = "run" /\ Receives(h) /\ Len(got[h]) < arrived[h]
      /\ receive_num' = [receive_num EXCEPT ![h] = @ + 1]
      /\ got' = [got EXCEPT ![h] =
                    Append(@, [chunk |-> c, sum |-> out[h][Len(@) + 1]])]
      /\ UNCHANGED <<program, op, phase>>
  BY DEF PollRecv
<1>2. out[h][Len(got[h]) + 1] = Expected(c)
  BY ResultMatched
<1>3. /\ Len(out[h]) \in Nat /\ arrived[h] \in Nat /\ Len(got[h]) \in Nat
      /\ receive_num[h] \in Nat /\ op[h] \in Nat
  BY GoodTypes
<1>4. receive_num[h] < message_num(h) /\ c \in Chunks
      /\ Index(c) = Before(op[h]) + (receive_num[h] + 1)
  <2>1. CallInv(h)'
    BY CallStep DEF Good, Action
  <2>2. receive_num'[h] = receive_num[h] + 1
    BY <1>1, GoodTypes, CallerTypes
  <2>3. receive_num[h] + 1 <= message_num(h) /\ message_num(h) \in Nat
    BY <1>1, <2>1, <2>2, CurrentCall DEF CallInv, message_num, Call
  <2>4. receive_num[h] + 1 \in 1 .. message_num(h)
    BY <1>3, <2>3
  <2>5. c \in Chunks /\ Index(c) = Before(op[h]) + (receive_num[h] + 1)
    BY <1>1, <2>4, CurrentCall
  <2>6. receive_num[h] < message_num(h)
    BY <1>3, <2>3
  <2> QED BY <2>5, <2>6
<1>5. Full(c)
  <2>1. Receiver(h, c)
    BY <1>1, <1>4, GoodTypes, OrderlyCaller
  <2>2. Len(got[h]) = Before(op[h]) + receive_num[h] /\ arrived[h] <= Len(out[h])
        /\ Before(op[h]) \in Nat
    BY <1>1, CurrentCall, GoodParts DEF GotInv, CallInv
  <2> HIDE DEF c
  <2>3. Index(c) <= Len(out[h])
    BY <1>1, <1>3, <1>4, <2>2
  <2> QED BY <1>4, <2>1, <2>3, GoodParts DEF OutInv, SentTo
<1>6. ASSUME NEW g \in Hosts
      PROVE  CallsMade[g] >= op[h]
  <2>1. Psn(c) < Len(sent[g])
    BY <1>4, <1>5, AddedSent DEF Full
  <2>2. c[1] <= op[g] /\ (c[1] = op[g] => phase[g] = "run")
    BY <1>4, <2>1, SentChunk
  <2>3. op[g] \in Nat
    BY GoodTypes
  <2>4. CASE op[h] = op[g]
    BY <1>3, <2>2, <2>4 DEF CallsMade
  <2>5. CASE op[h] # op[g]
    BY <1>3, <2>2, <2>3, <2>5 DEF CallsMade
  <2> QED BY <2>4, <2>5
<1>7. CallsMade[h] = op[h]
  BY <1>1 DEF CallsMade
<1>8. CallsMade' = CallsMade
  BY <1>1 DEF CallsMade, Hosts
<1>9. Promise!Hosts = Hosts /\ Promise!Call(h) = Call(h)
      /\ Promise!Contributors(Call(h)) = Hosts /\ Promise!Receives(h)
      /\ Promise!RightSum(c) = Expected(c)
  <2>1. Promise!Hosts = Hosts /\ Promise!Call(h) = Call(h)
    BY DEF Promise!Hosts, Hosts, Promise!Call, Call
  <2> QED BY <1>1, <1>4, <2>1, RightSums
<1>10. got' = [got EXCEPT ![h] = Append(@, [chunk |-> c, sum |-> Promise!RightSum(c)])]
  BY <1>1, <1>2, <1>9
<1> QED BY <1>1, <1>4, <1>6, <1>7, <1>8, <1>9, <1>10
        DEF Promise!Take, CallsMade, message_num

LEMMA FinishPromise ==
    ASSUME Good, NEW h \in Hosts, Return(h)
    PROVE  Promise!Finish(h)
<1>1. /\ InCall(h) /\ phase[h] = "run" /\ Complete(h)
      /\ op' = [op EXCEPT ![h] = @ + 1]
      /\ phase' = [phase EXCEPT ![h] = "start"]
      /\ receive_num' = [receive_num EXCEPT ![h] = 0]
      /\ UNCHANGED <<program, got>>
  BY DEF Return
<1>2. op \in [Hosts -> 1 .. Len(program) + 1] /\ Len(program) \in Nat
      /\ phase \in [Hosts -> {"start", "ctl", "run"}]
  BY GoodTypes DEF TypeOK
<1>3. CallsMade' = CallsMade
  <2>1. ASSUME NEW g \in Hosts
        PROVE  (IF phase'[g] = "start" THEN op'[g] - 1 ELSE op'[g])
                  = IF phase[g] = "start" THEN op[g] - 1 ELSE op[g]
    <3>1. CASE g = h
      BY <1>1, <1>2, <3>1
    <3>2. CASE g # h
      BY <1>1, <1>2, <3>2
    <3> QED BY <3>1, <3>2
  <2> QED BY <2>1 DEF CallsMade, Hosts
<1>4. CallsMade[h] = op[h]
  BY <1>1 DEF CallsMade
<1>5. Promise!Receives(h) => receive_num[h] = Promise!Call(h).len
  <2>1. Promise!Receives(h) <=> Receives(h)
    BY <1>1, RightSums
  <2> QED BY <1>1, <2>1 DEF Complete, message_num, Call, Promise!Call
<1> QED BY <1>1, <1>3, <1>4, <1>5 DEF Promise!Finish, CallsMade

(* Every step is a call made, a result handed over, a return, or nothing. *)
LEMMA StepPromise ==
    ASSUME Good, [Next]_vars
    PROVE  [Promise!CNext]_Promise!collVars
<1>1. CASE UNCHANGED vars
  <2>1. CallerSame
    BY <1>1 DEF CallerSame, CallsMade, vars, callVars
  <2> QED BY <2>1, CallerSameStutters
<1> SUFFICES ASSUME NEW h \in Hosts, Action(h)
             PROVE  [Promise!CNext]_Promise!collVars
  BY <1>1, StepIsAction
<1>2. h \in Promise!Hosts
  BY DEF Promise!Hosts, Hosts
<1>3. CASE Begin(h)
  BY <1>2, <1>3, BeginPromise DEF Promise!CNext
<1>4. CASE PollRecv(h)
  BY <1>2, <1>4, TakePromise DEF Promise!CNext
<1>5. CASE Return(h)
  BY <1>2, <1>5, FinishPromise DEF Promise!CNext
<1>6. CASE Start(h)
  <2>1. /\ phase[h] = "ctl" /\ phase' = [phase EXCEPT ![h] = "run"]
        /\ UNCHANGED <<program, op, receive_num, got>>
    BY <1>6 DEF Start
  <2>2. \A g \in Hosts : phase'[g] = "start" <=> phase[g] = "start"
    BY <2>1, GoodTypes, CallerTypes
  <2>3. CallerSame
    BY <2>1, <2>2 DEF CallerSame, CallsMade, Hosts
  <2> QED BY <2>3, CallerSameStutters
<1>7. CASE ~ (Begin(h) \/ Start(h) \/ PollRecv(h) \/ Return(h))
  <2>1. UNCHANGED <<program, op, phase, receive_num, got>>
    BY <1>7
   DEF Action, PollSend, Arrive, HandleControl, SetRoot, AckControl,
       ReceiveData, DropData, AnswerData, AcceptData, ReadOperation, ReadRoot, Forward, Aggregate,
       Cache, SendResult, SendToRoot, Cleanup, callVars
  <2>2. CallerSame
    BY <2>1 DEF CallerSame, CallsMade, Hosts
  <2> QED BY <2>2, CallerSameStutters
<1> QED BY <1>3, <1>4, <1>5, <1>6, <1>7

(* Whatever orderly programs the group runs: the calls keep the promise of  *)
(* Collectives.  No host is handed a result before all have made the call,  *)
(* and none returns without its results (api.c:644, 928).                   *)
THEOREM OpsRefinement ==
    ASSUME \A p \in Programs : Orderly(p)
    PROVE  Spec => ImplementsCollectives
<1>1. Init => Promise!CInit
  BY InitPromise
<1>2. Good /\ [Next]_vars => [Promise!CNext]_Promise!collVars
  BY StepPromise
<1>3. IInv /\ OrderInv => Good
  BY DEF IInv, TypeOK, OrderInv, Good
<1> QED BY <1>1, <1>2, <1>3, OrderInductive, PTL
        DEF Spec, ImplementsCollectives, Promise!CSpec

==============================================================================
