------------------------- MODULE VulkanDispatchProofs -------------------------
(***************************************************************************)
(* What is proved of VulkanDispatch, for any number of compilers and       *)
(* allocators, any threshold, ring and bounds: TypeOK for any number of    *)
(* command buffers, and where one thread records at a time the order and   *)
(* the completeness of what the host records, submits and looks up.        *)
(*                                                                         *)
(* The safety properties follow from what the host would be after running  *)
(* all that is on its way to it (Future): it would have recorded every     *)
(* command that was accepted, and nothing on its way names what is not     *)
(* there.  From the same invariant the threads use the ring as             *)
(* CommandStream allows.                                                   *)
(***************************************************************************)
EXTENDS VulkanDispatch, WellFoundedInduction, SequenceTheorems, TLAPS

-----------------------------------------------------------------------------
\* Running commands one after another

LEMMA StepByStep ==
  ASSUME NEW n \in Nat, NEW S, 0 \in S, \A i \in 0..(n - 1) : i \in S => i + 1 \in S
  PROVE  n \in S
<1> DEFINE R == OpToRel(<, Nat)
           T == {i \in 0..n : i \notin S}
<1>1. IsWellFoundedOn(R, Nat)
  BY NatLessThanWellFounded, Zenon
<1>2. \A x, y \in Nat : x < y => <<x, y>> \in R
  BY DEF OpToRel
<1> HIDE DEF R
<1>3. T \subseteq Nat
  OBVIOUS
<1> SUFFICES ASSUME n \notin S PROVE FALSE
  OBVIOUS
<1>4. T # {}
  OBVIOUS
<1>5. PICK i \in T : \A j \in T : <<j, i>> \notin R
  <2> HIDE DEF T
  <2> QED
    BY <1>1, <1>3, <1>4, WFMin
<1>6. i \in 0..n /\ i \notin S /\ i # 0
  BY <1>5
<1>7. i - 1 \in 0..(n - 1) /\ (i - 1) + 1 = i
  BY <1>6
<1>8. i - 1 \in T
  BY <1>6, <1>7
<1>9. i - 1 \in Nat /\ i \in Nat /\ i - 1 < i
  BY <1>6, <1>7
<1> QED
  BY <1>2, <1>5, <1>8, <1>9

\* The hosts on the way from h through cmds.
Runs(r, h, cmds) ==
  r[0] = h /\ \A i \in 1..Len(cmds) : r[i] = HostDoes(r[i - 1], cmds[i])

LEMMA RunExists ==
  ASSUME NEW h, NEW cmds, Len(cmds) \in Nat
  PROVE  \E r : Runs(r, h, cmds) /\ HostRuns(h, cmds) = r[Len(cmds)]
<1> DEFINE F(r, i) == IF i = 0 THEN h ELSE HostDoes(r[i - 1], cmds[i])
           N == Len(cmds)
           S == {n \in 0..N : \E r : r = [i \in 0..n |-> F(r, i)]}
<1>1. 0 \in S
  <2> DEFINE r == [i \in 0..0 |-> h]
  <2>1. r = [i \in 0..0 |-> F(r, i)]
    OBVIOUS
  <2>2. 0 \in 0..N
    OBVIOUS
  <2> HIDE DEF r, F, N
  <2> QED
    BY <2>1, <2>2
<1>2. ASSUME NEW n \in 0..(N - 1), n \in S PROVE n + 1 \in S
  <2>1. PICK r : r = [i \in 0..n |-> F(r, i)]
    BY <1>2
  <2> DEFINE q == [i \in 0..(n + 1) |-> IF i <= n THEN r[i] ELSE HostDoes(r[n], cmds[n + 1])]
  <2>2. \A i \in 0..n : q[i] = r[i]
    OBVIOUS
  <2>3. q[n + 1] = HostDoes(r[n], cmds[n + 1])
    OBVIOUS
  <2>4. \A i \in 0..n : r[i] = F(r, i)
    BY <2>1
  <2>5. ASSUME NEW i \in 0..(n + 1) PROVE q[i] = F(q, i)
    <3>1. CASE i = 0
      BY <3>1, <2>2, <2>4
    <3>2. CASE i \in 1..n
      <4>1. i - 1 \in 0..n /\ i \in 0..n /\ i # 0
        BY <3>2
      <4> QED
        BY <4>1, <2>2, <2>4
    <3>3. CASE i = n + 1
      <4>1. i - 1 = n /\ n \in 0..n /\ i # 0
        BY <3>3
      <4> QED
        BY <3>3, <4>1, <2>2, <2>3
    <3> QED
      BY <3>1, <3>2, <3>3
  <2>6. q = [i \in 0..(n + 1) |-> F(q, i)]
    <3>1. DOMAIN q = 0..(n + 1) /\ q = [i \in 0..(n + 1) |-> q[i]]
      OBVIOUS
    <3> HIDE DEF q, F
    <3> QED
      BY <3>1, <2>5
  <2>7. n + 1 \in 0..N
    BY <1>2
  <2> HIDE DEF q, F
  <2> QED
    BY <2>6, <2>7
<1>3. N \in S
  <2>1. N \in Nat
    OBVIOUS
  <2> HIDE DEF S, N
  <2> QED
    BY <1>1, <1>2, <2>1, StepByStep
<1> DEFINE a == CHOOSE r : r = [i \in 0..N |-> F(r, i)]
<1>4. a = [i \in 0..N |-> F(a, i)]
  <2>1. \E r : r = [i \in 0..N |-> F(r, i)]
    BY <1>3
  <2> HIDE DEF F, N
  <2> QED
    BY <2>1
<1>5. HostRuns(h, cmds) = a[N]
  BY DEF HostRuns
<1>6. Runs(a, h, cmds)
  <2> HIDE DEF a
  <2>1. a[0] = h
    <3>1. 0 \in 0..N
      OBVIOUS
    <3> QED
      BY <1>4, <3>1
  <2>2. ASSUME NEW i \in 1..N PROVE a[i] = HostDoes(a[i - 1], cmds[i])
    <3>1. i \in 0..N /\ i # 0
      OBVIOUS
    <3> QED
      BY <1>4, <3>1
  <2> QED
    BY <2>1, <2>2 DEF Runs
<1> QED
  BY <1>5, <1>6

LEMMA RunNone == ASSUME NEW h PROVE HostRuns(h, <<>>) = h
<1>1. Len(<<>>) = 0
  OBVIOUS
<1>2. PICK r : Runs(r, h, <<>>) /\ HostRuns(h, <<>>) = r[Len(<<>>)]
  BY <1>1, RunExists
<1> QED
  BY <1>1, <1>2 DEF Runs

\* Two ways through the same commands from the same host end at the same host.
LEMMA RunUnique ==
  ASSUME NEW h, NEW cmds, Len(cmds) \in Nat, NEW r, Runs(r, h, cmds)
  PROVE  r[Len(cmds)] = HostRuns(h, cmds)
<1>1. PICK a : Runs(a, h, cmds) /\ HostRuns(h, cmds) = a[Len(cmds)]
  BY RunExists
<1> DEFINE S == {i \in 0..Len(cmds) : r[i] = a[i]}
<1>2. 0 \in S
  BY <1>1 DEF Runs
<1>3. ASSUME NEW i \in 0..(Len(cmds) - 1), i \in S PROVE i + 1 \in S
  <2>1. i + 1 \in 1..Len(cmds) /\ (i + 1) - 1 = i /\ i + 1 \in 0..Len(cmds)
    OBVIOUS
  <2>2. r[i + 1] = HostDoes(r[i], cmds[i + 1]) /\ a[i + 1] = HostDoes(a[i], cmds[i + 1])
    BY <1>1, <2>1 DEF Runs
  <2> QED
    BY <1>3, <2>1, <2>2
<1>4. Len(cmds) \in S
  <2> HIDE DEF S
  <2> QED
    BY <1>2, <1>3, StepByStep
<1> QED
  BY <1>1, <1>4

LEMMA RunConcat ==
  ASSUME NEW X, NEW h, NEW p \in Seq(X), NEW q \in Seq(X)
  PROVE  HostRuns(h, p \o q) = HostRuns(HostRuns(h, p), q)
<1> DEFINE m == HostRuns(h, p)
           w == p \o q
<1>1. Len(p) \in Nat /\ Len(q) \in Nat /\ Len(w) = Len(p) + Len(q)
  OBVIOUS
<1>2. PICK a : Runs(a, h, p) /\ m = a[Len(p)]
  BY <1>1, RunExists
<1>3. PICK b : Runs(b, m, q) /\ HostRuns(m, q) = b[Len(q)]
  BY <1>1, RunExists
<1> DEFINE r == [i \in 0..Len(w) |-> IF i <= Len(p) THEN a[i] ELSE b[i - Len(p)]]
<1>4. b[0] = a[Len(p)]
  BY <1>2, <1>3 DEF Runs
<1>5. \A i \in 0..Len(p) : r[i] = a[i]
  BY <1>1
<1>6. \A i \in 0..Len(q) : r[Len(p) + i] = b[i]
  <2> SUFFICES ASSUME NEW i \in 0..Len(q) PROVE r[Len(p) + i] = b[i]
    OBVIOUS
  <2>1. CASE i = 0
    BY <1>1, <1>4, <1>5, <2>1
  <2>2. CASE i # 0
    <3>1. Len(p) + i \in 0..Len(w) /\ ~(Len(p) + i <= Len(p)) /\ (Len(p) + i) - Len(p) = i
      BY <1>1, <2>2
    <3> QED
      BY <3>1
  <2> QED
    BY <2>1, <2>2
<1>7. Runs(r, h, w)
  <2>1. r[0] = h
    BY <1>1, <1>2, <1>5 DEF Runs
  <2>2. ASSUME NEW i \in 1..Len(w) PROVE r[i] = HostDoes(r[i - 1], w[i])
    <3>1. CASE i <= Len(p)
      <4>1. i \in 0..Len(p) /\ i - 1 \in 0..Len(p) /\ i \in 1..Len(p)
        BY <1>1, <3>1
      <4>2. w[i] = p[i]
        BY <4>1
      <4>3. r[i] = a[i] /\ r[i - 1] = a[i - 1]
        BY <1>5, <4>1
      <4> HIDE DEF r, w
      <4> QED
        BY <1>2, <4>1, <4>2, <4>3 DEF Runs
    <3>2. CASE ~(i <= Len(p))
      <4> DEFINE k == i - Len(p)
      <4>1. k \in 1..Len(q) /\ k \in 0..Len(q) /\ k - 1 \in 0..Len(q) /\ Len(p) + k = i
              /\ Len(p) + (k - 1) = i - 1
        BY <1>1, <3>2
      <4>2. w[i] = q[k]
        BY <1>1, <3>2
      <4> HIDE DEF k
      <4>3. r[i] = b[k] /\ r[i - 1] = b[k - 1]
        <5> HIDE DEF r
        <5> QED
          BY <1>6, <4>1
      <4> HIDE DEF r, w
      <4> QED
        BY <1>3, <4>1, <4>2, <4>3 DEF Runs
    <3> QED
      BY <3>1, <3>2
  <2> HIDE DEF r, w
  <2> QED
    BY <2>1, <2>2 DEF Runs
<1>8. r[Len(w)] = b[Len(q)]
  <2> HIDE DEF r, w
  <2> QED
    BY <1>1, <1>6
<1> HIDE DEF r, w, m
<1>9. r[Len(w)] = HostRuns(h, w)
  BY <1>1, <1>7, RunUnique
<1> QED
  BY <1>3, <1>8, <1>9 DEF w, m

LEMMA RunOne == ASSUME NEW h, NEW cmd PROVE HostRuns(h, <<cmd>>) = HostDoes(h, cmd)
<1>1. Len(<<cmd>>) = 1 /\ <<cmd>>[1] = cmd
  OBVIOUS
<1>2. PICK r : Runs(r, h, <<cmd>>) /\ HostRuns(h, <<cmd>>) = r[Len(<<cmd>>)]
  BY <1>1, RunExists
<1>3. r[1] = HostDoes(r[1 - 1], <<cmd>>[1]) /\ r[0] = h
  BY <1>1, <1>2 DEF Runs
<1> QED
  BY <1>1, <1>2, <1>3

LEMMA RunAppend ==
  ASSUME NEW X, NEW h, NEW q \in Seq(X), NEW cmd \in X
  PROVE  HostRuns(h, Append(q, cmd)) = HostDoes(HostRuns(h, q), cmd)
<1>1. Append(q, cmd) = q \o <<cmd>> /\ <<cmd>> \in Seq(X)
  OBVIOUS
<1>2. HostRuns(h, q \o <<cmd>>) = HostRuns(HostRuns(h, q), <<cmd>>)
  <2> DEFINE p == <<cmd>>
  <2>1. p \in Seq(X)
    OBVIOUS
  <2> HIDE DEF p
  <2>2. HostRuns(h, q \o p) = HostRuns(HostRuns(h, q), p)
    BY <2>1, RunConcat
  <2> QED
    BY <2>2 DEF p
<1>3. HostRuns(HostRuns(h, q), <<cmd>>) = HostDoes(HostRuns(h, q), cmd)
  BY RunOne
<1> QED
  BY <1>1, <1>2, <1>3

-----------------------------------------------------------------------------
\* Commands, and what the host does with one

WellFormed(cmd) ==
  /\ cmd.op \in {"record", "submit", "create", "bind", "destroy"}
  /\ cmd.op = "record" => /\ cmd.cb \in CmdBufs /\ cmd.n \in 1..MaxIssued
                          /\ cmd.uses \subseteq Pipelines
  /\ cmd.op = "submit" => cmd.cb \in CmdBufs
  /\ cmd.op \in {"create", "destroy"} => cmd.obj \in Object
  /\ cmd.op = "destroy" => \E w \in Compilers : cmd.obj = Of("shader", w)

LEMMA CommandForms == ASSUME NEW cmd \in Commands PROVE WellFormed(cmd)
<1>1. CASE \E c \in CmdBufs, n \in 1..MaxIssued, uses \in {{}} \cup {{p} : p \in Pipelines} :
             cmd = Recorded(c, n, uses)
  BY <1>1 DEF Recorded, WellFormed
<1>2. CASE \E c \in CmdBufs : cmd = Submit(c)
  BY <1>2 DEF Submit, WellFormed
<1>3. CASE \E w \in Compilers :
             cmd \in {Create(Of("shader", w), {}), Create(Of("layout", w), {}),
                      Create(Of("pipeline", w), {Of("shader", w), Of("layout", w)}),
                      Destroy(Of("shader", w))}
  <2>1. PICK w \in Compilers :
             cmd \in {Create(Of("shader", w), {}), Create(Of("layout", w), {}),
                      Create(Of("pipeline", w), {Of("shader", w), Of("layout", w)}),
                      Destroy(Of("shader", w))}
    BY <1>3
  <2>2. /\ Of("shader", w) \in Object /\ Of("layout", w) \in Object
        /\ Of("pipeline", w) \in Object
    BY DEF Of, Object, Workers
  <2> QED
    BY <2>1, <2>2 DEF Create, Destroy, WellFormed
<1>4. CASE \E w \in Allocators :
             cmd \in {Create(Of("buffer", w), {}), Create(Of("memory", w), {}),
                      Bind({Of("buffer", w), Of("memory", w)})}
  <2>1. PICK w \in Allocators :
             cmd \in {Create(Of("buffer", w), {}), Create(Of("memory", w), {}),
                      Bind({Of("buffer", w), Of("memory", w)})}
    BY <1>4
  <2>2. Of("buffer", w) \in Object /\ Of("memory", w) \in Object
    BY DEF Of, Object, Workers
  <2> QED
    BY <2>1, <2>2 DEF Create, Bind, WellFormed
<1> DEFINE A(w) == {Create(Of("shader", w), {}), Create(Of("layout", w), {}),
                    Create(Of("pipeline", w), {Of("shader", w), Of("layout", w)}),
                    Destroy(Of("shader", w))}
           B(w) == {Create(Of("buffer", w), {}), Create(Of("memory", w), {}),
                    Bind({Of("buffer", w), Of("memory", w)})}
           R == {Recorded(c, n, uses) : c \in CmdBufs, n \in 1..MaxIssued,
                                        uses \in {{}} \cup {{p} : p \in Pipelines}}
           Q == {Submit(c) : c \in CmdBufs}
           UA == UNION {A(w) : w \in Compilers}
           UB == UNION {B(w) : w \in Allocators}
<1>5. Commands = R \cup Q \cup UA \cup UB
  BY DEF Commands
<1>6. CASE cmd \in R
  BY <1>1, <1>6
<1>7. CASE cmd \in Q
  BY <1>2, <1>7, Zenon
<1>8. CASE cmd \in UA
  <2>1. PICK w \in Compilers : cmd \in A(w)
    BY <1>8, Zenon
  <2> QED
    BY <1>3, <2>1, Zenon
<1>9. CASE cmd \in UB
  <2>1. PICK w \in Allocators : cmd \in B(w)
    BY <1>9, Zenon
  <2> QED
    BY <1>4, <2>1, Zenon
<1> HIDE DEF A, B, R, Q, UA, UB
<1> QED
  BY <1>5, <1>6, <1>7, <1>8, <1>9

LEMMA DoesLog ==
  ASSUME NEW h \in HostType, NEW cmd \in Commands
  PROVE  /\ HostDoes(h, cmd).log \in [CmdBufs -> Seq(1..MaxIssued)]
         /\ \A c \in CmdBufs :
              HostDoes(h, cmd).log[c] = IF cmd.op = "record" /\ cmd.cb = c
                                          THEN Append(h.log[c], cmd.n) ELSE h.log[c]
<1>1. h.log \in [CmdBufs -> Seq(1..MaxIssued)]
  BY DEF HostType
<1>2. CASE cmd.op = "record"
  <2>1. HostDoes(h, cmd).log = [h.log EXCEPT ![cmd.cb] = Append(h.log[cmd.cb], cmd.n)]
    BY <1>2 DEF HostDoes, HostType
  <2>2. cmd.cb \in CmdBufs /\ cmd.n \in 1..MaxIssued
    BY <1>2, CommandForms DEF WellFormed
  <2>3. Append(h.log[cmd.cb], cmd.n) \in Seq(1..MaxIssued)
    BY <1>1, <2>2
  <2> QED
    BY <1>1, <1>2, <2>1, <2>2, <2>3
<1>3. CASE cmd.op # "record"
  <2>1. HostDoes(h, cmd).log = h.log
    BY <1>3, CommandForms DEF WellFormed, HostDoes, HostType
  <2> QED
    BY <1>1, <1>3, <2>1
<1> QED
  BY <1>2, <1>3

LEMMA DoesRan ==
  ASSUME NEW h \in HostType, NEW cmd \in Commands
  PROVE  /\ HostDoes(h, cmd).ran \in [CmdBufs -> Seq(1..MaxIssued)]
         /\ \A c \in CmdBufs :
              HostDoes(h, cmd).ran[c] = IF cmd.op = "submit" /\ cmd.cb = c
                                          THEN h.log[c] ELSE h.ran[c]
<1>1. /\ h.log \in [CmdBufs -> Seq(1..MaxIssued)]
      /\ h.ran \in [CmdBufs -> Seq(1..MaxIssued)]
  BY DEF HostType
<1>2. CASE cmd.op = "submit"
  <2>1. HostDoes(h, cmd).ran = [h.ran EXCEPT ![cmd.cb] = h.log[cmd.cb]]
    BY <1>2 DEF HostDoes, HostType
  <2>2. cmd.cb \in CmdBufs
    BY <1>2, CommandForms DEF WellFormed
  <2> QED
    BY <1>1, <1>2, <2>1, <2>2
<1>3. CASE cmd.op # "submit"
  <2>1. HostDoes(h, cmd).ran = h.ran
    BY <1>3, CommandForms DEF WellFormed, HostDoes, HostType
  <2> QED
    BY <1>1, <1>3, <2>1
<1> QED
  BY <1>2, <1>3

LEMMA DoesObjects ==
  ASSUME NEW h \in HostType, NEW cmd \in Commands
  PROVE  /\ HostDoes(h, cmd).objects \in SUBSET Object
         /\ cmd.op = "create" => HostDoes(h, cmd).objects = h.objects \cup {cmd.obj}
         /\ cmd.op = "destroy" => HostDoes(h, cmd).objects = h.objects \ {cmd.obj}
         /\ cmd.op \notin {"create", "destroy"} => HostDoes(h, cmd).objects = h.objects
<1>1. h.objects \in SUBSET Object
  BY DEF HostType
<1>2. cmd.op \in {"create", "destroy"} => cmd.obj \in Object
  BY CommandForms DEF WellFormed
<1>3. /\ cmd.op = "create" => HostDoes(h, cmd).objects = h.objects \cup {cmd.obj}
      /\ cmd.op = "destroy" => HostDoes(h, cmd).objects = h.objects \ {cmd.obj}
      /\ cmd.op \notin {"create", "destroy"} => HostDoes(h, cmd).objects = h.objects
  BY CommandForms DEF WellFormed, HostDoes, HostType
<1> QED
  BY <1>1, <1>2, <1>3

\* The lookups of one command.
Found(h, cmd) ==
  CASE cmd.op \in {"record", "create", "bind"} -> cmd.uses \subseteq h.objects
    [] cmd.op = "destroy" -> cmd.obj \in h.objects
    [] OTHER -> TRUE

LEMMA DoesLookups ==
  ASSUME NEW h \in HostType, NEW cmd \in Commands
  PROVE  /\ HostDoes(h, cmd).lookups_ok \in BOOLEAN
         /\ HostDoes(h, cmd).lookups_ok <=> h.lookups_ok /\ Found(h, cmd)
<1>1. h.lookups_ok \in BOOLEAN
  BY DEF HostType
<1>2. cmd.op \in {"record", "submit", "create", "bind", "destroy"}
  BY CommandForms DEF WellFormed
<1>3. CASE cmd.op = "record"
  <2>1. HostDoes(h, cmd).lookups_ok = (h.lookups_ok /\ cmd.uses \subseteq h.objects)
    BY <1>3 DEF HostDoes, HostType
  <2> QED
    BY <1>1, <1>3, <2>1 DEF Found
<1>4. CASE cmd.op = "submit"
  <2>1. HostDoes(h, cmd).lookups_ok = h.lookups_ok
    BY <1>4 DEF HostDoes, HostType
  <2> QED
    BY <1>1, <1>4, <2>1 DEF Found
<1>5. CASE cmd.op = "create"
  <2>1. HostDoes(h, cmd).lookups_ok = (h.lookups_ok /\ cmd.uses \subseteq h.objects)
    BY <1>5 DEF HostDoes, HostType
  <2> QED
    BY <1>1, <1>5, <2>1 DEF Found
<1>6. CASE cmd.op = "bind"
  <2>1. HostDoes(h, cmd).lookups_ok = (h.lookups_ok /\ cmd.uses \subseteq h.objects)
    BY <1>6 DEF HostDoes, HostType
  <2> QED
    BY <1>1, <1>6, <2>1 DEF Found
<1>7. CASE cmd.op = "destroy"
  <2>1. HostDoes(h, cmd).lookups_ok = (h.lookups_ok /\ cmd.obj \in h.objects)
    BY <1>7 DEF HostDoes, HostType
  <2> QED
    BY <1>1, <1>7, <2>1 DEF Found
<1> QED
  BY <1>2, <1>3, <1>4, <1>5, <1>6, <1>7

LEMMA DoesType ==
  ASSUME NEW h \in HostType, NEW cmd \in Commands PROVE HostDoes(h, cmd) \in HostType
<1>1. PICK g \in HostType : g = HostDoes(h, cmd)
  <2>1. h = [objects |-> h.objects, log |-> h.log, ran |-> h.ran, lookups_ok |-> h.lookups_ok]
    BY DEF HostType
  <2>2. HostDoes(h, cmd) = [objects |-> HostDoes(h, cmd).objects, log |-> HostDoes(h, cmd).log,
                            ran |-> HostDoes(h, cmd).ran,
                            lookups_ok |-> HostDoes(h, cmd).lookups_ok]
    BY <2>1, CommandForms DEF WellFormed, HostDoes, HostType
  <2> QED
    BY <2>2, DoesLog, DoesRan, DoesObjects, DoesLookups DEF HostType
<1> QED
  BY <1>1

-----------------------------------------------------------------------------
\* What running several commands does

\* The hosts on the way are hosts.
LEMMA RunTypes ==
  ASSUME NEW h \in HostType, NEW q \in Seq(Commands), NEW r, Runs(r, h, q)
  PROVE  \A i \in 0..Len(q) : r[i] \in HostType
<1> SUFFICES ASSUME NEW n \in 0..Len(q) PROVE r[n] \in HostType
  OBVIOUS
<1> DEFINE S == {i \in 0..n : r[i] \in HostType}
<1>1. 0 \in S
  BY DEF Runs
<1>2. ASSUME NEW i \in 0..(n - 1), i \in S PROVE i + 1 \in S
  <2>1. i + 1 \in 1..Len(q) /\ (i + 1) - 1 = i /\ i + 1 \in 0..n
    OBVIOUS
  <2>2. r[i + 1] = HostDoes(r[i], q[i + 1]) /\ q[i + 1] \in Commands /\ r[i] \in HostType
    BY <1>2, <2>1 DEF Runs
  <2> QED
    BY <2>1, <2>2, DoesType
<1>3. n \in S
  <2> HIDE DEF S
  <2> QED
    BY <1>1, <1>2, StepByStep
<1> QED
  BY <1>3

LEMMA RunType ==
  ASSUME NEW h \in HostType, NEW q \in Seq(Commands) PROVE HostRuns(h, q) \in HostType
<1>1. PICK r : Runs(r, h, q) /\ HostRuns(h, q) = r[Len(q)]
  BY RunExists
<1>2. \A i \in 0..Len(q) : r[i] \in HostType
  BY <1>1, RunTypes
<1> QED
  BY <1>1, <1>2

\* A log grows at its end.
Extends(s, p) == Len(p) <= Len(s) /\ \A i \in 1..Len(p) : s[i] = p[i]

LEMMA ExtendsOn ==
  ASSUME NEW X, NEW s \in Seq(X), NEW p \in Seq(X), NEW x, Extends(s, p)
  PROVE  Extends(Append(s, x), p)
<1>1. /\ Len(Append(s, x)) = Len(s) + 1
      /\ \A i \in 1..Len(s) : Append(s, x)[i] = s[i]
  OBVIOUS
<1>2. Len(p) \in Nat /\ Len(s) \in Nat /\ Len(p) <= Len(s) /\ \A i \in 1..Len(p) : s[i] = p[i]
  BY DEF Extends
<1>3. \A i \in 1..Len(p) : i \in 1..Len(s)
  BY <1>2
<1>4. \A i \in 1..Len(p) : Append(s, x)[i] = p[i]
  BY <1>1, <1>2, <1>3
<1>5. Len(p) <= Len(Append(s, x))
  BY <1>1, <1>2
<1> QED
  BY <1>4, <1>5 DEF Extends

LEMMA RunLog ==
  ASSUME NEW h \in HostType, NEW q \in Seq(Commands), NEW c \in CmdBufs
  PROVE  Extends(HostRuns(h, q).log[c], h.log[c])
<1>1. PICK r : Runs(r, h, q) /\ HostRuns(h, q) = r[Len(q)]
  BY RunExists
<1>2. \A i \in 0..Len(q) : r[i] \in HostType
  BY <1>1, RunTypes
<1> DEFINE S == {i \in 0..Len(q) : Extends(r[i].log[c], h.log[c])}
<1>3. 0 \in S
  <2>1. h.log[c] \in Seq(1..MaxIssued)
    BY DEF HostType
  <2> QED
    BY <1>1, <2>1 DEF Runs, Extends
<1>4. ASSUME NEW i \in 0..(Len(q) - 1), i \in S PROVE i + 1 \in S
  <2>1. i + 1 \in 1..Len(q) /\ (i + 1) - 1 = i /\ i + 1 \in 0..Len(q) /\ i \in 0..Len(q)
    OBVIOUS
  <2>2. r[i + 1] = HostDoes(r[i], q[i + 1]) /\ q[i + 1] \in Commands /\ r[i] \in HostType
    BY <1>1, <1>2, <2>1 DEF Runs
  <2> DEFINE s == r[i].log[c]
             t == r[i + 1].log[c]
             p == h.log[c]
  <2>3. s \in Seq(1..MaxIssued) /\ p \in Seq(1..MaxIssued)
    BY <2>2 DEF HostType
  <2>4. t = s \/ t = Append(s, q[i + 1].n)
    <3>1. HostDoes(r[i], q[i + 1]).log[c] = IF q[i + 1].op = "record" /\ q[i + 1].cb = c
                                              THEN Append(r[i].log[c], q[i + 1].n)
                                              ELSE r[i].log[c]
      BY <2>2, DoesLog
    <3> QED
      BY <2>2, <3>1
  <2>5. Extends(s, p)
    BY <1>4
  <2> HIDE DEF s, t, p
  <2>6. Extends(t, p)
    <3>1. CASE t = s
      BY <2>5, <3>1
    <3>2. CASE t = Append(s, q[i + 1].n)
      BY <2>3, <2>5, <3>2, ExtendsOn
    <3> QED
      BY <2>4, <3>1, <3>2
  <2> QED
    BY <2>1, <2>6 DEF t, p
<1>5. Len(q) \in S
  <2>1. Len(q) \in Nat
    OBVIOUS
  <2> HIDE DEF S
  <2> QED
    BY <1>3, <1>4, <2>1, StepByStep
<1> QED
  BY <1>1, <1>5

\* What a log becomes does not depend on the host's other state.
LEMMA RunSameLog ==
  ASSUME NEW g \in HostType, NEW h \in HostType, NEW q \in Seq(Commands), NEW c \in CmdBufs,
         g.log[c] = h.log[c]
  PROVE  HostRuns(g, q).log[c] = HostRuns(h, q).log[c]
<1>1. PICK a : Runs(a, g, q) /\ HostRuns(g, q) = a[Len(q)]
  BY RunExists
<1>2. PICK b : Runs(b, h, q) /\ HostRuns(h, q) = b[Len(q)]
  BY RunExists
<1>3. \A i \in 0..Len(q) : a[i] \in HostType /\ b[i] \in HostType
  BY <1>1, <1>2, RunTypes
<1> DEFINE S == {i \in 0..Len(q) : a[i].log[c] = b[i].log[c]}
<1>4. 0 \in S
  BY <1>1, <1>2 DEF Runs
<1>5. ASSUME NEW i \in 0..(Len(q) - 1), i \in S PROVE i + 1 \in S
  <2>1. i + 1 \in 1..Len(q) /\ (i + 1) - 1 = i /\ i + 1 \in 0..Len(q) /\ i \in 0..Len(q)
    OBVIOUS
  <2>2. a[i + 1] = HostDoes(a[i], q[i + 1]) /\ b[i + 1] = HostDoes(b[i], q[i + 1])
    BY <1>1, <1>2, <2>1 DEF Runs
  <2>3. q[i + 1] \in Commands /\ a[i] \in HostType /\ b[i] \in HostType
    BY <1>3, <2>1
  <2>4. a[i + 1].log[c] = b[i + 1].log[c]
    BY <1>5, <2>2, <2>3, DoesLog
  <2> QED
    BY <2>1, <2>4
<1>6. Len(q) \in S
  <2>1. Len(q) \in Nat
    OBVIOUS
  <2> HIDE DEF S
  <2> QED
    BY <1>4, <1>5, <2>1, StepByStep
<1> QED
  BY <1>1, <1>2, <1>6

\* A host that has more, and whose lookups went no worse, still has more after the
\* same commands.
NoWorse(g, h) == h.objects \subseteq g.objects /\ (h.lookups_ok => g.lookups_ok)

LEMMA RunNoWorse ==
  ASSUME NEW g \in HostType, NEW h \in HostType, NEW q \in Seq(Commands), NoWorse(g, h)
  PROVE  NoWorse(HostRuns(g, q), HostRuns(h, q))
<1>1. PICK a : Runs(a, g, q) /\ HostRuns(g, q) = a[Len(q)]
  BY RunExists
<1>2. PICK b : Runs(b, h, q) /\ HostRuns(h, q) = b[Len(q)]
  BY RunExists
<1>3. \A i \in 0..Len(q) : a[i] \in HostType /\ b[i] \in HostType
  BY <1>1, <1>2, RunTypes
<1> DEFINE S == {i \in 0..Len(q) : NoWorse(a[i], b[i])}
<1>4. 0 \in S
  BY <1>1, <1>2 DEF Runs
<1>5. ASSUME NEW i \in 0..(Len(q) - 1), i \in S PROVE i + 1 \in S
  <2>1. i + 1 \in 1..Len(q) /\ (i + 1) - 1 = i /\ i + 1 \in 0..Len(q) /\ i \in 0..Len(q)
    OBVIOUS
  <2>2. a[i + 1] = HostDoes(a[i], q[i + 1]) /\ b[i + 1] = HostDoes(b[i], q[i + 1])
    BY <1>1, <1>2, <2>1 DEF Runs
  <2>3. q[i + 1] \in Commands /\ a[i] \in HostType /\ b[i] \in HostType
    BY <1>3, <2>1
  <2>4. b[i].objects \subseteq a[i].objects /\ (b[i].lookups_ok => a[i].lookups_ok)
    BY <1>5 DEF NoWorse
  <2>5. b[i + 1].objects \subseteq a[i + 1].objects
    BY <2>2, <2>3, <2>4, DoesObjects, CommandForms DEF WellFormed
  <2>6. Found(b[i], q[i + 1]) => Found(a[i], q[i + 1])
    BY <2>4 DEF Found
  <2>7. b[i + 1].lookups_ok => a[i + 1].lookups_ok
    BY <2>2, <2>3, <2>4, <2>6, DoesLookups
  <2> QED
    BY <2>1, <2>5, <2>7 DEF NoWorse
<1>6. Len(q) \in S
  <2>1. Len(q) \in Nat
    OBVIOUS
  <2> HIDE DEF S
  <2> QED
    BY <1>4, <1>5, <2>1, StepByStep
<1> QED
  BY <1>1, <1>2, <1>6

\* What is there afterwards was there before or is created by one of the commands;
\* what is there and not destroyed stays; lookups that went wrong stay wrong.
Kept(q, o) == \A i \in 1..Len(q) : q[i].op = "destroy" => q[i].obj # o

LEMMA RunObjects ==
  ASSUME NEW h \in HostType, NEW q \in Seq(Commands), NEW o
  PROVE  /\ o \in HostRuns(h, q).objects => o \in h.objects \/ Waiting(q, o)
         /\ o \in h.objects /\ Kept(q, o) => o \in HostRuns(h, q).objects
         /\ HostRuns(h, q).lookups_ok => h.lookups_ok
<1>1. PICK r : Runs(r, h, q) /\ HostRuns(h, q) = r[Len(q)]
  BY RunExists
<1>2. \A i \in 0..Len(q) : r[i] \in HostType
  BY <1>1, RunTypes
<1> DEFINE Q(i) == /\ o \in r[i].objects => o \in h.objects \/ Waiting(q, o)
                   /\ o \in h.objects /\ Kept(q, o) => o \in r[i].objects
                   /\ r[i].lookups_ok => h.lookups_ok
           S == {i \in 0..Len(q) : Q(i)}
<1>3. 0 \in S
  BY <1>1 DEF Runs
<1>4. ASSUME NEW i \in 0..(Len(q) - 1), i \in S PROVE i + 1 \in S
  <2>1. i + 1 \in 1..Len(q) /\ (i + 1) - 1 = i /\ i + 1 \in 0..Len(q) /\ i \in 0..Len(q)
    OBVIOUS
  <2>2. r[i + 1] = HostDoes(r[i], q[i + 1]) /\ q[i + 1] \in Commands /\ r[i] \in HostType
    BY <1>1, <1>2, <2>1 DEF Runs
  <2>3. q[i + 1].op = "create" /\ q[i + 1].obj = o => Waiting(q, o)
    BY <2>1 DEF Waiting
  <2>4. Kept(q, o) => ~(q[i + 1].op = "destroy" /\ q[i + 1].obj = o)
    BY <2>1 DEF Kept
  <2>5. Q(i)
    BY <1>4
  <2>6. o \in r[i + 1].objects => o \in h.objects \/ Waiting(q, o)
    BY <2>2, <2>3, <2>5, DoesObjects
  <2>7. o \in h.objects /\ Kept(q, o) => o \in r[i + 1].objects
    BY <2>2, <2>4, <2>5, DoesObjects
  <2>8. r[i + 1].lookups_ok => h.lookups_ok
    BY <2>2, <2>5, DoesLookups
  <2> QED
    BY <2>1, <2>6, <2>7, <2>8
<1>5. Len(q) \in S
  <2>1. Len(q) \in Nat
    OBVIOUS
  <2> HIDE DEF S
  <2> QED
    BY <1>3, <1>4, <2>1, StepByStep
<1> QED
  BY <1>1, <1>5

-----------------------------------------------------------------------------
\* Calls, lock and ring: an invariant for any number of command buffers

InCall == {"encoded", "writing"}

\* g_disp_lock is held from UK_ENC_BEGIN on, and through the flush of
\* vkEndCommandBuffer.
LockInv == \A t \in Threads : pc[t] \in {"encoded", "writing", "ending"} <=> lock = t

\* The numbers that the recordings begun so far may use.
Budget(c) == rounds[c] * (MaxCmds + 2)

\* Where the thread of a command buffer is, and what it may still record.
RecorderInv(c) ==
  /\ pc[c] \in {"idle", "ring_init", "begin", "encoded", "writing", "ending", "flushing"}
  /\ issued[c] <= Budget(c)
  /\ pc[c] \in {"ring_init", "begin"} => MayBegin(c)
  /\ pc[c] = "idle" /\ rec[c] = "open" => issued[c] < Budget(c)
  /\ pc[c] = "ending" => rec[c] = "open"
  /\ pc[c] = "flushing" => rec[c] = "ended" /\ ring_ready
  /\ pc[c] \in InCall =>
       /\ ~call[c].immediate
       /\ \/ call[c].name = "Begin" /\ rec[c] \in {"idle", "submitted"} /\ issued[c] < Budget(c)
          \/ call[c].name = "Cmd" /\ rec[c] = "open" /\ issued[c] < Budget(c)
          \/ call[c].name = "End" /\ rec[c] = "open"
          \/ call[c].name = "QueueSubmit" /\ rec[c] = "ended"

\* Where a compiler or an allocator is in its job.
WorkerInv(w) ==
  /\ pc[w] \in {"idle", "encoded", "writing", "alloc_enc", "alloc_direct"}
  /\ pc[w] \in {"alloc_enc", "alloc_direct"} => w \in Allocators /\ step[w] = 1
  /\ pc[w] \in InCall =>
       /\ call[w].name = "job"
       /\ step[w] < JobLength(w)
       /\ call[w].immediate <=> Bypasses(JobCall(w, step[w]))

CallsInv == (\A c \in CmdBufs : RecorderInv(c)) /\ (\A w \in Workers : WorkerInv(w))

\* What a thread in a call has encoded: its command behind the batch, or alone.
UsesOf == {{}} \cup {{Of("pipeline", w)} : w \in {v \in Compilers : step[v] >= 3}}
CallCmds(t) == IF t \in Workers THEN {JobCall(t, step[t])}
               ELSE IF call[t].name = "QueueSubmit" THEN {Submit(t)}
               ELSE {Recorded(t, issued[t], uses) : uses \in UsesOf}
Behind(t) == IF call[t].immediate \/ ~batch_active THEN <<>> ELSE batch_enc

EncInv == \A t \in Threads : pc[t] \in InCall =>
            \E cmd \in CallCmds(t) : enc[t] = Append(Behind(t), cmd)

\* The thread that found space in the ring writes what it encoded, and it fits.
OfferInv ==
  /\ offer # <<>> => \E t \in Threads : pc[t] = "writing"
  /\ \A t \in Threads : pc[t] = "writing" => offer = enc[t] /\ ring_active /\ ~call[t].immediate
  /\ ~ring_ready => offer = <<>> /\ draft = <<>> /\ pending = <<>> /\ running = <<>>
  /\ Len(draft) + Len(pending) + Len(running) + Len(offer) <= RingSize

CallInv == TypeOK /\ LockInv /\ CallsInv /\ EncInv /\ OfferInv

Places == {"idle", "ring_init", "begin", "encoded", "writing", "ending", "flushing",
           "alloc_enc", "alloc_direct"}
Names == {"none", "Begin", "Cmd", "End", "QueueSubmit", "job"}

\* TypeOK in parts.
ModesOK ==
  /\ {batch_enabled, batch_recording, ring_want, ring_tried, ring_ready, ring_recording}
       \subseteq BOOLEAN
  /\ batch_recording => batch_enabled
  /\ ring_recording => ring_ready
  /\ ring_ready <=> open
ThreadsOK ==
  /\ lock \in Threads \cup {Nobody}
  /\ pc \in [Threads -> Places]
  /\ call \in [Threads -> [name : Names, immediate : BOOLEAN]]
  /\ enc \in [Threads -> Seq(Commands)]
JobsOK ==
  /\ rec \in [CmdBufs -> {"idle", "open", "ended", "submitted"}]
  /\ step \in [Workers -> 0..4] /\ \A w \in Workers : step[w] <= JobLength(w)
BooksOK ==
  /\ issued \in [CmdBufs -> 0..MaxIssued]
  /\ rounds \in [CmdBufs -> 0..MaxRounds]
  /\ refused \in [CmdBufs -> SUBSET (1..MaxIssued)]
QueuesOK ==
  /\ batch_enc \in Seq(Commands)
  /\ {offer, draft, pending, running} \subseteq Seq(Commands)

LEMMA TypeParts ==
  /\ TypeOK => ModesOK /\ ThreadsOK /\ JobsOK /\ BooksOK /\ QueuesOK /\ host \in HostType
  /\ ModesOK /\ ThreadsOK /\ JobsOK /\ BooksOK /\ QueuesOK /\ host \in HostType /\ OfferInv
       => TypeOK
<1>1. TypeOK => ModesOK
  BY DEF TypeOK, ModesOK
<1>2. TypeOK => ThreadsOK
  BY DEF TypeOK, ThreadsOK, Places, Names
<1>3. TypeOK => JobsOK /\ BooksOK /\ QueuesOK /\ host \in HostType
  BY DEF TypeOK, JobsOK, BooksOK, QueuesOK
<1>4. ASSUME ModesOK, ThreadsOK, JobsOK, BooksOK, QueuesOK, host \in HostType, OfferInv
      PROVE  TypeOK
  <2>1. Len(draft) + Len(pending) + Len(running) <= RingSize
    <3>1. /\ Len(draft) \in Nat /\ Len(pending) \in Nat /\ Len(running) \in Nat
          /\ Len(offer) \in Nat /\ RingSize \in Nat
      BY <1>4, VulkanDispatchAssumption DEF QueuesOK
    <3>2. Len(draft) + Len(pending) + Len(running) + Len(offer) <= RingSize
      BY <1>4 DEF OfferInv
    <3> QED
      BY <3>1, <3>2
  <2>2. /\ pc \in [Threads -> {"idle", "ring_init", "begin", "encoded", "writing", "ending",
                               "flushing", "alloc_enc", "alloc_direct"}]
        /\ call \in [Threads -> [name : {"none", "Begin", "Cmd", "End", "QueueSubmit", "job"},
                                 immediate : BOOLEAN]]
        /\ enc \in [Threads -> Seq(Commands)]
        /\ lock \in Threads \cup {Nobody}
    BY <1>4 DEF ThreadsOK, Places, Names
  <2> QED
    BY <1>4, <2>1, <2>2 DEF TypeOK, ModesOK, JobsOK, BooksOK, QueuesOK
<1> QED
  BY <1>1, <1>2, <1>3, <1>4

LEMMA TypePartsNext ==
  ModesOK' /\ ThreadsOK' /\ JobsOK' /\ BooksOK' /\ QueuesOK' /\ (host \in HostType)' /\ OfferInv'
    => TypeOK'
<1>1. ModesOK /\ ThreadsOK /\ JobsOK /\ BooksOK /\ QueuesOK /\ host \in HostType /\ OfferInv
        => TypeOK
  BY TypeParts
<1> QED
  BY <1>1, PTL

-----------------------------------------------------------------------------
\* Threads, commands and budgets

LEMMA WhoIsWho ==
  /\ \A c \in CmdBufs : c \in Threads /\ c \notin Workers /\ c # Nobody
  /\ \A w \in Workers : w \in Threads /\ w \notin CmdBufs /\ w # Nobody
  /\ \A t \in Threads : t \in CmdBufs \/ t \in Workers
  /\ \A w \in Compilers : w \in Workers /\ w \notin Allocators
  /\ \A w \in Allocators : w \in Workers /\ w \notin Compilers
  /\ \A w \in Workers : w \in Compilers \/ w \in Allocators
BY VulkanDispatchAssumption DEF Threads, Workers

LEMMA JobCommands ==
  ASSUME NEW w \in Workers, NEW k \in 0..4, k < JobLength(w)
  PROVE  JobCall(w, k) \in Commands
<1>1. CASE w \in Compilers
  <2>1. JobCall(w, k) \in {Create(Of("shader", w), {}), Create(Of("layout", w), {}),
                           Create(Of("pipeline", w), {Of("shader", w), Of("layout", w)}),
                           Destroy(Of("shader", w))}
    BY <1>1 DEF JobCall, JobLength
  <2> QED
    BY <1>1, <2>1 DEF Commands
<1>2. CASE w \in Allocators
  <2>1. JobCall(w, k) \in {Create(Of("buffer", w), {}), Create(Of("memory", w), {}),
                           Bind({Of("buffer", w), Of("memory", w)})}
    BY <1>2, WhoIsWho DEF JobCall, JobLength
  <2> DEFINE B(v) == {Create(Of("buffer", v), {}), Create(Of("memory", v), {}),
                      Bind({Of("buffer", v), Of("memory", v)})}
             U == UNION {B(v) : v \in Allocators}
  <2>2. U \subseteq Commands
    BY DEF Commands
  <2>3. JobCall(w, k) \in B(w)
    BY <2>1
  <2>4. JobCall(w, k) \in U
    <3> HIDE DEF B
    <3> QED
      BY <1>2, <2>3
  <2> HIDE DEF U
  <2> QED
    BY <2>2, <2>4
<1> QED
  BY <1>1, <1>2, WhoIsWho

LEMMA RecorderCommands ==
  ASSUME NEW c \in CmdBufs
  PROVE  /\ Submit(c) \in Commands
         /\ \A n \in 1..MaxIssued : \A uses \in UsesOf : Recorded(c, n, uses) \in Commands
<1>1. UsesOf \subseteq {{}} \cup {{p} : p \in Pipelines}
  BY DEF UsesOf, Pipelines
<1>2. ASSUME NEW n \in 1..MaxIssued, NEW uses \in UsesOf PROVE Recorded(c, n, uses) \in Commands
  BY <1>1 DEF Commands
<1>3. Submit(c) \in Commands
  BY DEF Commands
<1> QED
  BY <1>2, <1>3

LEMMA Product ==
  ASSUME NEW a \in Nat, NEW b \in Nat, NEW k \in Nat, a <= b
  PROVE  a * k \in Nat /\ a * k <= b * k /\ (a + 1) * k = a * k + k
OBVIOUS

LEMMA Budgets ==
  ASSUME BooksOK, NEW c \in CmdBufs
  PROVE  /\ MaxIssued \in Nat /\ Budget(c) \in Nat /\ Budget(c) <= MaxIssued
         /\ issued[c] \in Nat /\ rounds[c] \in Nat
         /\ (rounds[c] + 1) * (MaxCmds + 2) = Budget(c) + MaxCmds + 2
         /\ rounds[c] < MaxRounds => Budget(c) + MaxCmds + 2 <= MaxIssued
<1> DEFINE K == MaxCmds + 2
           r == rounds[c]
<1>1. K \in Nat /\ MaxRounds \in Nat /\ MaxCmds \in Nat
  BY VulkanDispatchAssumption
<1>2. r \in Nat /\ r <= MaxRounds
  BY <1>1 DEF BooksOK
<1> HIDE DEF K, r
<1>3. r * K \in Nat /\ r * K <= MaxRounds * K /\ (r + 1) * K = r * K + K
  BY <1>1, <1>2, Product
<1>4. MaxRounds * K \in Nat
  BY <1>1
<1>5. r < MaxRounds => (r + 1) * K <= MaxRounds * K
  BY <1>1, <1>2, Product
<1>6. Budget(c) = r * K /\ MaxIssued = MaxRounds * K
  BY DEF Budget, MaxIssued, r, K
<1>7. issued[c] \in Nat
  BY <1>4, <1>6 DEF BooksOK
<1>8. (rounds[c] + 1) * (MaxCmds + 2) = (r + 1) * K
  BY DEF r, K
<1>9. r * K + K = (r * K + MaxCmds) + 2
  BY <1>1, <1>3 DEF K
<1> QED
  BY <1>1, <1>2, <1>3, <1>4, <1>5, <1>6, <1>7, <1>8, <1>9 DEF r

-----------------------------------------------------------------------------
\* A call begins

\* What the calls that encode a command have in common.
Starts(t, name, cmd, immediate) ==
  /\ Encode(t, name, cmd, immediate,
            IF batch_enabled /\ batch_recording' THEN batch_enc' ELSE <<>>)
  /\ UNCHANGED <<modeVars, ring_tried, ring_ready, rec, step, refused, host, ringVars>>

LEMMA EncBeginStarts ==
  ASSUME NEW t, NEW name, NEW cmd, NEW immediate, EncBegin(t, name, cmd, immediate)
  PROVE  Starts(t, name, cmd, immediate) /\ UNCHANGED <<windowVars, rounds>>
<1>1. UNCHANGED <<windowVars, rounds>>
  BY DEF EncBegin
<1>2. batch_recording' = batch_recording /\ batch_enc' = batch_enc
  BY <1>1 DEF windowVars
<1>3. Encode(t, name, cmd, immediate,
             IF batch_enabled /\ batch_recording' THEN batch_enc' ELSE <<>>)
  BY <1>2 DEF EncBegin, batch_active
<1> QED
  BY <1>1, <1>3 DEF EncBegin, Starts

LEMMA StartsThreads ==
  ASSUME CallInv, NEW t \in Threads, NEW name \in Names, NEW cmd \in Commands,
         NEW immediate \in BOOLEAN, Starts(t, name, cmd, immediate),
         batch_enc' \in Seq(Commands)
  PROVE  /\ ThreadsOK' /\ JobsOK' /\ LockInv'
         /\ lock = Nobody /\ lock' = t
         /\ pc'[t] = "encoded" /\ call'[t].name = name /\ (call'[t].immediate <=> immediate)
         /\ enc'[t] = Append(Behind(t)', cmd)
         /\ \A u \in Threads \ {t} : pc'[u] = pc[u] /\ call'[u] = call[u] /\ enc'[u] = enc[u]
         /\ \A u \in Threads : pc[u] \notin {"encoded", "writing", "ending"}
         /\ rec' = rec /\ step' = step /\ ring_ready' = ring_ready
<1> DEFINE b == IF batch_enabled /\ batch_recording' THEN batch_enc' ELSE <<>>
           e == Append(IF immediate THEN <<>> ELSE b, cmd)
<1>1. b \in Seq(Commands)
  OBVIOUS
<1>2. e \in Seq(Commands)
  BY <1>1
<1>3. /\ lock = Nobody /\ lock' = t /\ enc' = [enc EXCEPT ![t] = e]
      /\ call' = [call EXCEPT ![t] = [name |-> name, immediate |-> immediate]]
      /\ pc' = [pc EXCEPT ![t] = "encoded"]
      /\ batch_enabled' = batch_enabled
  BY DEF Starts, Encode, modeVars
<1>4. rec' = rec /\ step' = step /\ ring_ready' = ring_ready
  BY DEF Starts
<1>5. ThreadsOK /\ JobsOK /\ LockInv
  BY TypeParts DEF CallInv
<1>6. call'[t] = [name |-> name, immediate |-> immediate]
  BY <1>3, <1>5 DEF ThreadsOK
<1>7. e = Append(Behind(t)', cmd)
  BY <1>3, <1>6 DEF Behind, batch_active
<1> HIDE DEF b, e
<1>8. /\ pc'[t] = "encoded" /\ enc'[t] = e
      /\ \A u \in Threads \ {t} : pc'[u] = pc[u] /\ call'[u] = call[u] /\ enc'[u] = enc[u]
  BY <1>3, <1>5 DEF ThreadsOK
<1>9. \A u \in Threads : pc[u] \notin {"encoded", "writing", "ending"}
  BY <1>3, <1>5, VulkanDispatchAssumption DEF LockInv
<1>10. ThreadsOK'
  <2>1. pc' \in [Threads -> Places]
    BY <1>3, <1>5 DEF ThreadsOK, Places
  <2>2. [name |-> name, immediate |-> immediate] \in [name : Names, immediate : BOOLEAN]
    OBVIOUS
  <2>3. call' \in [Threads -> [name : Names, immediate : BOOLEAN]]
    BY <1>3, <1>5, <2>2 DEF ThreadsOK
  <2>4. enc' \in [Threads -> Seq(Commands)]
    BY <1>2, <1>3, <1>5 DEF ThreadsOK
  <2> QED
    BY <1>3, <2>1, <2>3, <2>4 DEF ThreadsOK
<1>11. JobsOK'
  BY <1>4, <1>5 DEF JobsOK
<1>12. LockInv'
  BY <1>3, <1>8, <1>9 DEF LockInv
<1> QED
  BY <1>3, <1>4, <1>6, <1>7, <1>8, <1>9, <1>10, <1>11, <1>12

\* What concerns a thread changes only with that thread.
LEMMA RecorderKept ==
  ASSUME NEW c \in CmdBufs, RecorderInv(c), pc'[c] = pc[c], call'[c] = call[c],
         rec'[c] = rec[c], issued'[c] = issued[c], rounds'[c] = rounds[c],
         ring_ready => ring_ready'
  PROVE  RecorderInv(c)'
BY DEF RecorderInv, Budget, MayBegin

LEMMA WorkerKept ==
  ASSUME NEW w \in Workers, WorkerInv(w), pc'[w] = pc[w], call'[w] = call[w],
         step'[w] = step[w]
  PROVE  WorkerInv(w)'
BY DEF WorkerInv

LEMMA StartsKeeps ==
  ASSUME CallInv, NEW t \in Threads, NEW name \in Names, NEW cmd \in Commands,
         NEW immediate \in BOOLEAN, Starts(t, name, cmd, immediate),
         ModesOK', BooksOK', batch_enc' \in Seq(Commands), cmd \in CallCmds(t)',
         t \in CmdBufs => RecorderInv(t)', t \in Workers => WorkerInv(t)',
         \A c \in CmdBufs \ {t} : issued'[c] = issued[c] /\ rounds'[c] = rounds[c]
  PROVE  CallInv'
<1>1. /\ ThreadsOK' /\ JobsOK' /\ LockInv'
      /\ pc'[t] = "encoded" /\ enc'[t] = Append(Behind(t)', cmd)
      /\ \A u \in Threads \ {t} : pc'[u] = pc[u] /\ call'[u] = call[u] /\ enc'[u] = enc[u]
      /\ \A u \in Threads : pc[u] \notin {"encoded", "writing", "ending"}
      /\ rec' = rec /\ step' = step /\ ring_ready' = ring_ready
  BY StartsThreads
<1>2. /\ offer' = offer /\ draft' = draft /\ pending' = pending /\ running' = running
      /\ host' = host
  BY DEF Starts, ringVars
<1>3. TypeOK /\ CallsInv /\ EncInv /\ OfferInv
  BY DEF CallInv
<1>4. CallsInv'
  <2>1. ASSUME NEW c \in CmdBufs PROVE RecorderInv(c)'
    <3>1. CASE c = t
      BY <3>1
    <3>2. CASE c # t
      <4>1. c \in Threads \ {t} /\ RecorderInv(c)
        BY <1>3, <3>2, WhoIsWho DEF CallsInv
      <4> QED
        BY <1>1, <3>2, <4>1, RecorderKept
    <3> QED
      BY <3>1, <3>2
  <2>2. ASSUME NEW w \in Workers PROVE WorkerInv(w)'
    <3>1. CASE w = t
      BY <3>1
    <3>2. CASE w # t
      <4>1. w \in Threads \ {t} /\ WorkerInv(w)
        BY <1>3, <3>2, WhoIsWho DEF CallsInv
      <4> QED
        BY <1>1, <4>1, WorkerKept
    <3> QED
      BY <3>1, <3>2
  <2> QED
    BY <2>1, <2>2 DEF CallsInv
<1>5. EncInv'
  <2>1. \A u \in Threads \ {t} : pc'[u] \notin InCall
    BY <1>1 DEF InCall
  <2>2. \E x \in CallCmds(t)' : enc'[t] = Append(Behind(t)', x)
    BY <1>1
  <2> QED
    BY <2>1, <2>2 DEF EncInv
<1>6. OfferInv'
  <2>1. \A u \in Threads : pc'[u] # "writing" /\ pc[u] # "writing"
    BY <1>1
  <2> QED
    BY <1>1, <1>2, <1>3, <2>1 DEF OfferInv
<1>7. QueuesOK' /\ host' \in HostType
  BY <1>2, <1>3, TypeParts DEF QueuesOK
<1>8. TypeOK'
  <2>1. ModesOK' /\ ThreadsOK' /\ JobsOK' /\ BooksOK' /\ QueuesOK' /\ host' \in HostType
          /\ OfferInv'
    BY <1>1, <1>6, <1>7
  <2> QED
    BY <2>1, TypePartsNext
<1> QED
  BY <1>1, <1>4, <1>5, <1>6, <1>8 DEF CallInv

LEMMA BeginStarts ==
  ASSUME NEW c \in CmdBufs, Begin(c)
  PROVE  Starts(c, "Begin", NextOf(c, {}), FALSE)
BY DEF Begin, Starts

LEMMA BeginKeeps ==
  ASSUME CallInv, NEW c \in CmdBufs, Begin(c)
  PROVE  CallInv'
<1> DEFINE cmd == NextOf(c, {})
<1>1. /\ TypeOK /\ ModesOK /\ BooksOK /\ RecorderInv(c) /\ c \in Threads /\ c \notin Workers
      /\ batch_enc \in Seq(Commands)
  BY TypeParts, WhoIsWho DEF CallInv, CallsInv, QueuesOK
<1>2. /\ pc[c] \in {"begin", "idle"} /\ MayBegin(c)
      /\ Issue(c) /\ rounds' = [rounds EXCEPT ![c] = @ + 1]
      /\ UNCHANGED <<modeVars, ring_tried, ring_ready, rec, step, refused, host, ringVars>>
  BY DEF Begin
<1>3. /\ batch_enc' \in {batch_enc, <<>>}
      /\ ring_recording' = (ring_recording \/ ring_ready)
      /\ batch_recording' = (batch_recording \/ (~ring_ready /\ batch_enabled))
  BY <1>1 DEF Begin, ModesOK
<1>4. /\ MaxIssued \in Nat /\ Budget(c) \in Nat /\ issued[c] \in Nat /\ rounds[c] \in Nat
      /\ (rounds[c] + 1) * (MaxCmds + 2) = Budget(c) + MaxCmds + 2
      /\ rounds[c] < MaxRounds => Budget(c) + MaxCmds + 2 <= MaxIssued
      /\ MaxCmds \in Nat /\ MaxRounds \in Nat
  BY <1>1, Budgets, VulkanDispatchAssumption
<1>5. rec[c] \in {"idle", "submitted"} /\ rounds[c] < MaxRounds
  BY <1>2 DEF MayBegin
<1>6. issued[c] <= Budget(c)
  BY <1>1 DEF RecorderInv
<1>7. issued[c] + 1 \in 1..MaxIssued /\ issued[c] + 1 < Budget(c) + MaxCmds + 2
  <2> DEFINE b == Budget(c)
             n == issued[c]
  <2>1. MaxIssued \in Nat /\ b \in Nat /\ n \in Nat /\ MaxCmds \in Nat
    BY <1>4
  <2>2. b + MaxCmds + 2 <= MaxIssued /\ n <= b
    BY <1>4, <1>5, <1>6
  <2> HIDE DEF b, n
  <2>3. n + 1 \in 1..MaxIssued /\ n + 1 < b + MaxCmds + 2
    BY ONLY <2>1, <2>2
  <2> QED
    BY ONLY <2>3 DEF b, n
<1>8. cmd \in Commands
  BY <1>7, RecorderCommands DEF NextOf, UsesOf
<1>9. /\ issued'[c] = issued[c] + 1 /\ rounds'[c] = rounds[c] + 1
      /\ \A d \in CmdBufs \ {c} : issued'[d] = issued[d] /\ rounds'[d] = rounds[d]
      /\ issued' \in [CmdBufs -> 0..MaxIssued] /\ rounds' \in [CmdBufs -> 0..MaxRounds]
  <2>1. /\ issued' = [issued EXCEPT ![c] = @ + 1] /\ rounds' = [rounds EXCEPT ![c] = @ + 1]
        /\ issued \in [CmdBufs -> 0..MaxIssued] /\ rounds \in [CmdBufs -> 0..MaxRounds]
    BY <1>1, <1>2 DEF BooksOK, Issue
  <2>2. issued[c] + 1 \in 0..MaxIssued /\ rounds[c] + 1 \in 0..MaxRounds
    BY ONLY <1>4, <1>5, <1>7
  <2> QED
    BY ONLY <2>1, <2>2, c \in CmdBufs
<1>10. BooksOK'
  BY <1>1, <1>2, <1>9 DEF BooksOK
<1>11. ModesOK'
  BY <1>1, <1>2, <1>3 DEF ModesOK, modeVars, ringVars
<1>12. batch_enc' \in Seq(Commands)
  <2>1. <<>> \in Seq(Commands)
    OBVIOUS
  <2> QED
    BY <1>1, <1>3, <2>1
<1>13. Starts(c, "Begin", cmd, FALSE)
  BY BeginStarts
<1> HIDE DEF cmd
<1>14. /\ pc'[c] = "encoded" /\ call'[c].name = "Begin" /\ ~call'[c].immediate /\ rec' = rec
       /\ step' = step
  <2>1. "Begin" \in Names /\ FALSE \in BOOLEAN
    BY DEF Names
  <2> QED
    BY <1>1, <1>8, <1>12, <1>13, <2>1, StartsThreads
<1>15. RecorderInv(c)'
  <2>1. Budget(c)' = Budget(c) + MaxCmds + 2
    BY <1>4, <1>9 DEF Budget
  <2>2. issued'[c] < Budget(c)' /\ issued'[c] <= Budget(c)'
    BY <1>4, <1>7, <1>9, <2>1
  <2> QED
    BY <1>5, <1>14, <2>2 DEF RecorderInv, InCall
<1>16. cmd \in CallCmds(c)'
  BY <1>1, <1>9, <1>14 DEF CallCmds, cmd, NextOf, UsesOf
<1> QED
  <2>1. "Begin" \in Names /\ FALSE \in BOOLEAN
    BY DEF Names
  <2> QED
    BY <1>1, <1>8, <1>9, <1>10, <1>11, <1>12, <1>13, <1>15, <1>16, <2>1, StartsKeeps

\* A command recorded with the batch and the ring's window as they are.
LEMMA RecordsKeeps ==
  ASSUME CallInv, NEW c \in CmdBufs, NEW name \in {"Cmd", "End"}, NEW uses \in UsesOf,
         pc[c] = "idle", rec[c] = "open",
         name = "Cmd" => issued[c] + 1 < Budget(c),
         EncBegin(c, name, NextOf(c, uses), FALSE), Issue(c)
  PROVE  CallInv'
<1> DEFINE cmd == NextOf(c, uses)
<1>1. /\ TypeOK /\ ModesOK /\ BooksOK /\ RecorderInv(c) /\ c \in Threads /\ c \notin Workers
      /\ batch_enc \in Seq(Commands)
  BY TypeParts, WhoIsWho DEF CallInv, CallsInv, QueuesOK
<1>2. Starts(c, name, cmd, FALSE) /\ UNCHANGED <<windowVars, rounds>>
  BY EncBeginStarts
<1>3. /\ MaxIssued \in Nat /\ Budget(c) \in Nat /\ issued[c] \in Nat /\ Budget(c) <= MaxIssued
  BY <1>1, Budgets
<1>4. issued[c] < Budget(c)
  BY <1>1 DEF RecorderInv
<1>5. issued[c] + 1 \in 1..MaxIssued
  BY <1>3, <1>4
<1>6. cmd \in Commands
  BY <1>5, RecorderCommands DEF NextOf
<1>7. /\ issued'[c] = issued[c] + 1 /\ rounds' = rounds
      /\ \A d \in CmdBufs \ {c} : issued'[d] = issued[d]
      /\ issued' \in [CmdBufs -> 0..MaxIssued]
  BY <1>1, <1>2, <1>3, <1>5 DEF BooksOK, Issue
<1>8. BooksOK'
  BY <1>1, <1>2, <1>7 DEF BooksOK, Starts
<1>9. ModesOK' /\ batch_enc' \in Seq(Commands)
  BY <1>1, <1>2 DEF ModesOK, Starts, modeVars, ringVars, windowVars
<1> HIDE DEF cmd
<1>10. name \in Names /\ FALSE \in BOOLEAN
  BY DEF Names
<1>11. /\ pc'[c] = "encoded" /\ call'[c].name = name /\ ~call'[c].immediate /\ rec' = rec
       /\ step' = step
  BY <1>1, <1>2, <1>6, <1>9, <1>10, StartsThreads
<1>12. RecorderInv(c)'
  <2>1. Budget(c)' = Budget(c)
    BY <1>7 DEF Budget
  <2>2. issued'[c] <= Budget(c)' /\ (name = "Cmd" => issued'[c] < Budget(c)')
    BY <1>3, <1>4, <1>7, <2>1
  <2>3. pc'[c] \in InCall /\ rec'[c] = "open"
    BY <1>11 DEF InCall
  <2> QED
    BY <1>11, <2>2, <2>3 DEF RecorderInv
<1>13. cmd \in CallCmds(c)'
  BY <1>1, <1>7, <1>11 DEF CallCmds, cmd, NextOf, UsesOf
<1>14. \A d \in CmdBufs \ {c} : issued'[d] = issued[d] /\ rounds'[d] = rounds[d]
  BY <1>7
<1> QED
  BY <1>1, <1>2, <1>6, <1>8, <1>9, <1>10, <1>12, <1>13, <1>14, StartsKeeps

LEMMA CmdKeeps ==
  ASSUME CallInv, NEW c \in CmdBufs, Cmd(c)
  PROVE  CallInv'
<1>1. PICK uses \in UsesOf : EncBegin(c, "Cmd", NextOf(c, uses), FALSE)
  BY DEF Cmd, UsesOf
<1>2. pc[c] = "idle" /\ rec[c] = "open" /\ issued[c] + 1 < Budget(c) /\ Issue(c)
  BY DEF Cmd, Budget
<1> QED
  BY <1>1, <1>2, RecordsKeeps

LEMMA EndKeeps ==
  ASSUME CallInv, NEW c \in CmdBufs, End(c)
  PROVE  CallInv'
<1>1. {} \in UsesOf
  BY DEF UsesOf
<1>2. /\ EncBegin(c, "End", NextOf(c, {}), FALSE) /\ Issue(c)
      /\ pc[c] = "idle" /\ rec[c] = "open"
  BY DEF End
<1> QED
  BY <1>1, <1>2, RecordsKeeps

LEMMA QueueSubmitKeeps ==
  ASSUME CallInv, NEW c \in CmdBufs, QueueSubmit(c)
  PROVE  CallInv'
<1>1. /\ TypeOK /\ ModesOK /\ BooksOK /\ RecorderInv(c) /\ c \in Threads /\ c \notin Workers
      /\ batch_enc \in Seq(Commands)
  BY TypeParts, WhoIsWho DEF CallInv, CallsInv, QueuesOK
<1>2. /\ Starts(c, "QueueSubmit", Submit(c), FALSE) /\ UNCHANGED <<windowVars, rounds>>
      /\ issued' = issued /\ rec[c] = "ended"
  BY EncBeginStarts DEF QueueSubmit
<1>3. Submit(c) \in Commands
  BY RecorderCommands
<1>4. BooksOK'
  BY <1>1, <1>2 DEF BooksOK, Starts
<1>5. ModesOK' /\ batch_enc' \in Seq(Commands)
  BY <1>1, <1>2 DEF ModesOK, Starts, modeVars, ringVars, windowVars
<1>6. "QueueSubmit" \in Names /\ FALSE \in BOOLEAN
  BY DEF Names
<1>7. /\ pc'[c] = "encoded" /\ call'[c].name = "QueueSubmit" /\ ~call'[c].immediate
      /\ rec' = rec /\ step' = step
  BY <1>1, <1>2, <1>3, <1>5, <1>6, StartsThreads
<1>8. RecorderInv(c)'
  <2>1. issued'[c] <= Budget(c)'
    BY <1>1, <1>2 DEF Budget, RecorderInv
  <2>2. pc'[c] \in InCall /\ rec'[c] = "ended"
    BY <1>2, <1>7 DEF InCall
  <2> QED
    BY <1>7, <2>1, <2>2 DEF RecorderInv
<1>9. Submit(c) \in CallCmds(c)'
  BY <1>1, <1>7 DEF CallCmds
<1>10. \A d \in CmdBufs \ {c} : issued'[d] = issued[d] /\ rounds'[d] = rounds[d]
  BY <1>2
<1> QED
  BY <1>1, <1>2, <1>3, <1>4, <1>5, <1>6, <1>8, <1>9, <1>10, StartsKeeps

\* A call of a compiler or an allocator.
LEMMA JobsKeep ==
  ASSUME CallInv, NEW w \in Workers, NEW immediate \in BOOLEAN, step[w] < JobLength(w),
         immediate <=> Bypasses(JobCall(w, step[w])),
         EncBegin(w, "job", JobCall(w, step[w]), immediate), issued' = issued
  PROVE  CallInv'
<1> DEFINE cmd == JobCall(w, step[w])
<1>1. /\ TypeOK /\ ModesOK /\ BooksOK /\ JobsOK /\ WorkerInv(w)
      /\ w \in Threads /\ w \notin CmdBufs /\ batch_enc \in Seq(Commands)
  BY TypeParts, WhoIsWho DEF CallInv, CallsInv, QueuesOK
<1>2. Starts(w, "job", cmd, immediate) /\ UNCHANGED <<windowVars, rounds>>
  BY EncBeginStarts
<1>3. cmd \in Commands
  BY <1>1, JobCommands DEF JobsOK
<1>4. BooksOK'
  BY <1>1, <1>2 DEF BooksOK, Starts
<1>5. ModesOK' /\ batch_enc' \in Seq(Commands)
  BY <1>1, <1>2 DEF ModesOK, Starts, modeVars, ringVars, windowVars
<1> HIDE DEF cmd
<1>6. "job" \in Names
  BY DEF Names
<1>7. /\ pc'[w] = "encoded" /\ call'[w].name = "job" /\ (call'[w].immediate <=> immediate)
      /\ step' = step
  BY <1>1, <1>2, <1>3, <1>5, <1>6, StartsThreads
<1>8. WorkerInv(w)'
  BY <1>7 DEF WorkerInv, InCall
<1>9. cmd \in CallCmds(w)'
  BY <1>7 DEF CallCmds, cmd
<1>10. \A d \in CmdBufs \ {w} : issued'[d] = issued[d] /\ rounds'[d] = rounds[d]
  BY <1>2
<1> QED
  BY <1>1, <1>2, <1>3, <1>4, <1>5, <1>6, <1>8, <1>9, <1>10, StartsKeeps

LEMMA JobKeeps ==
  ASSUME CallInv, NEW w \in Workers, Job(w)
  PROVE  CallInv'
<1>1. Bypasses(JobCall(w, step[w])) \in BOOLEAN
  BY DEF Bypasses
<1> QED
  BY <1>1, JobsKeep DEF Job

LEMMA AllocateEncodedKeeps ==
  ASSUME CallInv, NEW w \in Workers, AllocateEncoded(w)
  PROVE  CallInv'
<1>1. WorkerInv(w)
  BY DEF CallInv, CallsInv
<1>2. w \in Allocators /\ w \notin Compilers /\ step[w] = 1
  BY <1>1, WhoIsWho DEF WorkerInv, AllocateEncoded
<1>3. step[w] < JobLength(w)
  BY <1>2 DEF JobLength
<1>4. ~Bypasses(JobCall(w, step[w]))
  BY <1>2 DEF Bypasses, JobCall, Create, Of
<1>5. EncBegin(w, "job", JobCall(w, step[w]), FALSE) /\ issued' = issued
  BY <1>2 DEF AllocateEncoded
<1> QED
  BY <1>3, <1>4, <1>5, JobsKeep

-----------------------------------------------------------------------------
\* A call ends

\* What the submissions have in common.
Returns(t) ==
  /\ pc[t] \in InCall
  /\ Return(t)
  /\ UNCHANGED <<modeVars, batch_recording, ring_recording, ring_tried, ring_ready,
                 issued, rounds>>

LEMMA ReturnsThreads ==
  ASSUME CallInv, NEW t \in Threads, Returns(t)
  PROVE  /\ ThreadsOK' /\ LockInv' /\ EncInv'
         /\ lock = t /\ enc'[t] = <<>>
         /\ \A u \in Threads \ {t} : pc'[u] = pc[u] /\ call'[u] = call[u] /\ enc'[u] = enc[u]
         /\ \A u \in Threads : pc'[u] \notin InCall
         /\ \A u \in Threads \ {t} : pc[u] \notin {"encoded", "writing", "ending"}
<1>1. /\ ThreadsOK /\ LockInv
  BY TypeParts DEF CallInv
<1>2. lock = t /\ \A u \in Threads \ {t} : pc[u] \notin {"encoded", "writing", "ending"}
  BY <1>1 DEF Returns, LockInv, InCall
<1>3. PICK p \in {"ending", "flushing", "idle"} :
         /\ pc' = [pc EXCEPT ![t] = p]
         /\ lock' = IF p = "ending" THEN t ELSE Nobody
  BY <1>2 DEF Returns, Return, Unlock
<1>4. enc' = [enc EXCEPT ![t] = <<>>] /\ call' = [call EXCEPT ![t] = NoCall]
  BY DEF Returns, Return
<1>5. /\ pc'[t] = p /\ enc'[t] = <<>>
      /\ \A u \in Threads \ {t} : pc'[u] = pc[u] /\ call'[u] = call[u] /\ enc'[u] = enc[u]
  BY <1>1, <1>3, <1>4 DEF ThreadsOK
<1>6. ThreadsOK'
  <2>1. pc' \in [Threads -> Places]
    BY <1>1, <1>3 DEF ThreadsOK, Places
  <2>2. NoCall \in [name : Names, immediate : BOOLEAN]
    BY DEF NoCall, Names
  <2>3. call' \in [Threads -> [name : Names, immediate : BOOLEAN]]
    BY <1>1, <1>4, <2>2 DEF ThreadsOK
  <2>4. <<>> \in Seq(Commands)
    OBVIOUS
  <2>5. enc' \in [Threads -> Seq(Commands)]
    BY <1>1, <1>4, <2>4 DEF ThreadsOK
  <2> QED
    BY <1>3, <2>1, <2>3, <2>5 DEF ThreadsOK
<1>7. \A u \in Threads : pc'[u] \notin InCall
  BY <1>2, <1>5 DEF InCall
<1>8. LockInv'
  BY <1>2, <1>3, <1>5, VulkanDispatchAssumption DEF LockInv
<1>9. EncInv'
  BY <1>7 DEF EncInv
<1> QED
  BY <1>2, <1>5, <1>6, <1>7, <1>8, <1>9

\* What a call of a recorder leaves behind.
LEMMA RecorderReturns ==
  ASSUME CallInv, NEW c \in CmdBufs, Returns(c)
  PROVE  /\ JobsOK' /\ CallsInv'
         /\ step' = step
         /\ \A d \in CmdBufs \ {c} : rec'[d] = rec[d]
         /\ call[c].name \in {"Begin", "Cmd"} => rec'[c] = "open" /\ pc'[c] = "idle"
         /\ call[c].name = "End" => rec'[c] = "open" /\ pc'[c] = "ending"
         /\ call[c].name = "QueueSubmit" =>
              IF ring_ready THEN rec'[c] = "ended" /\ pc'[c] = "flushing"
                            ELSE rec'[c] = "submitted" /\ pc'[c] = "idle"
<1>1. /\ ThreadsOK /\ JobsOK /\ RecorderInv(c) /\ CallsInv /\ c \in Threads /\ c \notin Workers
  BY TypeParts, WhoIsWho DEF CallInv, CallsInv
<1>2. pc[c] \in InCall /\ Unlock(c) /\ UNCHANGED <<ring_ready, issued, rounds>>
  BY DEF Returns, Return
<1>3. call[c].name \in {"Begin", "Cmd", "End", "QueueSubmit"}
  BY <1>1, <1>2 DEF RecorderInv
<1>4. step' = step
  BY <1>1, <1>2, <1>3 DEF Unlock
<1>5. /\ call[c].name = "Begin" => rec' = [rec EXCEPT ![c] = "open"] /\ pc' = [pc EXCEPT ![c] = "idle"]
      /\ call[c].name = "Cmd" => rec' = rec /\ pc' = [pc EXCEPT ![c] = "idle"]
      /\ call[c].name = "End" => rec' = rec /\ pc' = [pc EXCEPT ![c] = "ending"]
      /\ call[c].name = "QueueSubmit" =>
           IF ring_ready THEN rec' = rec /\ pc' = [pc EXCEPT ![c] = "flushing"]
                         ELSE rec' = [rec EXCEPT ![c] = "submitted"]
                                /\ pc' = [pc EXCEPT ![c] = "idle"]
  BY <1>2 DEF Unlock
<1>6. /\ \A d \in CmdBufs \ {c} : rec'[d] = rec[d]
      /\ rec' \in [CmdBufs -> {"idle", "open", "ended", "submitted"}]
  BY <1>1, <1>3, <1>5 DEF JobsOK
<1>7. /\ call[c].name \in {"Begin", "Cmd"} => rec'[c] = "open" /\ pc'[c] = "idle"
      /\ call[c].name = "End" => rec'[c] = "open" /\ pc'[c] = "ending"
      /\ call[c].name = "QueueSubmit" =>
           IF ring_ready THEN rec'[c] = "ended" /\ pc'[c] = "flushing"
                         ELSE rec'[c] = "submitted" /\ pc'[c] = "idle"
  BY <1>1, <1>2, <1>5 DEF JobsOK, ThreadsOK, RecorderInv
<1>8. JobsOK'
  BY <1>1, <1>4, <1>6 DEF JobsOK
<1>9. \A u \in Threads \ {c} : pc'[u] = pc[u] /\ call'[u] = call[u]
  BY <1>1, ReturnsThreads
<1>10. CallsInv'
  <2>1. ASSUME NEW d \in CmdBufs PROVE RecorderInv(d)'
    <3>1. CASE d = c
      <4>1. issued'[c] <= Budget(c)' /\ Budget(c)' = Budget(c) /\ issued'[c] = issued[c]
        BY <1>1, <1>2 DEF RecorderInv, Budget
      <4>2. pc'[c] \in {"idle", "ending", "flushing"}
        BY <1>3, <1>7
      <4>3. pc'[c] = "idle" /\ rec'[c] = "open" => issued'[c] < Budget(c)'
        BY <1>1, <1>2, <1>3, <1>7, <4>1 DEF RecorderInv
      <4>4. pc'[c] = "ending" => rec'[c] = "open"
        BY <1>3, <1>7
      <4>5. pc'[c] = "flushing" => rec'[c] = "ended" /\ ring_ready'
        BY <1>2, <1>3, <1>7
      <4> QED
        BY <3>1, <4>1, <4>2, <4>3, <4>4, <4>5 DEF RecorderInv, InCall
    <3>2. CASE d # c
      <4>1. d \in Threads \ {c} /\ RecorderInv(d)
        BY <1>1, <3>2, WhoIsWho DEF CallsInv
      <4>2. pc'[d] = pc[d] /\ call'[d] = call[d] /\ rec'[d] = rec[d]
        BY <1>6, <1>9, <3>2, <4>1
      <4>3. issued'[d] = issued[d] /\ rounds'[d] = rounds[d] /\ ring_ready' = ring_ready
        BY <1>2
      <4> QED
        BY <4>1, <4>2, <4>3, RecorderKept
    <3> QED
      BY <3>1, <3>2
  <2>2. ASSUME NEW w \in Workers PROVE WorkerInv(w)'
    <3>1. w \in Threads \ {c} /\ WorkerInv(w)
      BY <1>1, WhoIsWho DEF CallsInv
    <3> QED
      BY <1>4, <1>9, <3>1, WorkerKept
  <2> QED
    BY <2>1, <2>2 DEF CallsInv
<1> QED
  BY <1>4, <1>6, <1>7, <1>8, <1>10

\* ... and one of a compiler or an allocator: its job is a step further.
LEMMA WorkerReturns ==
  ASSUME CallInv, NEW w \in Workers, Returns(w)
  PROVE  /\ JobsOK' /\ CallsInv'
         /\ rec' = rec /\ step' = [step EXCEPT ![w] = step[w] + 1]
         /\ pc'[w] = "idle" /\ step[w] < JobLength(w)
<1>1. /\ ThreadsOK /\ JobsOK /\ WorkerInv(w) /\ CallsInv /\ w \in Threads /\ w \notin CmdBufs
  BY TypeParts, WhoIsWho DEF CallInv, CallsInv
<1>2. pc[w] \in InCall /\ Unlock(w) /\ UNCHANGED <<ring_ready, issued, rounds>>
  BY DEF Returns, Return
<1>3. call[w].name = "job" /\ step[w] < JobLength(w)
  BY <1>1, <1>2 DEF WorkerInv
<1>4. /\ rec' = rec /\ step' = [step EXCEPT ![w] = step[w] + 1]
      /\ pc' = [pc EXCEPT ![w] = "idle"]
  BY <1>2, <1>3 DEF Unlock
<1>5. pc'[w] = "idle"
  BY <1>1, <1>4 DEF ThreadsOK
<1>6. JobsOK'
  <2>1. JobLength(w) \in 3..4 /\ step[w] \in 0..4
    BY <1>1 DEF JobLength, JobsOK
  <2>2. step[w] + 1 \in 0..4 /\ step[w] + 1 <= JobLength(w)
    BY <1>3, <2>1
  <2> QED
    BY <1>1, <1>4, <2>2 DEF JobsOK
<1>7. \A u \in Threads \ {w} : pc'[u] = pc[u] /\ call'[u] = call[u]
  BY <1>1, ReturnsThreads
<1>8. CallsInv'
  <2>1. ASSUME NEW c \in CmdBufs PROVE RecorderInv(c)'
    <3>1. c \in Threads \ {w} /\ RecorderInv(c)
      BY <1>1, WhoIsWho DEF CallsInv
    <3> QED
      BY <1>2, <1>4, <1>7, <3>1, RecorderKept
  <2>2. ASSUME NEW v \in Workers PROVE WorkerInv(v)'
    <3>1. CASE v = w
      BY <1>5, <3>1 DEF WorkerInv, InCall
    <3>2. CASE v # w
      <4>1. v \in Threads \ {w} /\ WorkerInv(v)
        BY <1>1, <3>2, WhoIsWho DEF CallsInv
      <4>2. step'[v] = step[v]
        BY <1>1, <1>4, <3>2 DEF JobsOK
      <4> QED
        BY <1>7, <4>1, <4>2, WorkerKept
    <3> QED
      BY <3>1, <3>2
  <2> QED
    BY <2>1, <2>2 DEF CallsInv
<1> QED
  BY <1>3, <1>4, <1>5, <1>6, <1>8

LEMMA AnyReturns ==
  ASSUME CallInv, NEW t \in Threads, Returns(t)
  PROVE  JobsOK' /\ CallsInv'
BY WhoIsWho, RecorderReturns, WorkerReturns

LEMMA EncodedIs ==
  ASSUME CallInv, NEW t \in Threads, pc[t] \in InCall
  PROVE  /\ Behind(t) \in Seq(Commands) /\ enc[t] \in Seq(Commands)
         /\ \E cmd \in CallCmds(t) :
              cmd \in Commands /\ enc[t] = Append(Behind(t), cmd) /\ Last(enc[t]) = cmd
<1>1. /\ enc[t] \in Seq(Commands) /\ batch_enc \in Seq(Commands)
  BY TypeParts DEF CallInv, ThreadsOK, QueuesOK
<1>2. PICK cmd \in CallCmds(t) : enc[t] = Append(Behind(t), cmd)
  BY DEF CallInv, EncInv
<1>3. <<>> \in Seq(Commands)
  OBVIOUS
<1>4. Behind(t) \in Seq(Commands)
  BY <1>1, <1>3 DEF Behind
<1> DEFINE e == enc[t]
           b == Behind(t)
<1> HIDE DEF e, b
<1>5. e \in Seq(Commands) /\ b \in Seq(Commands) /\ e = Append(b, cmd)
  BY <1>1, <1>2, <1>4 DEF e, b
<1>6. Len(e) = Len(b) + 1 /\ Len(e) \in 1..Len(e) /\ e[Len(e)] = cmd
  BY <1>5
<1>7. cmd \in Commands /\ Last(e) = cmd
  BY <1>5, <1>6 DEF Last
<1> QED
  BY <1>1, <1>2, <1>4, <1>7 DEF e, b

\* Nothing is offered once the only thread that holds the lock is not writing.
LEMMA NoOffer ==
  ASSUME CallInv, NEW t \in Threads, pc[t] = "encoded"
  PROVE  offer = <<>>
<1>1. lock = t /\ \A u \in Threads : pc[u] = "writing" => lock = u
  BY DEF CallInv, LockInv
<1> QED
  BY <1>1 DEF CallInv, OfferInv

LEMMA RingLengths ==
  ASSUME QueuesOK, OfferInv
  PROVE  /\ Len(draft) \in Nat /\ Len(pending) \in Nat /\ Len(running) \in Nat
         /\ Len(offer) \in Nat /\ RingSize \in Nat
         /\ Len(draft) + Len(pending) + Len(running) + Len(offer) <= RingSize
BY VulkanDispatchAssumption DEF QueuesOK, OfferInv

\* A submission that leaves the ring alone.
LEMMA ReturnKeeps ==
  ASSUME CallInv, NEW t \in Threads, Returns(t), pc[t] = "encoded", ringVars' = ringVars,
         batch_enc' \in Seq(Commands), host' \in HostType,
         refused' \in [CmdBufs -> SUBSET (1..MaxIssued)]
  PROVE  CallInv'
<1>1. ModesOK /\ BooksOK /\ QueuesOK /\ OfferInv /\ offer = <<>>
  BY TypeParts, NoOffer DEF CallInv
<1>2. /\ open' = open /\ offer' = offer /\ draft' = draft /\ pending' = pending
      /\ running' = running
  BY DEF ringVars
<1>3. /\ UNCHANGED <<batch_recording, ring_recording, ring_tried, ring_ready, issued, rounds>>
      /\ batch_enabled' = batch_enabled /\ ring_want' = ring_want
  BY DEF Returns, modeVars
<1>4. ModesOK' /\ BooksOK' /\ QueuesOK'
  BY <1>1, <1>2, <1>3 DEF ModesOK, BooksOK, QueuesOK
<1>5. ThreadsOK' /\ LockInv' /\ EncInv' /\ \A u \in Threads : pc'[u] \notin InCall
  BY ReturnsThreads
<1>6. JobsOK' /\ CallsInv'
  BY AnyReturns
<1>7. OfferInv'
  BY <1>1, <1>2, <1>3, <1>5 DEF OfferInv, InCall
<1>8. TypeOK'
  BY <1>4, <1>5, <1>6, <1>7, TypePartsNext
<1> QED
  BY <1>5, <1>6, <1>7, <1>8 DEF CallInv

LEMMA SubmitAloneKeeps ==
  ASSUME CallInv, NEW t \in Threads, SubmitAlone(t)
  PROVE  CallInv'
<1>1. Returns(t) /\ pc[t] = "encoded" /\ ringVars' = ringVars
        /\ batch_enc' = batch_enc /\ refused' = refused /\ host' = HostRuns(host, enc[t])
  BY DEF SubmitAlone, Returns, InCall, windowVars, bookVars
<1>2. /\ enc[t] \in Seq(Commands) /\ host \in HostType /\ batch_enc \in Seq(Commands)
      /\ refused \in [CmdBufs -> SUBSET (1..MaxIssued)]
  BY TypeParts DEF CallInv, ThreadsOK, QueuesOK, BooksOK
<1>3. host' \in HostType
  BY <1>1, <1>2, RunType
<1>4. batch_enc' \in Seq(Commands) /\ refused' \in [CmdBufs -> SUBSET (1..MaxIssued)]
  BY <1>1, <1>2
<1> QED
  BY <1>1, <1>3, <1>4, ReturnKeeps

LEMMA SubmitBatchedKeeps ==
  ASSUME CallInv, NEW t \in Threads, SubmitBatched(t)
  PROVE  CallInv'
<1>1. Returns(t) /\ pc[t] = "encoded" /\ ringVars' = ringVars /\ refused' = refused
  BY DEF SubmitBatched, Returns, InCall, bookVars
<1>2. /\ enc[t] \in Seq(Commands) /\ host \in HostType
      /\ refused \in [CmdBufs -> SUBSET (1..MaxIssued)]
  BY TypeParts DEF CallInv, ThreadsOK, BooksOK
<1>3. HostRuns(host, enc[t]) \in HostType
  BY <1>2, RunType
<1>4. <<>> \in Seq(Commands)
  OBVIOUS
<1>5. batch_enc' \in Seq(Commands) /\ host' \in HostType
  BY <1>2, <1>3, <1>4 DEF SubmitBatched, Accumulate
<1>6. refused' \in [CmdBufs -> SUBSET (1..MaxIssued)]
  BY <1>1, <1>2
<1> QED
  BY <1>1, <1>5, <1>6, ReturnKeeps

LEMMA RingRefuseKeeps ==
  ASSUME CallInv, NEW t \in Threads, RingRefuse(t)
  PROVE  CallInv'
<1>1. /\ Returns(t) /\ pc[t] = "encoded" /\ ringVars' = ringVars
      /\ batch_enc' = batch_enc /\ host' = host
  BY DEF RingRefuse, Returns, InCall, windowVars
<1>2. /\ enc[t] \in Seq(Commands) /\ host \in HostType /\ batch_enc \in Seq(Commands)
      /\ refused \in [CmdBufs -> SUBSET (1..MaxIssued)]
  BY TypeParts DEF CallInv, ThreadsOK, QueuesOK, BooksOK
<1>3. Last(enc[t]) \in Commands
  <2>1. pc[t] \in InCall
    BY <1>1 DEF InCall
  <2> QED
    BY <2>1, EncodedIs
<1>4. Last(enc[t]).op = "record" => Last(enc[t]).n \in 1..MaxIssued
  BY <1>3, CommandForms DEF WellFormed
<1>5. refused' \in [CmdBufs -> SUBSET (1..MaxIssued)]
  <2>1. CASE t \in CmdBufs /\ Last(enc[t]).op = "record"
    <3>1. refused' = [refused EXCEPT ![t] = refused[t] \cup {Last(enc[t]).n}]
      BY <2>1 DEF RingRefuse
    <3>2. refused[t] \cup {Last(enc[t]).n} \in SUBSET (1..MaxIssued)
      BY <1>2, <1>4, <2>1
    <3> QED
      BY <1>2, <3>1, <3>2
  <2>2. CASE ~(t \in CmdBufs /\ Last(enc[t]).op = "record")
    BY <1>2, <2>2 DEF RingRefuse
  <2> QED
    BY <2>1, <2>2
<1> QED
  BY <1>1, <1>2, <1>5, ReturnKeeps

LEMMA RingCopyKeeps ==
  ASSUME CallInv, NEW t \in Threads, RingCopy(t)
  PROVE  CallInv'
<1>1. ModesOK /\ BooksOK /\ QueuesOK /\ OfferInv /\ host \in HostType
  BY TypeParts DEF CallInv
<1>2. /\ Returns(t) /\ pc[t] = "writing"
      /\ batch_enc' = batch_enc /\ host' = host /\ refused' = refused
      /\ draft' = draft \o offer /\ offer' = <<>>
      /\ open' = open /\ pending' = pending /\ running' = running
  BY DEF RingCopy, Returns, InCall, windowVars, bookVars, Stream!Write
<1>3. /\ UNCHANGED <<batch_recording, ring_recording, ring_tried, ring_ready, issued, rounds>>
      /\ batch_enabled' = batch_enabled /\ ring_want' = ring_want
  BY <1>2 DEF Returns, modeVars
<1>4. draft' \in Seq(Commands) /\ Len(draft') = Len(draft) + Len(offer) /\ Len(offer') = 0
        /\ offer' \in Seq(Commands)
  BY <1>1, <1>2 DEF QueuesOK
<1>5. ModesOK' /\ BooksOK' /\ QueuesOK'
  BY <1>1, <1>2, <1>3, <1>4 DEF ModesOK, BooksOK, QueuesOK
<1>6. ThreadsOK' /\ LockInv' /\ EncInv' /\ \A u \in Threads : pc'[u] \notin InCall
  BY <1>2, ReturnsThreads
<1>7. JobsOK' /\ CallsInv'
  BY <1>2, AnyReturns
<1>8. OfferInv'
  <2>1. ring_ready
    BY <1>1, <1>2 DEF OfferInv, ring_active
  <2>2. Len(draft') + Len(pending') + Len(running') + Len(offer') <= RingSize
    BY <1>1, <1>2, <1>4, RingLengths
  <2> QED
    BY <1>2, <1>3, <1>6, <2>1, <2>2 DEF OfferInv, InCall
<1>9. (host \in HostType)'
  BY <1>1, <1>2
<1>10. TypeOK'
  BY <1>5, <1>6, <1>7, <1>8, <1>9, TypePartsNext
<1> QED
  BY <1>6, <1>7, <1>8, <1>10 DEF CallInv

LEMMA RingReserveKeeps ==
  ASSUME CallInv, NEW t \in Threads, RingReserve(t)
  PROVE  CallInv'
<1>1. /\ ModesOK /\ ThreadsOK /\ JobsOK /\ BooksOK /\ QueuesOK /\ OfferInv /\ host \in HostType
      /\ LockInv /\ CallsInv /\ EncInv
  BY TypeParts DEF CallInv
<1>2. /\ pc[t] = "encoded" /\ ~call[t].immediate /\ ring_active
      /\ Len(draft) + Len(pending) + Len(running) + Len(enc[t]) <= RingSize
      /\ offer' = enc[t] /\ pc' = [pc EXCEPT ![t] = "writing"]
      /\ UNCHANGED <<open, draft, pending, running>>
      /\ UNCHANGED <<lock, modeVars, windowVars, ring_tried, ring_ready, call, enc,
                     rec, step, bookVars, host>>
  BY DEF RingReserve, Stream!OfferWords
<1>3. /\ batch_enabled' = batch_enabled /\ ring_want' = ring_want
      /\ batch_recording' = batch_recording /\ batch_enc' = batch_enc
      /\ ring_recording' = ring_recording
      /\ issued' = issued /\ rounds' = rounds /\ refused' = refused
  BY <1>2 DEF modeVars, windowVars, bookVars
<1>4. pc'[t] = "writing" /\ \A u \in Threads \ {t} : pc'[u] = pc[u]
  BY <1>1, <1>2 DEF ThreadsOK
<1>5. lock = t /\ \A u \in Threads \ {t} : pc[u] \notin {"encoded", "writing", "ending"}
  BY <1>1, <1>2 DEF LockInv
<1>6. ModesOK' /\ JobsOK' /\ BooksOK' /\ (host \in HostType)'
  BY <1>1, <1>2, <1>3 DEF ModesOK, JobsOK, BooksOK
<1>7. QueuesOK'
  BY <1>1, <1>2, <1>3 DEF QueuesOK, ThreadsOK
<1>8. ThreadsOK'
  BY <1>1, <1>2 DEF ThreadsOK, Places
<1>9. LockInv'
  BY <1>1, <1>2, <1>4, <1>5 DEF LockInv
<1>10. CallsInv'
  <2>1. ASSUME NEW c \in CmdBufs PROVE RecorderInv(c)'
    <3>1. RecorderInv(c)
      BY <1>1 DEF CallsInv
    <3>2. CASE c = t
      <4>1. pc[c] \in InCall /\ pc'[c] = "writing"
        BY <1>2, <1>4, <3>2 DEF InCall
      <4>2. Budget(c)' = Budget(c) /\ MayBegin(c)' = MayBegin(c)
        BY <1>2, <1>3 DEF Budget, MayBegin
      <4> QED
        BY <1>2, <1>3, <3>1, <4>1, <4>2 DEF RecorderInv, InCall
    <3>3. CASE c # t
      <4>1. pc'[c] = pc[c]
        BY <1>4, <3>3, WhoIsWho
      <4> QED
        BY <1>2, <1>3, <3>1, <4>1, RecorderKept
    <3> QED
      BY <3>2, <3>3
  <2>2. ASSUME NEW w \in Workers PROVE WorkerInv(w)'
    <3>1. WorkerInv(w)
      BY <1>1 DEF CallsInv
    <3>2. CASE w = t
      BY <1>2, <1>4, <3>1, <3>2 DEF WorkerInv, InCall
    <3>3. CASE w # t
      <4>1. pc'[w] = pc[w]
        BY <1>4, <3>3, WhoIsWho
      <4> QED
        BY <1>2, <3>1, <4>1, WorkerKept
    <3> QED
      BY <3>2, <3>3
  <2> QED
    BY <2>1, <2>2 DEF CallsInv
<1>11. EncInv'
  <2>1. \A u \in Threads \ {t} : pc'[u] \notin InCall
    BY <1>4, <1>5 DEF InCall
  <2>2. PICK cmd \in CallCmds(t) : enc[t] = Append(Behind(t), cmd)
    BY <1>1, <1>2 DEF EncInv, InCall
  <2>3. CallCmds(t)' = CallCmds(t) /\ Behind(t)' = Behind(t) /\ enc'[t] = enc[t]
    BY <1>2, <1>3 DEF CallCmds, Behind, batch_active, UsesOf
  <2> QED
    BY <2>1, <2>2, <2>3 DEF EncInv
<1>12. OfferInv'
  <2>1. \A u \in Threads : pc'[u] = "writing" => u = t
    BY <1>4, <1>5
  <2>2. ring_active' /\ ring_ready' /\ ~call'[t].immediate /\ offer' = enc'[t]
    BY <1>2, <1>3 DEF ring_active
  <2>3. Len(draft') + Len(pending') + Len(running') + Len(offer') <= RingSize
    BY <1>2
  <2> QED
    BY <1>4, <2>1, <2>2, <2>3 DEF OfferInv
<1>13. TypeOK'
  BY <1>6, <1>7, <1>8, <1>12, TypePartsNext
<1> QED
  BY <1>9, <1>10, <1>11, <1>12, <1>13 DEF CallInv

-----------------------------------------------------------------------------
\* The steps that encode nothing

\* A thread that does not hold the lock, and does not take it, moves on.
LEMMA Moves ==
  ASSUME ThreadsOK, LockInv, NEW t \in Threads, NEW p \in Places,
         pc[t] \notin {"encoded", "writing", "ending"},
         p \notin {"encoded", "writing", "ending"},
         pc' = [pc EXCEPT ![t] = p], lock' = lock, call' = call, enc' = enc
  PROVE  /\ ThreadsOK' /\ LockInv' /\ pc'[t] = p
         /\ \A u \in Threads \ {t} : pc'[u] = pc[u]
         /\ \A u \in Threads : pc'[u] \in InCall => pc[u] \in InCall /\ u # t
         /\ \A u \in Threads : pc'[u] = "writing" <=> pc[u] = "writing"
<1>1. pc'[t] = p /\ \A u \in Threads \ {t} : pc'[u] = pc[u]
  BY DEF ThreadsOK
<1>2. ThreadsOK'
  BY DEF ThreadsOK
<1>3. LockInv'
  BY <1>1 DEF LockInv
<1>4. \A u \in Threads : pc'[u] \in InCall => pc[u] \in InCall /\ u # t
  BY <1>1 DEF InCall
<1>5. \A u \in Threads : pc'[u] = "writing" <=> pc[u] = "writing"
  BY <1>1
<1> QED
  BY <1>1, <1>2, <1>3, <1>4, <1>5

LEMMA EncKept ==
  ASSUME EncInv, enc' = enc, call' = call, issued' = issued,
         batch_enabled' = batch_enabled, batch_recording' = batch_recording,
         batch_enc' = batch_enc,
         \A u \in Threads : pc'[u] \in InCall =>
           pc[u] \in InCall /\ (u \in Workers => step'[u] = step[u]),
         \A w \in Compilers : step'[w] = step[w]
  PROVE  EncInv'
<1> SUFFICES ASSUME NEW u \in Threads, pc'[u] \in InCall
             PROVE  \E cmd \in CallCmds(u)' : enc'[u] = Append(Behind(u)', cmd)
  BY DEF EncInv
<1>1. PICK cmd \in CallCmds(u) : enc[u] = Append(Behind(u), cmd)
  BY DEF EncInv
<1>2. Behind(u)' = Behind(u)
  BY DEF Behind, batch_active
<1>3. UsesOf' = UsesOf
  BY DEF UsesOf
<1>4. u \in Workers => step'[u] = step[u]
  OBVIOUS
<1>5. CallCmds(u)' = CallCmds(u)
  BY <1>3, <1>4 DEF CallCmds
<1> QED
  BY <1>1, <1>2, <1>5

LEMMA OfferKept ==
  ASSUME OfferInv, enc' = enc, call' = call, offer' = offer,
         ring_ready' = ring_ready, ring_recording' = ring_recording,
         \A u \in Threads : pc'[u] = "writing" <=> pc[u] = "writing",
         ~ring_ready => draft' = draft /\ pending' = pending /\ running' = running,
         Len(draft') + Len(pending') + Len(running') + Len(offer')
           <= Len(draft) + Len(pending) + Len(running) + Len(offer),
         {draft, pending, running, offer} \subseteq Seq(Commands),
         {draft', pending', running', offer'} \subseteq Seq(Commands)
  PROVE  OfferInv'
<1>1. /\ Len(draft) + Len(pending) + Len(running) + Len(offer) <= RingSize
      /\ Len(draft) \in Nat /\ Len(pending) \in Nat /\ Len(running) \in Nat /\ Len(offer) \in Nat
      /\ Len(draft') \in Nat /\ Len(pending') \in Nat /\ Len(running') \in Nat
      /\ Len(offer') \in Nat /\ RingSize \in Nat
  BY VulkanDispatchAssumption DEF OfferInv
<1>a. Len(draft') + Len(pending') + Len(running') + Len(offer')
        <= Len(draft) + Len(pending) + Len(running) + Len(offer)
  OBVIOUS
<1>2. Len(draft') + Len(pending') + Len(running') + Len(offer') <= RingSize
  BY ONLY <1>1, <1>a
<1>3. ring_active' = ring_active
  BY DEF ring_active
<1>4. offer' # <<>> => \E u \in Threads : pc'[u] = "writing"
  BY DEF OfferInv
<1>5. \A u \in Threads : pc'[u] = "writing" => offer' = enc'[u] /\ ring_active' /\ ~call'[u].immediate
  BY <1>3 DEF OfferInv
<1> QED
  BY <1>2, <1>4, <1>5 DEF OfferInv

LEMMA RingInitKeeps ==
  ASSUME CallInv, NEW c \in CmdBufs, RingInit(c)
  PROVE  CallInv'
<1>1. /\ ModesOK /\ ThreadsOK /\ JobsOK /\ BooksOK /\ QueuesOK /\ OfferInv /\ host \in HostType
      /\ LockInv /\ CallsInv /\ EncInv /\ c \in Threads /\ c \notin Workers
  BY TypeParts, WhoIsWho DEF CallInv
<1>2. /\ pc[c] = "idle" /\ MayBegin(c) /\ ring_tried' = TRUE
      /\ pc' = [pc EXCEPT ![c] = "ring_init"]
      /\ lock' = lock /\ call' = call /\ enc' = enc /\ rec' = rec /\ step' = step
      /\ host' = host /\ ring_ready' = ring_ready
      /\ batch_enabled' = batch_enabled /\ ring_want' = ring_want
      /\ batch_recording' = batch_recording /\ batch_enc' = batch_enc
      /\ ring_recording' = ring_recording
      /\ issued' = issued /\ rounds' = rounds /\ refused' = refused
      /\ open' = open /\ offer' = offer /\ draft' = draft /\ pending' = pending
      /\ running' = running
  BY DEF RingInit, modeVars, windowVars, bookVars, ringVars
<1>3. "ring_init" \in Places
  BY DEF Places
<1>4. /\ ThreadsOK' /\ LockInv' /\ pc'[c] = "ring_init"
      /\ \A u \in Threads \ {c} : pc'[u] = pc[u]
      /\ \A u \in Threads : pc'[u] \in InCall => pc[u] \in InCall /\ u # c
      /\ \A u \in Threads : pc'[u] = "writing" <=> pc[u] = "writing"
  BY <1>1, <1>2, <1>3, Moves
<1>5. ModesOK' /\ JobsOK' /\ BooksOK' /\ QueuesOK' /\ (host \in HostType)'
  BY <1>1, <1>2 DEF ModesOK, JobsOK, BooksOK, QueuesOK
<1>6. EncInv'
  BY <1>1, <1>2, <1>4, EncKept
<1>7. OfferInv'
  BY <1>1, <1>2, <1>4 DEF OfferInv, ring_active
<1>8. CallsInv'
  <2>1. ASSUME NEW d \in CmdBufs PROVE RecorderInv(d)'
    <3>1. RecorderInv(d)
      BY <1>1 DEF CallsInv
    <3>2. CASE d = c
      BY <1>2, <1>4, <3>1, <3>2 DEF RecorderInv, InCall, MayBegin, Budget
    <3>3. CASE d # c
      <4>1. pc'[d] = pc[d]
        BY <1>4, <3>3, WhoIsWho
      <4> QED
        BY <1>2, <3>1, <4>1, RecorderKept
    <3> QED
      BY <3>2, <3>3
  <2>2. ASSUME NEW w \in Workers PROVE WorkerInv(w)'
    <3>1. WorkerInv(w) /\ w \in Threads \ {c}
      BY <1>1, WhoIsWho DEF CallsInv
    <3> QED
      BY <1>2, <1>4, <3>1, WorkerKept
  <2> QED
    BY <2>1, <2>2 DEF CallsInv
<1>9. TypeOK'
  BY <1>4, <1>5, <1>7, TypePartsNext
<1> QED
  BY <1>4, <1>6, <1>7, <1>8, <1>9 DEF CallInv

LEMMA RingInitDoneKeeps ==
  ASSUME CallInv, NEW c \in CmdBufs, RingInitDone(c)
  PROVE  CallInv'
<1>1. /\ ModesOK /\ ThreadsOK /\ JobsOK /\ BooksOK /\ QueuesOK /\ OfferInv /\ host \in HostType
      /\ LockInv /\ CallsInv /\ EncInv /\ c \in Threads /\ c \notin Workers
  BY TypeParts, WhoIsWho DEF CallInv
<1>2. /\ pc[c] = "ring_init"
      /\ pc' = [pc EXCEPT ![c] = "begin"]
      /\ lock' = lock /\ call' = call /\ enc' = enc /\ rec' = rec /\ step' = step
      /\ host' = host /\ ring_tried' = ring_tried
      /\ batch_enabled' = batch_enabled /\ ring_want' = ring_want
      /\ batch_recording' = batch_recording /\ batch_enc' = batch_enc
      /\ ring_recording' = ring_recording
      /\ issued' = issued /\ rounds' = rounds /\ refused' = refused
  BY DEF RingInitDone, modeVars, windowVars, bookVars
<1>3. /\ offer' = offer /\ draft' = draft /\ pending' = pending /\ running' = running
      /\ (open' = TRUE /\ ring_ready' = TRUE) \/ (open' = open /\ ring_ready' = ring_ready)
  BY DEF RingInitDone, ringVars, Stream!Open
<1>4. "begin" \in Places
  BY DEF Places
<1>5. /\ ThreadsOK' /\ LockInv' /\ pc'[c] = "begin"
      /\ \A u \in Threads \ {c} : pc'[u] = pc[u]
      /\ \A u \in Threads : pc'[u] \in InCall => pc[u] \in InCall /\ u # c
      /\ \A u \in Threads : pc'[u] = "writing" <=> pc[u] = "writing"
  BY <1>1, <1>2, <1>4, Moves
<1>6. ModesOK' /\ (ring_ready => ring_ready')
  <2>1. ring_ready => ring_ready'
    BY <1>3
  <2>2. ring_ready' <=> open'
    BY <1>1, <1>3 DEF ModesOK
  <2>3. ring_ready' \in BOOLEAN
    BY <1>1, <1>3 DEF ModesOK
  <2>4. /\ {batch_enabled', batch_recording', ring_want', ring_tried', ring_recording'}
             \subseteq BOOLEAN
        /\ batch_recording' => batch_enabled'
        /\ ring_recording' => ring_ready'
    BY <1>1, <1>2, <2>1 DEF ModesOK
  <2> QED
    BY <2>1, <2>2, <2>3, <2>4 DEF ModesOK
<1>7. JobsOK' /\ BooksOK' /\ QueuesOK' /\ (host \in HostType)'
  BY <1>1, <1>2, <1>3 DEF JobsOK, BooksOK, QueuesOK
<1>8. EncInv'
  BY <1>1, <1>2, <1>5, EncKept
<1>9. OfferInv'
  BY <1>1, <1>2, <1>3, <1>5, <1>6 DEF OfferInv, ring_active
<1>10. CallsInv'
  <2>1. ASSUME NEW d \in CmdBufs PROVE RecorderInv(d)'
    <3>1. RecorderInv(d)
      BY <1>1 DEF CallsInv
    <3>2. CASE d = c
      BY <1>2, <1>5, <3>1, <3>2 DEF RecorderInv, InCall, MayBegin, Budget
    <3>3. CASE d # c
      <4>1. pc'[d] = pc[d]
        BY <1>5, <3>3, WhoIsWho
      <4> QED
        BY <1>2, <1>6, <3>1, <4>1, RecorderKept
    <3> QED
      BY <3>2, <3>3
  <2>2. ASSUME NEW w \in Workers PROVE WorkerInv(w)'
    <3>1. WorkerInv(w) /\ w \in Threads \ {c}
      BY <1>1, WhoIsWho DEF CallsInv
    <3> QED
      BY <1>2, <1>5, <3>1, WorkerKept
  <2> QED
    BY <2>1, <2>2 DEF CallsInv
<1>11. TypeOK'
  BY <1>5, <1>6, <1>7, <1>9, TypePartsNext
<1> QED
  BY <1>5, <1>8, <1>9, <1>10, <1>11 DEF CallInv

LEMMA EndFlushKeeps ==
  ASSUME CallInv, NEW c \in CmdBufs, EndFlush(c)
  PROVE  CallInv'
<1>1. /\ ModesOK /\ ThreadsOK /\ JobsOK /\ BooksOK /\ QueuesOK /\ OfferInv /\ host \in HostType
      /\ LockInv /\ CallsInv /\ EncInv /\ c \in Threads /\ c \notin Workers
  BY TypeParts, WhoIsWho DEF CallInv
<1>2. /\ pc[c] = "ending"
      /\ pc' = [pc EXCEPT ![c] = "idle"]
      /\ rec' = [rec EXCEPT ![c] = "ended"]
      /\ lock' = Nobody /\ call' = call /\ enc' = enc /\ step' = step
      /\ ring_tried' = ring_tried /\ ring_ready' = ring_ready
      /\ batch_enabled' = batch_enabled /\ ring_want' = ring_want /\ batch_enc' = batch_enc
      /\ issued' = issued /\ rounds' = rounds /\ refused' = refused
  BY DEF EndFlush, modeVars, bookVars
<1>3. /\ offer' = offer /\ running' = running /\ open' = open
      /\ \/ draft' = draft /\ pending' = pending
         \/ draft' = <<>> /\ pending' = pending \o draft
      /\ ~ring_ready => draft' = draft /\ pending' = pending
      /\ ring_recording' = ring_recording \/ ring_recording' = FALSE
      /\ batch_recording' = batch_recording \/ batch_recording' = FALSE
      /\ host' \in {host, HostRuns(host, batch_enc)}
  BY DEF EndFlush, ringVars, Stream!Publish, ring_active
<1>4. lock = c /\ \A u \in Threads \ {c} : pc[u] \notin {"encoded", "writing", "ending"}
  BY <1>1, <1>2 DEF LockInv
<1>5. pc'[c] = "idle" /\ \A u \in Threads \ {c} : pc'[u] = pc[u]
  BY <1>1, <1>2 DEF ThreadsOK
<1>6. \A u \in Threads : pc'[u] \notin {"encoded", "writing", "ending"}
  BY <1>4, <1>5
<1>7. ThreadsOK' /\ LockInv'
  <2>1. "idle" \in Places
    BY DEF Places
  <2>2. ThreadsOK'
    BY <1>1, <1>2, <2>1 DEF ThreadsOK
  <2>3. LockInv'
    BY <1>2, <1>6, VulkanDispatchAssumption DEF LockInv
  <2> QED
    BY <2>2, <2>3
<1>8. ModesOK'
  <2>1. ring_recording' \in BOOLEAN /\ (ring_recording' => ring_ready')
    <3>1. CASE ring_recording' = ring_recording
      BY <1>1, <1>2, <3>1 DEF ModesOK
    <3>2. CASE ring_recording' = FALSE
      BY <3>2
    <3> QED
      BY <1>3, <3>1, <3>2, Zenon
  <2>2. batch_recording' \in BOOLEAN /\ (batch_recording' => batch_enabled')
    <3>1. CASE batch_recording' = batch_recording
      BY <1>1, <1>2, <3>1 DEF ModesOK
    <3>2. CASE batch_recording' = FALSE
      BY <3>2
    <3> QED
      BY <1>3, <3>1, <3>2, Zenon
  <2>3. /\ {batch_enabled', ring_want', ring_tried', ring_ready'} \subseteq BOOLEAN
        /\ ring_ready' <=> open'
    BY <1>1, <1>2, <1>3 DEF ModesOK
  <2> QED
    BY <2>1, <2>2, <2>3 DEF ModesOK
<1>9. JobsOK' /\ BooksOK'
  BY <1>1, <1>2 DEF JobsOK, BooksOK
<1>10. /\ draft \in Seq(Commands) /\ pending \in Seq(Commands) /\ running \in Seq(Commands)
       /\ offer \in Seq(Commands) /\ batch_enc \in Seq(Commands)
  BY <1>1 DEF QueuesOK
<1>11. /\ draft' \in Seq(Commands) /\ pending' \in Seq(Commands)
       /\ Len(draft') + Len(pending') = Len(draft) + Len(pending)
  <2>1. CASE draft' = draft /\ pending' = pending
    BY <1>10, <2>1
  <2>2. CASE draft' = <<>> /\ pending' = pending \o draft
    BY <1>10, <2>2
  <2> QED
    BY <1>3, <2>1, <2>2
<1>12. QueuesOK'
  BY <1>2, <1>3, <1>10, <1>11 DEF QueuesOK
<1>13. (host \in HostType)'
  BY <1>1, <1>3, <1>10, RunType
<1>14. EncInv'
  BY <1>6 DEF EncInv, InCall
<1>15. OfferInv'
  <2>1. offer = <<>>
    BY <1>1, <1>2, <1>4 DEF OfferInv
  <2>2. /\ Len(draft) \in Nat /\ Len(pending) \in Nat /\ Len(running) \in Nat
        /\ Len(draft') \in Nat /\ Len(pending') \in Nat /\ Len(offer) \in Nat /\ RingSize \in Nat
        /\ Len(draft) + Len(pending) + Len(running) + Len(offer) <= RingSize
    BY <1>1, <1>10, <1>11, RingLengths
  <2>3. Len(draft') + Len(pending') + Len(running') + Len(offer') <= RingSize
    BY <1>3, <1>11, <2>2
  <2>4. ~ring_ready' =>
          offer' = <<>> /\ draft' = <<>> /\ pending' = <<>> /\ running' = <<>>
    BY <1>1, <1>2, <1>3 DEF OfferInv
  <2> QED
    BY <1>3, <1>6, <2>1, <2>3, <2>4 DEF OfferInv
<1>16. CallsInv'
  <2>1. ASSUME NEW d \in CmdBufs PROVE RecorderInv(d)'
    <3>1. RecorderInv(d)
      BY <1>1 DEF CallsInv
    <3>2. CASE d = c
      <4>1. pc'[d] = "idle" /\ rec'[d] = "ended"
        BY <1>1, <1>2, <1>5, <3>2 DEF JobsOK
      <4>2. issued'[d] <= Budget(d)'
        BY <1>2, <3>1 DEF RecorderInv, Budget
      <4> QED
        BY <4>1, <4>2 DEF RecorderInv, InCall
    <3>3. CASE d # c
      <4>1. pc'[d] = pc[d] /\ rec'[d] = rec[d]
        BY <1>1, <1>2, <1>5, <3>3, WhoIsWho DEF JobsOK
      <4> QED
        BY <1>2, <3>1, <4>1, RecorderKept
    <3> QED
      BY <3>2, <3>3
  <2>2. ASSUME NEW w \in Workers PROVE WorkerInv(w)'
    <3>1. WorkerInv(w) /\ w \in Threads \ {c}
      BY <1>1, WhoIsWho DEF CallsInv
    <3> QED
      BY <1>2, <1>5, <3>1, WorkerKept
  <2> QED
    BY <2>1, <2>2 DEF CallsInv
<1>17. TypeOK'
  BY <1>7, <1>8, <1>9, <1>12, <1>13, <1>15, TypePartsNext
<1> QED
  BY <1>7, <1>14, <1>15, <1>16, <1>17 DEF CallInv

LEMMA SubmitFlushKeeps ==
  ASSUME CallInv, NEW c \in CmdBufs, SubmitFlush(c)
  PROVE  CallInv'
<1>1. /\ ModesOK /\ ThreadsOK /\ JobsOK /\ BooksOK /\ QueuesOK /\ OfferInv /\ host \in HostType
      /\ LockInv /\ CallsInv /\ EncInv /\ c \in Threads /\ c \notin Workers
  BY TypeParts, WhoIsWho DEF CallInv
<1>2. /\ pc[c] = "flushing"
      /\ pc' = [pc EXCEPT ![c] = "idle"]
      /\ rec' = [rec EXCEPT ![c] = "submitted"]
      /\ lock' = lock /\ call' = call /\ enc' = enc /\ step' = step
      /\ host' = host /\ ring_tried' = ring_tried /\ ring_ready' = ring_ready
      /\ batch_enabled' = batch_enabled /\ ring_want' = ring_want
      /\ batch_recording' = batch_recording /\ batch_enc' = batch_enc
      /\ ring_recording' = ring_recording
      /\ issued' = issued /\ rounds' = rounds /\ refused' = refused
  BY DEF SubmitFlush, modeVars, windowVars, bookVars
<1>3. /\ offer' = offer /\ running' = running /\ open' = open
      /\ draft' = <<>> /\ pending' = pending \o draft
  BY DEF SubmitFlush, Stream!Publish
<1>4. "idle" \in Places
  BY DEF Places
<1>5. /\ ThreadsOK' /\ LockInv' /\ pc'[c] = "idle"
      /\ \A u \in Threads \ {c} : pc'[u] = pc[u]
      /\ \A u \in Threads : pc'[u] \in InCall => pc[u] \in InCall /\ u # c
      /\ \A u \in Threads : pc'[u] = "writing" <=> pc[u] = "writing"
  BY <1>1, <1>2, <1>4, Moves
<1>6. /\ draft \in Seq(Commands) /\ pending \in Seq(Commands) /\ running \in Seq(Commands)
      /\ offer \in Seq(Commands)
  BY <1>1 DEF QueuesOK
<1>7. /\ draft' \in Seq(Commands) /\ pending' \in Seq(Commands)
      /\ Len(draft') = 0 /\ Len(pending') = Len(pending) + Len(draft)
  BY <1>3, <1>6
<1>8. ModesOK' /\ JobsOK' /\ BooksOK' /\ (host \in HostType)'
  BY <1>1, <1>2, <1>3 DEF ModesOK, JobsOK, BooksOK
<1>9. QueuesOK'
  BY <1>1, <1>2, <1>3, <1>6, <1>7 DEF QueuesOK
<1>10. EncInv'
  BY <1>1, <1>2, <1>5, EncKept
<1>11. RecorderInv(c)
  BY <1>1 DEF CallsInv
<1>12. OfferInv'
  <2>1. ring_ready
    BY <1>2, <1>11 DEF RecorderInv
  <2>2. /\ Len(draft) \in Nat /\ Len(pending) \in Nat /\ Len(running) \in Nat
        /\ Len(offer) \in Nat
    BY <1>6
  <2>3. Len(draft') + Len(pending') + Len(running') + Len(offer')
          <= Len(draft) + Len(pending) + Len(running) + Len(offer)
    BY <1>3, <1>7, <2>2
  <2>4. {draft', pending', running', offer'} \subseteq Seq(Commands)
    BY <1>3, <1>6, <1>7
  <2> QED
    BY <1>1, <1>2, <1>3, <1>5, <1>6, <2>1, <2>3, <2>4, OfferKept
<1>13. CallsInv'
  <2>1. ASSUME NEW d \in CmdBufs PROVE RecorderInv(d)'
    <3>1. RecorderInv(d)
      BY <1>1 DEF CallsInv
    <3>2. CASE d = c
      <4>1. pc'[d] = "idle" /\ rec'[d] = "submitted"
        BY <1>1, <1>2, <1>5, <3>2 DEF JobsOK
      <4>2. issued'[d] <= Budget(d)'
        BY <1>2, <3>1 DEF RecorderInv, Budget
      <4> QED
        BY <4>1, <4>2 DEF RecorderInv, InCall
    <3>3. CASE d # c
      <4>1. pc'[d] = pc[d] /\ rec'[d] = rec[d]
        BY <1>1, <1>2, <1>5, <3>3, WhoIsWho DEF JobsOK
      <4> QED
        BY <1>2, <3>1, <4>1, RecorderKept
    <3> QED
      BY <3>2, <3>3
  <2>2. ASSUME NEW w \in Workers PROVE WorkerInv(w)'
    <3>1. WorkerInv(w) /\ w \in Threads \ {c}
      BY <1>1, WhoIsWho DEF CallsInv
    <3> QED
      BY <1>2, <1>5, <3>1, WorkerKept
  <2> QED
    BY <2>1, <2>2 DEF CallsInv
<1>14. TypeOK'
  BY <1>5, <1>8, <1>9, <1>12, TypePartsNext
<1> QED
  BY <1>5, <1>10, <1>12, <1>13, <1>14 DEF CallInv

\* An allocator moves without the lock: nothing changes but where it is in its job,
\* and the host.
LEMMA AllocatorMoves ==
  ASSUME CallInv, NEW w \in Allocators, NEW p \in {"idle", "alloc_enc", "alloc_direct"},
         pc[w] \in {"idle", "alloc_direct"}, step[w] = 1,
         pc' = [pc EXCEPT ![w] = p],
         step' = IF p = "idle" THEN [step EXCEPT ![w] = 2] ELSE step,
         host' \in HostType,
         UNCHANGED <<lock, modeVars, windowVars, ring_tried, ring_ready, call, enc, rec,
                     bookVars, ringVars>>
  PROVE  CallInv'
<1>1. /\ ModesOK /\ ThreadsOK /\ JobsOK /\ BooksOK /\ QueuesOK /\ OfferInv /\ host \in HostType
      /\ LockInv /\ CallsInv /\ EncInv
      /\ w \in Threads /\ w \notin CmdBufs /\ w \in Workers /\ w \notin Compilers
  BY TypeParts, WhoIsWho DEF CallInv
<1>2. /\ lock' = lock /\ call' = call /\ enc' = enc /\ rec' = rec
      /\ ring_tried' = ring_tried /\ ring_ready' = ring_ready
      /\ batch_enabled' = batch_enabled /\ ring_want' = ring_want
      /\ batch_recording' = batch_recording /\ batch_enc' = batch_enc
      /\ ring_recording' = ring_recording
      /\ issued' = issued /\ rounds' = rounds /\ refused' = refused
      /\ open' = open /\ offer' = offer /\ draft' = draft /\ pending' = pending
      /\ running' = running
  BY DEF modeVars, windowVars, bookVars, ringVars
<1>3. p \in Places /\ p \notin {"encoded", "writing", "ending"}
  BY DEF Places
<1>4. /\ ThreadsOK' /\ LockInv' /\ pc'[w] = p
      /\ \A u \in Threads \ {w} : pc'[u] = pc[u]
      /\ \A u \in Threads : pc'[u] \in InCall => pc[u] \in InCall /\ u # w
      /\ \A u \in Threads : pc'[u] = "writing" <=> pc[u] = "writing"
  BY <1>1, <1>2, <1>3, Moves
<1>5. ModesOK' /\ BooksOK' /\ QueuesOK' /\ (host \in HostType)'
  BY <1>1, <1>2 DEF ModesOK, BooksOK, QueuesOK
<1>6. \A v \in Workers \ {w} : step'[v] = step[v]
  BY <1>1 DEF JobsOK
<1>7. JobsOK'
  BY <1>1, <1>2, <1>6 DEF JobsOK, JobLength
<1>8. EncInv'
  <2>1. \A u \in Threads : pc'[u] \in InCall =>
          pc[u] \in InCall /\ (u \in Workers => step'[u] = step[u])
    BY <1>4, <1>6
  <2>2. \A v \in Compilers : step'[v] = step[v]
    BY <1>1, <1>6, WhoIsWho
  <2> QED
    BY <1>1, <1>2, <2>1, <2>2, EncKept
<1>9. OfferInv'
  BY <1>1, <1>2, <1>4 DEF OfferInv, ring_active
<1>10. CallsInv'
  <2>1. ASSUME NEW c \in CmdBufs PROVE RecorderInv(c)'
    <3>1. RecorderInv(c) /\ c \in Threads \ {w}
      BY <1>1, WhoIsWho DEF CallsInv
    <3> QED
      BY <1>2, <1>4, <3>1, RecorderKept
  <2>2. ASSUME NEW v \in Workers PROVE WorkerInv(v)'
    <3>1. WorkerInv(v) /\ v \in Threads
      BY <1>1, WhoIsWho DEF CallsInv
    <3>2. CASE v = w
      <4>1. pc'[v] = p /\ (p # "idle" => step'[v] = 1)
        BY <1>4, <3>2
      <4> QED
        BY <3>2, <4>1 DEF WorkerInv, InCall
    <3>3. CASE v # w
      BY <1>2, <1>4, <1>6, <3>1, <3>3, WorkerKept
    <3> QED
      BY <3>2, <3>3
  <2> QED
    BY <2>1, <2>2 DEF CallsInv
<1>11. TypeOK'
  BY <1>4, <1>5, <1>7, <1>9, TypePartsNext
<1> QED
  BY <1>4, <1>8, <1>9, <1>10, <1>11 DEF CallInv

LEMMA AllocateMemoryKeeps ==
  ASSUME CallInv, NEW w \in Workers, AllocateMemory(w)
  PROVE  CallInv'
<1>1. PICK p \in {"alloc_enc", "alloc_direct"} : pc' = [pc EXCEPT ![w] = p]
  BY DEF AllocateMemory
<1>2. w \in Allocators /\ pc[w] = "idle" /\ step[w] = 1 /\ step' = step /\ host' = host
  BY DEF AllocateMemory
<1>3. UNCHANGED <<lock, modeVars, windowVars, ring_tried, ring_ready, call, enc, rec,
                  bookVars, ringVars>>
  BY DEF AllocateMemory
<1>4. host' \in HostType
  BY <1>2, TypeParts DEF CallInv
<1> QED
  BY <1>1, <1>2, <1>3, <1>4, AllocatorMoves

LEMMA DirectIs ==
  ASSUME CallInv, NEW w \in Workers, AllocateDirect(w)
  PROVE  /\ w \in Allocators /\ step[w] = 1 /\ step' = [step EXCEPT ![w] = 2]
         /\ JobCall(w, 1) = Create(Of("memory", w), {}) /\ JobCall(w, 1) \in Commands
<1>1. WorkerInv(w) /\ pc[w] = "alloc_direct"
  BY DEF CallInv, CallsInv, AllocateDirect
<1>2. w \in Allocators /\ w \notin Compilers /\ step[w] = 1
  BY <1>1, WhoIsWho DEF WorkerInv
<1>3. step' = [step EXCEPT ![w] = 2]
  BY <1>2 DEF AllocateDirect
<1>4. JobCall(w, 1) = Create(Of("memory", w), {})
  BY <1>2 DEF JobCall
<1>5. JobCall(w, 1) \in Commands
  BY <1>2, JobCommands DEF JobLength
<1> QED
  BY <1>2, <1>3, <1>4, <1>5

LEMMA AllocateDirectKeeps ==
  ASSUME CallInv, NEW w \in Workers, AllocateDirect(w)
  PROVE  CallInv'
<1>1. /\ w \in Allocators /\ step[w] = 1 /\ step' = [step EXCEPT ![w] = 2]
      /\ JobCall(w, 1) \in Commands
  BY DirectIs
<1>2. /\ pc[w] = "alloc_direct" /\ pc' = [pc EXCEPT ![w] = "idle"]
      /\ host' = HostDoes(host, JobCall(w, 1))
  BY DEF AllocateDirect
<1>3. UNCHANGED <<lock, modeVars, windowVars, ring_tried, ring_ready, call, enc, rec,
                  bookVars, ringVars>>
  BY DEF AllocateDirect
<1>4. host' \in HostType
  BY <1>1, <1>2, TypeParts, DoesType DEF CallInv
<1> QED
  BY <1>1, <1>2, <1>3, <1>4, AllocatorMoves

\* The host's ring thread changes the ring's queues and the host, nothing else.
LEMMA HostMoves ==
  ASSUME CallInv, guestVars' = guestVars, host' \in HostType,
         open' = open, offer' = offer, draft' = draft,
         pending' \in Seq(Commands), running' \in Seq(Commands),
         Len(pending') + Len(running') <= Len(pending) + Len(running),
         ~ring_ready => pending' = pending /\ running' = running
  PROVE  CallInv'
<1>1. /\ ModesOK /\ ThreadsOK /\ JobsOK /\ BooksOK /\ QueuesOK /\ OfferInv /\ host \in HostType
      /\ LockInv /\ CallsInv /\ EncInv
  BY TypeParts DEF CallInv
<1>2. /\ lock' = lock /\ pc' = pc /\ call' = call /\ enc' = enc /\ rec' = rec /\ step' = step
      /\ ring_tried' = ring_tried /\ ring_ready' = ring_ready
      /\ batch_enabled' = batch_enabled /\ ring_want' = ring_want
      /\ batch_recording' = batch_recording /\ batch_enc' = batch_enc
      /\ ring_recording' = ring_recording
      /\ issued' = issued /\ rounds' = rounds /\ refused' = refused
  BY DEF guestVars, modeVars, windowVars, bookVars
<1>3. ModesOK' /\ ThreadsOK' /\ JobsOK' /\ BooksOK' /\ (host \in HostType)' /\ LockInv'
  BY <1>1, <1>2 DEF ModesOK, ThreadsOK, JobsOK, BooksOK, LockInv
<1>4. /\ draft \in Seq(Commands) /\ pending \in Seq(Commands) /\ running \in Seq(Commands)
      /\ offer \in Seq(Commands)
  BY <1>1 DEF QueuesOK
<1>5. QueuesOK'
  BY <1>1, <1>2, <1>4 DEF QueuesOK
<1>6. EncInv'
  BY <1>1, <1>2, EncKept
<1>7. OfferInv'
  <2>1. /\ Len(draft) \in Nat /\ Len(pending) \in Nat /\ Len(running) \in Nat
        /\ Len(offer) \in Nat /\ Len(pending') \in Nat /\ Len(running') \in Nat
    BY <1>4
  <2>2. Len(draft') + Len(pending') + Len(running') + Len(offer')
          <= Len(draft) + Len(pending) + Len(running) + Len(offer)
    BY <2>1
  <2>3. {draft', pending', running', offer'} \subseteq Seq(Commands)
    BY <1>4
  <2> QED
    BY <1>1, <1>2, <1>4, <2>2, <2>3, OfferKept
<1>8. CallsInv'
  <2>1. ASSUME NEW c \in CmdBufs PROVE RecorderInv(c)'
    BY <1>1, <1>2, RecorderKept DEF CallsInv
  <2>2. ASSUME NEW w \in Workers PROVE WorkerInv(w)'
    BY <1>1, <1>2, WorkerKept DEF CallsInv
  <2> QED
    BY <2>1, <2>2 DEF CallsInv
<1>9. TypeOK'
  BY <1>3, <1>5, <1>7, TypePartsNext
<1> QED
  BY <1>3, <1>6, <1>7, <1>8, <1>9 DEF CallInv

LEMMA PartsJoin ==
  ASSUME NEW X, NEW s \in Seq(X), NEW a \in Seq(X), NEW b \in Seq(X), NEW n \in Nat,
         n <= Len(s), Len(a) = n, Len(b) = Len(s) - n,
         \A i \in 1..n : a[i] = s[i], \A i \in 1..(Len(s) - n) : b[i] = s[n + i]
  PROVE  a \o b = s /\ Len(b) + Len(a) = Len(s)
<1>1. Len(s) \in Nat
  OBVIOUS
<1>2. Len(b) + Len(a) = Len(s)
  BY <1>1
<1>3. a \o b \in Seq(X) /\ Len(a \o b) = Len(s)
  BY <1>1
<1>4. ASSUME NEW i \in 1..Len(s) PROVE (a \o b)[i] = s[i]
  <2>1. CASE i <= n
    BY <1>1, <2>1
  <2>2. CASE ~(i <= n)
    <3>1. i - n \in 1..(Len(s) - n) /\ n + (i - n) = i
      BY <1>1, <2>2
    <3>2. (a \o b)[i] = b[i - n]
      BY <1>1, <2>2
    <3> QED
      BY <3>1, <3>2
  <2> QED
    BY <2>1, <2>2
<1> QED
  BY <1>2, <1>3, <1>4, SeqEqual

LEMMA SplitJoins ==
  ASSUME NEW X, NEW s \in Seq(X), NEW n \in 1..Len(s)
  PROVE  /\ SubSeq(s, 1, n) \in Seq(X) /\ SubSeq(s, n + 1, Len(s)) \in Seq(X)
         /\ SubSeq(s, 1, n) \o SubSeq(s, n + 1, Len(s)) = s
         /\ Len(SubSeq(s, n + 1, Len(s))) + Len(SubSeq(s, 1, n)) = Len(s)
<1> DEFINE a == SubSeq(s, 1, n)
           b == SubSeq(s, n + 1, Len(s))
<1>1. n \in Nat /\ n <= Len(s)
  OBVIOUS
<1>2. a \in Seq(X) /\ Len(a) = n /\ \A i \in 1..n : a[i] = s[i]
  OBVIOUS
<1>3. /\ b \in Seq(X) /\ Len(b) = Len(s) - n
      /\ \A i \in 1..(Len(s) - n) : b[i] = s[n + i]
  OBVIOUS
<1> HIDE DEF a, b
<1>4. a \o b = s /\ Len(b) + Len(a) = Len(s)
  BY <1>1, <1>2, <1>3, PartsJoin
<1> QED
  BY <1>2, <1>3, <1>4 DEF a, b

LEMMA TakeIs ==
  ASSUME QueuesOK, Stream!Take
  PROVE  /\ open /\ running = <<>>
         /\ pending' \in Seq(Commands) /\ running' \in Seq(Commands)
         /\ running' \o pending' = pending
         /\ Len(pending') + Len(running') = Len(pending)
<1>1. PICK n \in 1..Len(pending) :
         running' = SubSeq(pending, 1, n) /\ pending' = SubSeq(pending, n + 1, Len(pending))
  BY DEF Stream!Take
<1>2. pending \in Seq(Commands)
  BY DEF QueuesOK
<1>3. /\ SubSeq(pending, 1, n) \in Seq(Commands)
      /\ SubSeq(pending, n + 1, Len(pending)) \in Seq(Commands)
      /\ SubSeq(pending, 1, n) \o SubSeq(pending, n + 1, Len(pending)) = pending
      /\ Len(SubSeq(pending, n + 1, Len(pending))) + Len(SubSeq(pending, 1, n)) = Len(pending)
  BY <1>2, SplitJoins
<1>4. open /\ running = <<>>
  BY DEF Stream!Take
<1> QED
  BY <1>1, <1>3, <1>4, Zenon

LEMMA RingTakeKeeps ==
  ASSUME CallInv, RingTake
  PROVE  CallInv'
<1>1. ModesOK /\ QueuesOK /\ host \in HostType
  BY TypeParts DEF CallInv
<1>2. /\ open /\ running = <<>> /\ pending' \in Seq(Commands) /\ running' \in Seq(Commands)
      /\ Len(pending') + Len(running') = Len(pending)
  BY <1>1, TakeIs DEF RingTake
<1>3. /\ guestVars' = guestVars /\ host' = host
      /\ open' = open /\ offer' = offer /\ draft' = draft
  BY DEF RingTake, Stream!Take
<1>4. ring_ready
  BY <1>1, <1>2 DEF ModesOK
<1>5. Len(running) = 0 /\ Len(pending) \in Nat
  BY <1>1, <1>2 DEF QueuesOK
<1>6. Len(pending') + Len(running') <= Len(pending) + Len(running)
  BY <1>2, <1>5
<1> QED
  BY <1>1, <1>2, <1>3, <1>4, <1>6, HostMoves

LEMMA RingCompleteKeeps ==
  ASSUME CallInv, RingComplete
  PROVE  CallInv'
<1>1. ModesOK /\ QueuesOK /\ OfferInv /\ host \in HostType
  BY TypeParts DEF CallInv
<1>2. /\ running # <<>> /\ running' = <<>> /\ pending' = pending
      /\ guestVars' = guestVars /\ host' = HostRuns(host, running)
      /\ open' = open /\ offer' = offer /\ draft' = draft
  BY DEF RingComplete, Stream!Complete
<1>3. pending \in Seq(Commands) /\ running \in Seq(Commands)
  BY <1>1 DEF QueuesOK
<1>4. host' \in HostType
  BY <1>1, <1>2, <1>3, RunType
<1>5. running' \in Seq(Commands) /\ pending' \in Seq(Commands)
        /\ Len(pending') + Len(running') <= Len(pending) + Len(running)
  BY <1>2, <1>3
<1>6. ring_ready
  BY <1>1, <1>2 DEF OfferInv
<1> QED
  BY <1>2, <1>4, <1>5, <1>6, HostMoves

LEMMA CallInit == Init => CallInv
<1> SUFFICES ASSUME Init PROVE CallInv
  OBVIOUS
<1> USE VulkanDispatchAssumption
<1>1. /\ open = FALSE /\ offer = <<>> /\ draft = <<>> /\ pending = <<>> /\ running = <<>>
  BY DEF Init, Stream!Init
<1>2. <<>> \in Seq(Commands) /\ <<>> \in Seq(1..MaxIssued)
  OBVIOUS
<1>3. ModesOK
  BY <1>1 DEF Init, ModesOK
<1>4. ThreadsOK
  <2>1. NoCall \in [name : Names, immediate : BOOLEAN]
    BY DEF NoCall, Names
  <2> QED
    BY <1>2, <2>1 DEF Init, ThreadsOK, Places
<1>5. JobsOK
  BY DEF Init, JobsOK, JobLength
<1>6. MaxIssued \in Nat
  <2>1. MaxRounds \in Nat /\ MaxCmds + 2 \in Nat
    OBVIOUS
  <2> QED
    BY <2>1 DEF MaxIssued
<1>7. BooksOK
  BY <1>6 DEF Init, BooksOK
<1>8. QueuesOK
  BY <1>1, <1>2 DEF Init, QueuesOK
<1>9. host \in HostType
  BY <1>2 DEF Init, HostType
<1>10. OfferInv
  <2>1. Len(offer) = 0 /\ Len(draft) = 0 /\ Len(pending) = 0 /\ Len(running) = 0
    BY <1>1
  <2> QED
    BY <1>1, <2>1 DEF Init, OfferInv
<1>11. TypeOK
  BY <1>3, <1>4, <1>5, <1>7, <1>8, <1>9, <1>10, TypeParts
<1>12. LockInv /\ EncInv
  BY DEF Init, LockInv, EncInv, InCall
<1>13. CallsInv
  <2>1. ASSUME NEW c \in CmdBufs PROVE RecorderInv(c)
    <3>1. pc[c] = "idle" /\ rec[c] = "idle" /\ issued[c] = 0
      BY WhoIsWho DEF Init
    <3>2. Budget(c) \in Nat
      BY <1>7, Budgets
    <3> QED
      BY <3>1, <3>2 DEF RecorderInv, InCall
  <2>2. ASSUME NEW w \in Workers PROVE WorkerInv(w)
    BY WhoIsWho DEF Init, WorkerInv, InCall
  <2> QED
    BY <2>1, <2>2 DEF CallsInv
<1> QED
  BY <1>10, <1>11, <1>12, <1>13 DEF CallInv

LEMMA CallStep == CallInv /\ [Next]_vars => CallInv'
<1> SUFFICES ASSUME CallInv, [Next]_vars PROVE CallInv'
  OBVIOUS
<1>1. ASSUME NEW c \in CmdBufs, RecorderStep(c) PROVE CallInv'
  BY <1>1, RingInitKeeps, RingInitDoneKeeps, BeginKeeps, CmdKeeps, EndKeeps, EndFlushKeeps,
     QueueSubmitKeeps, SubmitFlushKeeps DEF RecorderStep
<1>2. ASSUME NEW w \in Workers, WorkerStep(w) PROVE CallInv'
  BY <1>2, JobKeeps, AllocateMemoryKeeps, AllocateEncodedKeeps, AllocateDirectKeeps
     DEF WorkerStep
<1>3. ASSUME NEW t \in Threads, Submission(t) PROVE CallInv'
  BY <1>3, SubmitAloneKeeps, SubmitBatchedKeeps, RingReserveKeeps, RingCopyKeeps,
     RingRefuseKeeps DEF Submission
<1>4. CASE UNCHANGED vars
  <2>1. guestVars' = guestVars /\ ringVars' = ringVars /\ host' = host
    BY <1>4 DEF vars, guestVars
  <2>2. host' \in HostType /\ QueuesOK
    BY <2>1, TypeParts DEF CallInv
  <2>3. /\ open' = open /\ offer' = offer /\ draft' = draft /\ pending' = pending
        /\ running' = running
    BY <2>1 DEF ringVars
  <2>4. /\ pending \in Seq(Commands) /\ running \in Seq(Commands)
        /\ Len(pending) \in Nat /\ Len(running) \in Nat
    BY <2>2 DEF QueuesOK
  <2>5. /\ pending' \in Seq(Commands) /\ running' \in Seq(Commands)
        /\ Len(pending') + Len(running') <= Len(pending) + Len(running)
    BY <2>3, <2>4
  <2> QED
    BY <2>1, <2>2, <2>3, <2>5, HostMoves
<1> QED
  BY <1>1, <1>2, <1>3, <1>4, RingTakeKeeps, RingCompleteKeeps DEF Next

LEMMA CallInvariant == Spec => []CallInv
BY CallInit, CallStep, PTL DEF Spec

-----------------------------------------------------------------------------
\* One command buffer: what the host will be

\* Command buffers are recorded by one thread, one at a time.
OneRecorder == \E c : CmdBufs = {c}

\* From vkBeginCommandBuffer's hold of the lock to vkEndCommandBuffer's flush.
Opening(c) == rec[c] = "open" \/ (pc[c] \in InCall /\ call[c].name = "Begin")

\* The batch or the ring's window is open exactly while a recording is.
Window(c) ==
  /\ batch_recording <=> (Opening(c) /\ ~ring_ready /\ batch_enabled)
  /\ ring_recording <=> (Opening(c) /\ ring_ready)

\* What is on its way to the host, and the host when all of it has arrived.
Batch == IF batch_active THEN batch_enc ELSE <<>>
OnTheWay == running \o (pending \o (draft \o Batch))
Future == HostRuns(host, OnTheWay)

\* The commands of c that were handed to the ring, the batch or the host.
Done(c) == IF pc[c] \in InCall /\ call[c].name # "QueueSubmit" THEN issued[c] - 1 ELSE issued[c]

Ascending(s) == \A i, j \in 1..Len(s) : i < j => s[i] < s[j]
Has(s, n) == \E i \in 1..Len(s) : s[i] = n

\* In the end the host has recorded, in order, all of them but those refused.
Order(c) ==
  /\ Ascending(Future.log[c])
  /\ \A n \in Int : Has(Future.log[c], n) <=> n \in 1..Done(c) /\ n \notin refused[c]
  /\ refused[c] \subseteq 1..Done(c)

\* What the GPU was given is what was recorded, until the next recording begins.
Submitted(c) ==
  ~ring_ready /\ rec[c] = "submitted" /\ ~Opening(c) => host.ran[c] = host.log[c]

\* What the calls that returned made is there in the end, and no lookup fails.
Made(w) ==
  /\ w \in Compilers =>
       /\ step[w] \in 1..3 => Of("shader", w) \in Future.objects
       /\ step[w] >= 2 => Of("layout", w) \in Future.objects
       /\ step[w] >= 3 => Of("pipeline", w) \in Future.objects
  /\ w \in Allocators =>
       /\ step[w] >= 1 => Of("buffer", w) \in Future.objects
       /\ step[w] >= 2 => Of("memory", w) \in Future.objects

\* What waits in the batch creates nothing that bypasses it, and destroys only
\* shaders whose compiler is done.
Harmless(cmd) ==
  /\ cmd.op = "create" => ~Bypasses(cmd)
  /\ cmd.op = "destroy" => \E w \in Compilers : cmd.obj = Of("shader", w) /\ step[w] = 4

ObjectsInv ==
  ~ring_ready =>
    /\ Future.lookups_ok
    /\ \A w \in Workers : Made(w)
    /\ \A i \in 1..Len(Batch) : Harmless(Batch[i])

RecordInv == (\A c \in CmdBufs : Window(c) /\ Order(c) /\ Submitted(c)) /\ ObjectsInv

LEMMA WayTypes ==
  ASSUME CallInv
  PROVE  /\ Batch \in Seq(Commands) /\ OnTheWay \in Seq(Commands)
         /\ host \in HostType /\ Future \in HostType
         /\ draft \in Seq(Commands) /\ pending \in Seq(Commands) /\ running \in Seq(Commands)
<1>1. QueuesOK /\ host \in HostType
  BY TypeParts DEF CallInv
<1>2. <<>> \in Seq(Commands)
  OBVIOUS
<1>3. Batch \in Seq(Commands)
  BY <1>1, <1>2 DEF Batch, QueuesOK
<1>4. draft \in Seq(Commands) /\ pending \in Seq(Commands) /\ running \in Seq(Commands)
  BY <1>1 DEF QueuesOK
<1>5. OnTheWay \in Seq(Commands)
  <2>1. draft \o Batch \in Seq(Commands)
    BY <1>3, <1>4
  <2>2. pending \o (draft \o Batch) \in Seq(Commands)
    BY <1>4, <2>1
  <2> QED
    BY <1>4, <2>2 DEF OnTheWay
<1> QED
  BY <1>1, <1>3, <1>4, <1>5, RunType DEF Future

LEMMA Joins ==
  ASSUME NEW X, NEW p \in Seq(X), NEW q \in Seq(X), NEW r \in Seq(X)
  PROVE  /\ <<>> \o p = p /\ p \o <<>> = p
         /\ (p \o q) \o r = p \o (q \o r)
         /\ \A x \in X : p \o Append(q, x) = Append(p \o q, x) /\ p \o <<x>> = Append(p, x)
<1>1. <<>> \o p = p /\ p \o <<>> = p
  OBVIOUS
<1>2. (p \o q) \o r = p \o (q \o r)
  BY ConcatAssociative
<1>3. ASSUME NEW x \in X PROVE p \o Append(q, x) = Append(p \o q, x) /\ p \o <<x>> = Append(p, x)
  OBVIOUS
<1> QED
  BY <1>1, <1>2, <1>3

\* Without a ring everything on its way is in the batch; with one the batch is closed.
LEMMA Ways ==
  ASSUME CallInv, NEW c \in CmdBufs, Window(c)
  PROVE  /\ ~ring_ready => OnTheWay = Batch
         /\ ring_ready => ~batch_active /\ Batch = <<>>
         /\ ~Opening(c) => ~batch_active /\ Batch = <<>> /\ ~ring_active
         /\ Opening(c) /\ ring_ready => ring_active
         /\ batch_active => Opening(c)
         /\ Opening(c) /\ ~ring_ready /\ batch_enabled => batch_active
<1>1. ~ring_ready => OnTheWay = Batch
  <2> SUFFICES ASSUME ~ring_ready PROVE OnTheWay = Batch
    OBVIOUS
  <2>1. draft = <<>> /\ pending = <<>> /\ running = <<>>
    BY DEF CallInv, OfferInv
  <2>2. Batch \in Seq(Commands)
    BY WayTypes
  <2>3. <<>> \o (<<>> \o (<<>> \o Batch)) = Batch
    BY <2>2
  <2> QED
    BY <2>1, <2>3 DEF OnTheWay
<1>2. ModesOK
  BY TypeParts DEF CallInv
<1> QED
  BY <1>1, <1>2 DEF Window, Batch, batch_active, ring_active, ModesOK

-----------------------------------------------------------------------------
\* How what the host will be changes

LEMMA FutureSame ==
  ASSUME host' = host, OnTheWay' = OnTheWay PROVE Future' = Future
BY DEF Future

\* The host ran the first of what is on its way.
LEMMA FutureRan ==
  ASSUME NEW p \in Seq(Commands), OnTheWay' \in Seq(Commands),
         OnTheWay = p \o OnTheWay', host' = HostRuns(host, p)
  PROVE  Future' = Future
<1>1. HostRuns(host, p \o OnTheWay') = HostRuns(HostRuns(host, p), OnTheWay')
  BY RunConcat
<1> QED
  BY <1>1 DEF Future

\* One command more is on its way, or arrived after all that was.
LEMMA FutureSent ==
  ASSUME CallInv, NEW cmd \in Commands, host' = host, OnTheWay' = Append(OnTheWay, cmd)
  PROVE  Future' = HostDoes(Future, cmd)
<1>1. HostRuns(host, Append(OnTheWay, cmd)) = HostDoes(HostRuns(host, OnTheWay), cmd)
  BY WayTypes, RunAppend
<1> QED
  BY <1>1 DEF Future

LEMMA FutureArrived ==
  ASSUME CallInv, NEW cmd \in Commands, OnTheWay' = <<>>,
         host' = HostRuns(host, Append(OnTheWay, cmd))
  PROVE  Future' = HostDoes(Future, cmd)
<1>1. HostRuns(host, Append(OnTheWay, cmd)) = HostDoes(HostRuns(host, OnTheWay), cmd)
  BY WayTypes, RunAppend
<1> QED
  BY <1>1, RunNone DEF Future

LEMMA OrderKept ==
  ASSUME NEW c \in CmdBufs, Order(c), Future'.log[c] = Future.log[c], Done(c)' = Done(c),
         refused'[c] = refused[c]
  PROVE  Order(c)'
<1>1. /\ Ascending(Future'.log[c])
      /\ \A n \in Int : Has(Future'.log[c], n) <=> n \in 1..Done(c)' /\ n \notin refused'[c]
      /\ refused'[c] \subseteq 1..Done(c)'
  BY DEF Order
<1> QED
  BY <1>1 DEF Order

\* The next command of c joins what the host will have recorded.
LEMMA LogGrows ==
  ASSUME NEW s \in Seq(Int), NEW d \in Nat, NEW R, R \subseteq 1..d, Ascending(s),
         \A n \in Int : Has(s, n) <=> n \in 1..d /\ n \notin R
  PROVE  /\ Ascending(Append(s, d + 1))
         /\ \A n \in Int : Has(Append(s, d + 1), n) <=> n \in 1..(d + 1) /\ n \notin R
         /\ R \subseteq 1..(d + 1)
<1> DEFINE t == Append(s, d + 1)
<1>1. /\ Len(t) = Len(s) + 1 /\ Len(s) \in Nat
      /\ \A i \in 1..Len(s) : t[i] = s[i] /\ t[i] \in Int
      /\ t[Len(s) + 1] = d + 1
  OBVIOUS
<1> HIDE DEF t
<1>2. \A i \in 1..Len(s) : s[i] <= d /\ s[i] \in Int
  <2> SUFFICES ASSUME NEW i \in 1..Len(s) PROVE s[i] <= d /\ s[i] \in Int
    OBVIOUS
  <2>1. s[i] \in Int
    OBVIOUS
  <2>2. Has(s, s[i])
    BY DEF Has
  <2>3. s[i] \in 1..d
    BY <2>1, <2>2
  <2> QED
    BY <2>1, <2>3
<1>3. Ascending(t)
  <2> SUFFICES ASSUME NEW i \in 1..Len(t), NEW j \in 1..Len(t), i < j PROVE t[i] < t[j]
    BY DEF Ascending
  <2>1. i \in 1..Len(s) /\ i \in Int /\ j \in Int
    BY <1>1
  <2>2. CASE j \in 1..Len(s)
    <3>1. Ascending(s) /\ t[i] = s[i] /\ t[j] = s[j]
      BY <1>1, <2>1, <2>2
    <3>2. s[i] < s[j]
      BY ONLY <2>1, <2>2, <3>1, i < j DEF Ascending
    <3> QED
      BY ONLY <3>1, <3>2
  <2>3. CASE j = Len(s) + 1
    <3>1. t[i] = s[i] /\ t[j] = d + 1 /\ s[i] <= d /\ s[i] \in Int /\ d \in Int
      BY <1>1, <1>2, <2>1, <2>3
    <3> QED
      BY ONLY <3>1
  <2>4. j \in 1..Len(s) \/ j = Len(s) + 1
    <3> DEFINE m == Len(s)
    <3>1. m \in Nat /\ j \in 1..(m + 1)
      BY <1>1
    <3> HIDE DEF m
    <3>2. j \in 1..m \/ j = m + 1
      BY ONLY <3>1
    <3> QED
      BY ONLY <3>2 DEF m
  <2> QED
    BY ONLY <2>2, <2>3, <2>4
<1>4. ASSUME NEW n \in Int PROVE Has(t, n) <=> n \in 1..(d + 1) /\ n \notin R
  <2>1. Has(t, n) <=> Has(s, n) \/ n = d + 1
    <3>1. ASSUME Has(s, n) PROVE Has(t, n)
      <4>1. PICK i \in 1..Len(s) : s[i] = n
        BY <3>1 DEF Has
      <4>2. i \in 1..Len(t) /\ t[i] = n
        BY <1>1, <4>1
      <4> QED
        BY <4>2 DEF Has
    <3>2. ASSUME n = d + 1 PROVE Has(t, n)
      <4>1. Len(s) + 1 \in 1..Len(t)
        BY <1>1
      <4> QED
        BY <1>1, <3>2, <4>1 DEF Has
    <3>3. ASSUME Has(t, n) PROVE Has(s, n) \/ n = d + 1
      <4>1. PICK i \in 1..Len(t) : t[i] = n
        BY <3>3 DEF Has
      <4>2. i \in 1..Len(s) \/ i = Len(s) + 1
        BY <1>1
      <4> QED
        BY <1>1, <4>1, <4>2 DEF Has
    <3> QED
      BY <3>1, <3>2, <3>3
  <2>2. n \in 1..(d + 1) <=> n \in 1..d \/ n = d + 1
    OBVIOUS
  <2>3. d + 1 \notin R
    OBVIOUS
  <2> QED
    BY <2>1, <2>2, <2>3
<1>5. R \subseteq 1..(d + 1)
  OBVIOUS
<1> QED
  BY <1>3, <1>4, <1>5 DEF t

LEMMA SeqWider ==
  ASSUME NEW A, NEW B, A \subseteq B, NEW s \in Seq(A)
  PROVE  s \in Seq(B)
BY SeqMonotonic

LEMMA FutureLogs ==
  ASSUME CallInv, NEW c \in CmdBufs
  PROVE  Future.log[c] \in Seq(Int)
<1>1. Future.log[c] \in Seq(1..MaxIssued)
  BY WayTypes DEF HostType
<1>2. MaxIssued \in Nat
  BY Budgets, TypeParts DEF CallInv
<1>3. 1..MaxIssued \subseteq Int
  BY <1>2
<1> QED
  BY <1>1, <1>3, SeqWider

LEMMA OrderGrows ==
  ASSUME CallInv, NEW c \in CmdBufs, Order(c), Done(c) \in Nat,
         Future'.log[c] = Append(Future.log[c], Done(c) + 1),
         Done(c)' = Done(c) + 1, refused'[c] = refused[c]
  PROVE  Order(c)'
<1> DEFINE s == Future.log[c]
           d == Done(c)
           R == refused[c]
<1>1. s \in Seq(Int)
  BY FutureLogs
<1>2. /\ R \subseteq 1..d /\ Ascending(s)
      /\ \A n \in Int : Has(s, n) <=> n \in 1..d /\ n \notin R
  BY DEF Order
<1>3. d \in Nat
  OBVIOUS
<1> HIDE DEF s, d, R
<1>4. /\ Ascending(Append(s, d + 1))
      /\ \A n \in Int : Has(Append(s, d + 1), n) <=> n \in 1..(d + 1) /\ n \notin R
      /\ R \subseteq 1..(d + 1)
  BY <1>1, <1>2, <1>3, LogGrows
<1>5. Future'.log[c] = Append(s, d + 1) /\ Done(c)' = d + 1 /\ refused'[c] = R
  BY DEF s, d, R
<1>6. /\ Ascending(Future'.log[c])
      /\ \A n \in Int : Has(Future'.log[c], n) <=> n \in 1..Done(c)' /\ n \notin refused'[c]
      /\ refused'[c] \subseteq 1..Done(c)'
  BY <1>4, <1>5
<1> QED
  BY <1>6 DEF Order

\* ... or the ring refuses it.
LEMMA OrderRefuses ==
  ASSUME CallInv, NEW c \in CmdBufs, Order(c), Done(c) \in Nat,
         Future'.log[c] = Future.log[c],
         Done(c)' = Done(c) + 1, refused'[c] = refused[c] \cup {Done(c) + 1}
  PROVE  Order(c)'
<1> DEFINE s == Future.log[c]
           d == Done(c)
           R == refused[c]
<1>1. /\ R \subseteq 1..d /\ Ascending(s)
      /\ \A n \in Int : Has(s, n) <=> n \in 1..d /\ n \notin R
  BY DEF Order
<1>2. d \in Nat
  OBVIOUS
<1> HIDE DEF s, d, R
<1>3. /\ \A n \in Int : Has(s, n) <=> n \in 1..(d + 1) /\ n \notin R \cup {d + 1}
      /\ R \cup {d + 1} \subseteq 1..(d + 1)
  <2>1. \A n \in Int : (n \in 1..d /\ n \notin R) <=> (n \in 1..(d + 1) /\ n \notin R \cup {d + 1})
    BY <1>2
  <2>2. R \cup {d + 1} \subseteq 1..(d + 1)
    BY <1>1, <1>2
  <2> QED
    BY <1>1, <2>1, <2>2
<1>4. Future'.log[c] = s /\ Done(c)' = d + 1 /\ refused'[c] = R \cup {d + 1}
  BY DEF s, d, R
<1>5. /\ Ascending(Future'.log[c])
      /\ \A n \in Int : Has(Future'.log[c], n) <=> n \in 1..Done(c)' /\ n \notin refused'[c]
      /\ refused'[c] \subseteq 1..Done(c)'
  BY <1>1, <1>3, <1>4
<1> QED
  BY <1>5 DEF Order

-----------------------------------------------------------------------------
\* The command of a call

\* What a recorder encoded is the next command of its buffer, or the buffer's submission.
LEMMA RecorderCommand ==
  ASSUME CallInv, NEW c \in CmdBufs, pc[c] \in InCall, NEW cmd \in CallCmds(c), cmd \in Commands
  PROVE  /\ call[c].name = "QueueSubmit" => cmd = Submit(c) /\ Done(c) = issued[c]
         /\ call[c].name # "QueueSubmit" =>
              /\ \E uses \in UsesOf : cmd = Recorded(c, Done(c) + 1, uses)
              /\ Done(c) \in Nat /\ Done(c) + 1 = issued[c]
              /\ cmd.op = "record" /\ cmd.cb = c /\ cmd.n = Done(c) + 1
<1>1. c \notin Workers
  BY WhoIsWho
<1>2. CASE call[c].name = "QueueSubmit"
  BY <1>1, <1>2 DEF CallCmds, Done
<1>3. CASE call[c].name # "QueueSubmit"
  <2>1. PICK uses \in UsesOf : cmd = Recorded(c, issued[c], uses)
    BY <1>1, <1>3 DEF CallCmds
  <2>2. cmd.op = "record" /\ cmd.cb = c /\ cmd.n = issued[c]
    BY <2>1 DEF Recorded
  <2>3. issued[c] \in 1..MaxIssued
    BY <2>2, CommandForms DEF WellFormed
  <2>4. Done(c) = issued[c] - 1
    BY <1>3 DEF Done
  <2>5. MaxIssued \in Nat
    BY Budgets, TypeParts DEF CallInv
  <2>6. Done(c) \in Nat /\ Done(c) + 1 = issued[c]
    BY <2>3, <2>4, <2>5
  <2> QED
    BY <1>3, <2>1, <2>2, <2>6
<1> QED
  BY <1>2, <1>3

LEMMA WorkerCommand ==
  ASSUME CallInv, NEW w \in Workers, pc[w] \in InCall, NEW cmd \in CallCmds(w), cmd \in Commands
  PROVE  /\ cmd = JobCall(w, step[w]) /\ step[w] \in 0..4 /\ step[w] < JobLength(w)
         /\ cmd.op \notin {"record", "submit"}
         /\ call[w].immediate <=> Bypasses(cmd)
<1>1. cmd = JobCall(w, step[w])
  BY DEF CallCmds
<1>2. WorkerInv(w) /\ JobsOK
  BY TypeParts DEF CallInv, CallsInv
<1>3. step[w] \in 0..4 /\ step[w] < JobLength(w) /\ (call[w].immediate <=> Bypasses(cmd))
  BY <1>1, <1>2 DEF WorkerInv, JobsOK
<1>4. cmd.op \notin {"record", "submit"}
  BY <1>1, <1>3, WhoIsWho DEF JobCall, JobLength, Create, Bind, Destroy
<1> QED
  BY <1>1, <1>3, <1>4

-----------------------------------------------------------------------------
\* Steps after which the host will be what it was going to be

LEMMA FutureKeeps ==
  ASSUME NEW c \in CmdBufs, CmdBufs = {c}, RecordInv,
         Future' = Future, Done(c)' = Done(c), refused'[c] = refused[c], step' = step,
         ring_ready => ring_ready', ~ring_ready' => Batch' = Batch \/ Batch' = <<>>,
         Window(c)', Submitted(c)'
  PROVE  RecordInv'
<1>1. Order(c)'
  BY OrderKept DEF RecordInv
<1>2. ObjectsInv'
  <2> SUFFICES ASSUME ~ring_ready'
               PROVE  /\ Future'.lookups_ok
                      /\ \A w \in Workers : Made(w)'
                      /\ \A i \in 1..Len(Batch') : Harmless(Batch[i])'
    BY DEF ObjectsInv
  <2>1. /\ Future.lookups_ok /\ \A w \in Workers : Made(w)
        /\ \A i \in 1..Len(Batch) : Harmless(Batch[i])
    BY DEF RecordInv, ObjectsInv
  <2>2. \A w \in Workers : Made(w)'
    BY <2>1 DEF Made
  <2>3. ASSUME NEW i \in 1..Len(Batch') PROVE Harmless(Batch[i])'
    <3>1. Batch' = Batch
      BY <2>3
    <3>2. Harmless(Batch[i])
      BY <2>1, <3>1
    <3> QED
      BY <3>1, <3>2 DEF Harmless
  <2> QED
    BY <2>1, <2>2, <2>3
<1> QED
  BY <1>1, <1>2 DEF RecordInv

\* The recorder stays where it is.
LEMMA RecorderStays ==
  ASSUME NEW c \in CmdBufs, Window(c),
         pc'[c] = pc[c], call'[c] = call[c], rec'[c] = rec[c], issued'[c] = issued[c],
         batch_recording' = batch_recording, ring_recording' = ring_recording,
         batch_enabled' = batch_enabled, ring_ready' = ring_ready
  PROVE  (Opening(c)' <=> Opening(c)) /\ Done(c)' = Done(c) /\ Window(c)'
<1>1. (Opening(c)' <=> Opening(c)) /\ Done(c)' = Done(c)
  BY DEF Opening, Done
<1>2. Window(c)'
  BY <1>1 DEF Window
<1> QED
  BY <1>1, <1>2

\* Nothing moves but a thread that is not in the middle of a call.
LEMMA QuietKeeps ==
  ASSUME NEW c \in CmdBufs, CmdBufs = {c}, CallInv, RecordInv,
         host' = host, OnTheWay' = OnTheWay, Batch' = Batch, step' = step,
         ring_ready' = ring_ready,
         pc'[c] = pc[c], call'[c] = call[c], rec'[c] = rec[c], issued'[c] = issued[c],
         refused' = refused, batch_recording' = batch_recording,
         ring_recording' = ring_recording, batch_enabled' = batch_enabled
  PROVE  RecordInv'
<1>1. Window(c) /\ Submitted(c)
  BY DEF RecordInv
<1>2. (Opening(c)' <=> Opening(c)) /\ Done(c)' = Done(c) /\ Window(c)'
  BY <1>1, RecorderStays
<1>3. Future' = Future
  BY FutureSame
<1>4. Submitted(c)'
  BY <1>1, <1>2 DEF Submitted
<1> QED
  BY <1>2, <1>3, <1>4, FutureKeeps

LEMMA RingInitRecord ==
  ASSUME NEW c \in CmdBufs, CmdBufs = {c}, CallInv, RecordInv, RingInit(c)
  PROVE  RecordInv'
<1>1. /\ pc[c] = "idle" /\ pc' = [pc EXCEPT ![c] = "ring_init"]
      /\ call' = call /\ rec' = rec /\ step' = step
      /\ host' = host /\ ring_ready' = ring_ready
      /\ batch_enabled' = batch_enabled /\ batch_enc' = batch_enc
      /\ batch_recording' = batch_recording /\ ring_recording' = ring_recording
      /\ issued' = issued /\ refused' = refused
      /\ draft' = draft /\ pending' = pending /\ running' = running
  BY DEF RingInit, modeVars, windowVars, bookVars, ringVars
<1>2. pc'[c] = "ring_init"
  BY <1>1, TypeParts, WhoIsWho DEF CallInv, ThreadsOK
<1>3. Batch' = Batch /\ OnTheWay' = OnTheWay
  BY <1>1 DEF Batch, OnTheWay, batch_active
<1>4. Opening(c)' <=> Opening(c)
  BY <1>1, <1>2 DEF Opening, InCall
<1>5. Done(c)' = Done(c)
  BY <1>1, <1>2 DEF Done, InCall
<1>6. Window(c)' /\ Submitted(c)'
  BY <1>1, <1>4 DEF RecordInv, Window, Submitted
<1>7. Future' = Future
  BY <1>1, <1>3, FutureSame
<1> QED
  BY <1>1, <1>3, <1>5, <1>6, <1>7, FutureKeeps

LEMMA RingInitDoneRecord ==
  ASSUME NEW c \in CmdBufs, CmdBufs = {c}, CallInv, RecordInv, RingInitDone(c)
  PROVE  RecordInv'
<1>1. /\ pc[c] = "ring_init" /\ pc' = [pc EXCEPT ![c] = "begin"]
      /\ call' = call /\ rec' = rec /\ step' = step /\ host' = host
      /\ batch_enabled' = batch_enabled /\ batch_enc' = batch_enc
      /\ batch_recording' = batch_recording /\ ring_recording' = ring_recording
      /\ issued' = issued /\ refused' = refused
  BY DEF RingInitDone, modeVars, windowVars, bookVars
<1>2. /\ draft' = draft /\ pending' = pending /\ running' = running
      /\ ring_ready' = TRUE \/ ring_ready' = ring_ready
  BY DEF RingInitDone, ringVars, Stream!Open
<1>3. pc'[c] = "begin"
  BY <1>1, TypeParts, WhoIsWho DEF CallInv, ThreadsOK
<1>4. Batch' = Batch /\ OnTheWay' = OnTheWay
  BY <1>1, <1>2 DEF Batch, OnTheWay, batch_active
<1>5. ~Opening(c) /\ ~Opening(c)'
  <2>1. rec[c] \in {"idle", "submitted"}
    BY <1>1 DEF CallInv, CallsInv, RecorderInv, MayBegin
  <2> QED
    BY <1>1, <1>3, <2>1 DEF Opening, InCall
<1>6. Done(c)' = Done(c)
  BY <1>1, <1>3 DEF Done, InCall
<1>7. Window(c)'
  BY <1>1, <1>5 DEF RecordInv, Window
<1>8. ring_ready => ring_ready'
  BY <1>2, Zenon
<1>9. Submitted(c)'
  BY <1>1, <1>5, <1>8 DEF RecordInv, Submitted
<1>10. Future' = Future
  BY <1>1, <1>4, FutureSame
<1> QED
  BY <1>1, <1>4, <1>6, <1>7, <1>8, <1>9, <1>10, FutureKeeps

LEMMA BeginRecord ==
  ASSUME NEW c \in CmdBufs, CmdBufs = {c}, CallInv, CallInv', RecordInv, Begin(c)
  PROVE  RecordInv'
<1>1. /\ pc[c] \in {"idle", "begin"} /\ rec[c] \in {"idle", "submitted"}
      /\ pc' = [pc EXCEPT ![c] = "encoded"]
      /\ call' = [call EXCEPT ![c] = [name |-> "Begin", immediate |-> FALSE]]
      /\ rec' = rec /\ step' = step /\ host' = host
      /\ batch_enabled' = batch_enabled /\ ring_ready' = ring_ready
      /\ issued' = [issued EXCEPT ![c] = @ + 1] /\ refused' = refused
      /\ draft' = draft /\ pending' = pending /\ running' = running
  BY DEF Begin, MayBegin, Encode, Issue, modeVars, ringVars
<1>2. ModesOK /\ ThreadsOK /\ BooksOK /\ c \in Threads
  BY TypeParts, WhoIsWho DEF CallInv
<1>3. pc'[c] = "encoded" /\ call'[c].name = "Begin" /\ issued'[c] = issued[c] + 1
  BY <1>1, <1>2 DEF ThreadsOK, BooksOK
<1>4. ~Opening(c) /\ Opening(c)'
  BY <1>1, <1>3 DEF Opening, InCall
<1>5. Done(c)' = Done(c)
  <2>1. Done(c) = issued[c] /\ Done(c)' = (issued[c] + 1) - 1
    BY <1>1, <1>3 DEF Done, InCall
  <2>2. issued[c] \in Int
    BY <1>2, Budgets
  <2> QED
    BY <2>1, <2>2
<1>6. ~batch_recording /\ ~ring_recording
  BY <1>4 DEF RecordInv, Window
<1>7. Window(c)'
  <2>1. CASE ring_ready
    BY <1>1, <1>4, <1>6, <2>1 DEF Begin, Window
  <2>2. CASE ~ring_ready /\ batch_enabled
    BY <1>1, <1>4, <1>6, <2>2 DEF Begin, Window
  <2>3. CASE ~ring_ready /\ ~batch_enabled
    BY <1>1, <1>4, <1>6, <2>3 DEF Begin, Window
  <2> QED
    BY <2>1, <2>2, <2>3
<1>8. Batch' = Batch
  <2>1. Batch = <<>>
    BY <1>6 DEF Batch, batch_active
  <2>2. CASE batch_active'
    <3>1. batch_recording' /\ batch_enabled
      BY <1>1, <2>2 DEF batch_active
    <3>2. batch_enc' = <<>>
      BY <1>6, <3>1 DEF Begin
    <3> QED
      BY <2>1, <3>2 DEF Batch
  <2>3. CASE ~batch_active'
    BY <2>1, <2>3 DEF Batch
  <2> QED
    BY <2>2, <2>3
<1>9. OnTheWay' = OnTheWay
  BY <1>1, <1>8 DEF OnTheWay
<1>10. Future' = Future
  BY <1>1, <1>9, FutureSame
<1>11. Submitted(c)'
  BY <1>4 DEF Submitted
<1> QED
  BY <1>1, <1>5, <1>7, <1>8, <1>10, <1>11, FutureKeeps

\* The calls that begin within an open recording, or submit one that is closed.
LEMMA RecorderStarts ==
  ASSUME NEW c \in CmdBufs, CmdBufs = {c}, CallInv, RecordInv,
         NEW name \in {"Cmd", "End", "QueueSubmit"}, NEW cmd,
         EncBegin(c, name, cmd, FALSE), pc[c] = "idle",
         name = "QueueSubmit" => rec[c] = "ended" /\ issued' = issued,
         name # "QueueSubmit" => rec[c] = "open" /\ issued' = [issued EXCEPT ![c] = @ + 1]
  PROVE  RecordInv'
<1>1. /\ pc' = [pc EXCEPT ![c] = "encoded"]
      /\ call' = [call EXCEPT ![c] = [name |-> name, immediate |-> FALSE]]
      /\ rec' = rec /\ step' = step /\ host' = host
      /\ batch_enabled' = batch_enabled /\ ring_ready' = ring_ready /\ refused' = refused
      /\ batch_recording' = batch_recording /\ batch_enc' = batch_enc
      /\ ring_recording' = ring_recording
      /\ draft' = draft /\ pending' = pending /\ running' = running
  BY DEF EncBegin, Encode, modeVars, windowVars, ringVars
<1>2. ModesOK /\ ThreadsOK /\ BooksOK /\ c \in Threads
  BY TypeParts, WhoIsWho DEF CallInv
<1>3. pc'[c] = "encoded" /\ call'[c].name = name
  BY <1>1, <1>2 DEF ThreadsOK
<1>4. Opening(c)' <=> Opening(c)
  BY <1>1, <1>3 DEF Opening, InCall
<1>5. Done(c)' = Done(c)
  <2>1. issued[c] \in Int
    BY <1>2, Budgets
  <2>2. Done(c) = issued[c]
    BY DEF Done, InCall
  <2>3. CASE name = "QueueSubmit"
    BY <1>3, <2>2, <2>3 DEF Done
  <2>4. CASE name # "QueueSubmit"
    <3>1. issued'[c] = issued[c] + 1
      BY <1>2, <2>4 DEF BooksOK
    <3>2. Done(c)' = (issued[c] + 1) - 1
      BY <1>3, <2>4, <3>1 DEF Done, InCall
    <3> QED
      BY <2>1, <2>2, <3>2
  <2> QED
    BY <2>3, <2>4
<1>6. Batch' = Batch /\ OnTheWay' = OnTheWay
  BY <1>1 DEF Batch, OnTheWay, batch_active
<1>7. Window(c)' /\ Submitted(c)'
  BY <1>1, <1>4 DEF RecordInv, Window, Submitted
<1>8. Future' = Future
  BY <1>1, <1>6, FutureSame
<1> QED
  BY <1>1, <1>5, <1>6, <1>7, <1>8, FutureKeeps


LEMMA CmdRecord ==
  ASSUME NEW c \in CmdBufs, CmdBufs = {c}, CallInv, RecordInv, Cmd(c)
  PROVE  RecordInv'
<1>1. PICK uses : EncBegin(c, "Cmd", NextOf(c, uses), FALSE)
  BY DEF Cmd
<1>2. pc[c] = "idle" /\ rec[c] = "open" /\ issued' = [issued EXCEPT ![c] = @ + 1]
  BY DEF Cmd, Issue
<1> QED
  BY <1>1, <1>2, RecorderStarts

LEMMA EndRecord ==
  ASSUME NEW c \in CmdBufs, CmdBufs = {c}, CallInv, RecordInv, End(c)
  PROVE  RecordInv'
<1>1. /\ EncBegin(c, "End", NextOf(c, {}), FALSE)
      /\ pc[c] = "idle" /\ rec[c] = "open" /\ issued' = [issued EXCEPT ![c] = @ + 1]
  BY DEF End, Issue
<1> QED
  BY <1>1, RecorderStarts

LEMMA QueueSubmitRecord ==
  ASSUME NEW c \in CmdBufs, CmdBufs = {c}, CallInv, RecordInv, QueueSubmit(c)
  PROVE  RecordInv'
<1>1. /\ EncBegin(c, "QueueSubmit", Submit(c), FALSE)
      /\ pc[c] = "idle" /\ rec[c] = "ended" /\ issued' = issued
  BY DEF QueueSubmit
<1> QED
  BY <1>1, RecorderStarts

\* A worker's call begins.
LEMMA WorkerStarts ==
  ASSUME NEW c \in CmdBufs, CmdBufs = {c}, CallInv, RecordInv, NEW w \in Workers,
         NEW cmd, NEW immediate, EncBegin(w, "job", cmd, immediate), issued' = issued
  PROVE  RecordInv'
<1>1. /\ pc' = [pc EXCEPT ![w] = "encoded"]
      /\ call' = [call EXCEPT ![w] = [name |-> "job", immediate |-> immediate]]
      /\ rec' = rec /\ step' = step /\ host' = host
      /\ batch_enabled' = batch_enabled /\ ring_ready' = ring_ready /\ refused' = refused
      /\ batch_recording' = batch_recording /\ batch_enc' = batch_enc
      /\ ring_recording' = ring_recording
      /\ draft' = draft /\ pending' = pending /\ running' = running
  BY DEF EncBegin, Encode, modeVars, windowVars, ringVars
<1>2. ThreadsOK /\ c \in Threads /\ c # w
  BY TypeParts, WhoIsWho DEF CallInv
<1>3. pc'[c] = pc[c] /\ call'[c] = call[c]
  BY <1>1, <1>2 DEF ThreadsOK
<1>4. Batch' = Batch /\ OnTheWay' = OnTheWay
  BY <1>1 DEF Batch, OnTheWay, batch_active
<1> QED
  BY <1>1, <1>3, <1>4, QuietKeeps

LEMMA JobRecord ==
  ASSUME NEW c \in CmdBufs, CmdBufs = {c}, CallInv, RecordInv, NEW w \in Workers, Job(w)
  PROVE  RecordInv'
<1>1. EncBegin(w, "job", JobCall(w, step[w]), Bypasses(JobCall(w, step[w]))) /\ issued' = issued
  BY DEF Job
<1> QED
  BY <1>1, WorkerStarts

LEMMA AllocateEncodedRecord ==
  ASSUME NEW c \in CmdBufs, CmdBufs = {c}, CallInv, RecordInv, NEW w \in Workers,
         AllocateEncoded(w)
  PROVE  RecordInv'
<1>1. EncBegin(w, "job", JobCall(w, 1), FALSE) /\ issued' = issued
  BY DEF AllocateEncoded
<1> QED
  BY <1>1, WorkerStarts

LEMMA AllocateMemoryRecord ==
  ASSUME NEW c \in CmdBufs, CmdBufs = {c}, CallInv, RecordInv, NEW w \in Workers,
         AllocateMemory(w)
  PROVE  RecordInv'
<1>1. /\ \E p : pc' = [pc EXCEPT ![w] = p]
      /\ call' = call /\ rec' = rec /\ step' = step /\ host' = host
      /\ batch_enabled' = batch_enabled /\ ring_ready' = ring_ready
      /\ refused' = refused /\ issued' = issued
      /\ batch_recording' = batch_recording /\ batch_enc' = batch_enc
      /\ ring_recording' = ring_recording
      /\ draft' = draft /\ pending' = pending /\ running' = running
  BY DEF AllocateMemory, modeVars, windowVars, bookVars, ringVars
<1>2. ThreadsOK /\ c \in Threads /\ c # w
  BY TypeParts, WhoIsWho DEF CallInv
<1>3. pc'[c] = pc[c]
  BY <1>1, <1>2 DEF ThreadsOK
<1>4. Batch' = Batch /\ OnTheWay' = OnTheWay
  BY <1>1 DEF Batch, OnTheWay, batch_active
<1> QED
  BY <1>1, <1>3, <1>4, QuietKeeps

\* Finding space in the ring is not yet writing to it.
LEMMA RingReserveRecord ==
  ASSUME NEW c \in CmdBufs, CmdBufs = {c}, CallInv, RecordInv, NEW t \in Threads,
         RingReserve(t)
  PROVE  RecordInv'
<1>1. /\ pc[t] = "encoded" /\ pc' = [pc EXCEPT ![t] = "writing"]
      /\ call' = call /\ rec' = rec /\ step' = step /\ host' = host
      /\ batch_enabled' = batch_enabled /\ ring_ready' = ring_ready
      /\ refused' = refused /\ issued' = issued
      /\ batch_recording' = batch_recording /\ batch_enc' = batch_enc
      /\ ring_recording' = ring_recording
      /\ draft' = draft /\ pending' = pending /\ running' = running
  BY DEF RingReserve, modeVars, windowVars, bookVars, ringVars, Stream!OfferWords
<1>2. ThreadsOK /\ c \in Threads
  BY TypeParts, WhoIsWho DEF CallInv
<1>3. pc'[c] \in InCall <=> pc[c] \in InCall
  BY <1>1, <1>2 DEF ThreadsOK, InCall
<1>4. Batch' = Batch /\ OnTheWay' = OnTheWay
  BY <1>1 DEF Batch, OnTheWay, batch_active
<1>5. (Opening(c)' <=> Opening(c)) /\ Done(c)' = Done(c)
  BY <1>1, <1>3 DEF Opening, Done
<1>6. Window(c)' /\ Submitted(c)'
  BY <1>1, <1>5 DEF RecordInv, Window, Submitted
<1>7. Future' = Future
  BY <1>1, <1>4, FutureSame
<1> QED
  BY <1>1, <1>4, <1>5, <1>6, <1>7, FutureKeeps

LEMMA Joined ==
  ASSUME NEW X, NEW p \in Seq(X), NEW q \in Seq(X), NEW r \in Seq(X)
  PROVE  (p \o q) \o r = p \o (q \o r)
BY ConcatAssociative

LEMMA JoinedNone ==
  ASSUME NEW X, NEW p \in Seq(X) PROVE <<>> \o p = p
BY ConcatEmptySeq

\* Publishing moves the writer's words within the way.
LEMMA PublishWay ==
  ASSUME CallInv, Stream!Publish, Batch' = Batch
  PROVE  OnTheWay' = OnTheWay
<1>1. pending' = pending \o draft /\ draft' = <<>> /\ running' = running
  BY DEF Stream!Publish
<1>2. running \o ((pending \o draft) \o (<<>> \o Batch)) = running \o (pending \o (draft \o Batch))
  <2>1. /\ Batch \in Seq(Commands) /\ running \in Seq(Commands)
        /\ pending \in Seq(Commands) /\ draft \in Seq(Commands)
    BY WayTypes
  <2>2. <<>> \o Batch = Batch
    BY ONLY <2>1, JoinedNone
  <2>3. (pending \o draft) \o Batch = pending \o (draft \o Batch)
    BY ONLY <2>1, Joined
  <2> QED
    BY ONLY <2>2, <2>3
<1> QED
  BY <1>1, <1>2 DEF OnTheWay

LEMMA SubmitFlushRecord ==
  ASSUME NEW c \in CmdBufs, CmdBufs = {c}, CallInv, RecordInv, SubmitFlush(c)
  PROVE  RecordInv'
<1>1. /\ pc[c] = "flushing" /\ pc' = [pc EXCEPT ![c] = "idle"]
      /\ call' = call /\ rec' = [rec EXCEPT ![c] = "submitted"]
      /\ step' = step /\ host' = host
      /\ batch_enabled' = batch_enabled /\ ring_ready' = ring_ready
      /\ refused' = refused /\ issued' = issued
      /\ batch_recording' = batch_recording /\ batch_enc' = batch_enc
      /\ ring_recording' = ring_recording
      /\ Stream!Publish
  BY DEF SubmitFlush, modeVars, windowVars, bookVars
<1>2. ThreadsOK /\ JobsOK /\ c \in Threads
  BY TypeParts, WhoIsWho DEF CallInv
<1>3. pc'[c] = "idle" /\ rec'[c] = "submitted"
  BY <1>1, <1>2 DEF ThreadsOK, JobsOK
<1>4. rec[c] = "ended" /\ ring_ready
  BY <1>1 DEF CallInv, CallsInv, RecorderInv
<1>5. ~Opening(c) /\ ~Opening(c)' /\ Done(c)' = Done(c)
  BY <1>1, <1>3, <1>4 DEF Opening, Done, InCall
<1>6. Batch' = Batch
  BY <1>1 DEF Batch, batch_active
<1>7. OnTheWay' = OnTheWay
  BY <1>1, <1>6, PublishWay
<1>8. Window(c)' /\ Submitted(c)'
  BY <1>1, <1>4, <1>5 DEF RecordInv, Window, Submitted
<1>9. Future' = Future
  BY <1>1, <1>7, FutureSame
<1> QED
  BY <1>1, <1>5, <1>6, <1>8, <1>9, FutureKeeps

LEMMA RingTakeRecord ==
  ASSUME NEW c \in CmdBufs, CmdBufs = {c}, CallInv, RecordInv, RingTake
  PROVE  RecordInv'
<1>1. /\ pc' = pc /\ call' = call /\ rec' = rec /\ step' = step /\ host' = host
      /\ batch_enabled' = batch_enabled /\ ring_ready' = ring_ready
      /\ refused' = refused /\ issued' = issued
      /\ batch_recording' = batch_recording /\ batch_enc' = batch_enc
      /\ ring_recording' = ring_recording
  BY DEF RingTake, guestVars, modeVars, windowVars, bookVars
<1>2. draft' = draft /\ Stream!Take
  BY DEF RingTake, Stream!Take
<1>3. QueuesOK
  BY TypeParts DEF CallInv
<1>4. running = <<>> /\ running' \o pending' = pending
      /\ running' \in Seq(Commands) /\ pending' \in Seq(Commands)
  BY <1>2, <1>3, TakeIs
<1>5. Batch' = Batch
  BY <1>1 DEF Batch, batch_active
<1>6. OnTheWay' = OnTheWay
  <2> DEFINE q == draft \o Batch
  <2>1. q \in Seq(Commands) /\ pending \in Seq(Commands)
    BY WayTypes
  <2>2. running' \o (pending' \o q) = pending \o q
    <3> HIDE DEF q
    <3>1. ASSUME NEW r \in Seq(Commands), NEW p \in Seq(Commands)
          PROVE  (r \o p) \o q = r \o (p \o q)
      BY ONLY <2>1, Joined
    <3>2. (running' \o pending') \o q = running' \o (pending' \o q)
      BY <1>4, <3>1
    <3> QED
      BY <1>4, <3>2
  <2>3. <<>> \o (pending \o q) = pending \o q
    <3> HIDE DEF q
    <3>1. pending \o q \in Seq(Commands)
      BY <2>1
    <3> QED
      BY <3>1
  <2> QED
    BY <1>2, <1>4, <1>5, <2>2, <2>3 DEF OnTheWay
<1> QED
  BY <1>1, <1>5, <1>6, QuietKeeps

LEMMA RingCompleteRecord ==
  ASSUME NEW c \in CmdBufs, CmdBufs = {c}, CallInv, CallInv', RecordInv, RingComplete
  PROVE  RecordInv'
<1>1. /\ pc' = pc /\ call' = call /\ rec' = rec /\ step' = step
      /\ batch_enabled' = batch_enabled /\ ring_ready' = ring_ready
      /\ refused' = refused /\ issued' = issued
      /\ batch_recording' = batch_recording /\ batch_enc' = batch_enc
      /\ ring_recording' = ring_recording
      /\ running # <<>> /\ running' = <<>> /\ draft' = draft /\ pending' = pending
      /\ host' = HostRuns(host, running)
  BY DEF RingComplete, guestVars, modeVars, windowVars, bookVars, Stream!Complete
<1>2. ring_ready
  BY <1>1 DEF CallInv, OfferInv
<1>3. Batch' = Batch
  BY <1>1 DEF Batch, batch_active
<1>4. OnTheWay = running \o OnTheWay'
  <2> DEFINE q == pending \o (draft \o Batch)
  <2>1. q \in Seq(Commands)
    BY WayTypes
  <2>2. <<>> \o q = q
    <3> HIDE DEF q
    <3> QED
      BY <2>1
  <2> QED
    BY <1>1, <1>3, <2>2 DEF OnTheWay
<1>5. (OnTheWay \in Seq(Commands))'
  BY WayTypes, PTL
<1>6. running \in Seq(Commands)
  BY WayTypes
<1>7. Future' = Future
  BY <1>1, <1>4, <1>5, <1>6, FutureRan
<1>8. Window(c)
  BY DEF RecordInv
<1>9. Done(c)' = Done(c) /\ Window(c)'
  BY <1>1, <1>8, RecorderStays
<1>10. Submitted(c)'
  BY <1>1, <1>2 DEF Submitted
<1> QED
  BY <1>1, <1>3, <1>7, <1>9, <1>10, FutureKeeps

\* vkEndCommandBuffer's flush: what was recorded is published, or submitted.
LEMMA EndFlushFuture ==
  ASSUME NEW c \in CmdBufs, CmdBufs = {c}, CallInv, CallInv', RecordInv, EndFlush(c)
  PROVE  /\ Future' = Future /\ (Batch' = Batch \/ Batch' = <<>>)
         /\ ~batch_recording' /\ ~ring_recording'
<1>1. /\ pc[c] = "ending" /\ batch_enabled' = batch_enabled /\ ring_ready' = ring_ready
      /\ batch_enc' = batch_enc
  BY DEF EndFlush, modeVars
<1>2. Window(c) /\ Opening(c)
  BY <1>1 DEF RecordInv, CallInv, CallsInv, RecorderInv, Opening
<1>3. CASE ring_active
  <2>1. Stream!Publish /\ ring_recording' = FALSE /\ batch_recording' = batch_recording
        /\ host' = host
    BY <1>3 DEF EndFlush
  <2>2. ~batch_recording
    BY <1>2, <1>3 DEF Window, ring_active
  <2>3. Batch' = Batch
    BY <1>1, <2>1 DEF Batch, batch_active
  <2>4. Future' = Future
    BY <2>1, <2>3, PublishWay, FutureSame
  <2> QED
    BY <2>1, <2>2, <2>3, <2>4
<1>4. CASE ~ring_active
  <2>1. /\ ring_recording' = ring_recording
        /\ draft' = draft /\ pending' = pending /\ running' = running
    BY <1>4 DEF EndFlush, ringVars
  <2>2. ~ring_ready /\ ~ring_recording
    BY <1>2, <1>4 DEF Window, ring_active
  <2>3. CASE batch_active
    <3>1. host' = HostRuns(host, batch_enc) /\ batch_recording' = FALSE
      BY <1>4, <2>3 DEF EndFlush
    <3>2. Batch = batch_enc /\ OnTheWay = Batch /\ Batch \in Seq(Commands)
      BY <1>2, <2>2, <2>3, Ways, WayTypes DEF Batch
    <3>3. Batch' = <<>>
      BY <3>1 DEF Batch, batch_active
    <3>4. draft = <<>> /\ pending = <<>> /\ running = <<>>
      BY <2>2 DEF CallInv, OfferInv
    <3>5. OnTheWay' = <<>> \o (<<>> \o (<<>> \o <<>>))
      BY <2>1, <3>3, <3>4 DEF OnTheWay
    <3>6. OnTheWay' = <<>>
      <4>1. <<>> \o <<>> = <<>>
        OBVIOUS
      <4> QED
        BY <3>5, <4>1
    <3>7. OnTheWay = batch_enc \o OnTheWay'
      <4> DEFINE b == batch_enc
      <4>1. b \in Seq(Commands)
        BY <3>2
      <4>2. b \o <<>> = b
        <5> HIDE DEF b
        <5> QED
          BY <4>1
      <4> QED
        BY <3>2, <3>6, <4>2
    <3>8. (OnTheWay \in Seq(Commands))'
      BY WayTypes, PTL
    <3>9. Future' = Future
      BY <3>1, <3>2, <3>7, <3>8, FutureRan
    <3> QED
      BY <2>1, <2>2, <3>1, <3>3, <3>9
  <2>4. CASE ~batch_active
    <3>1. host' = host /\ batch_recording' = batch_recording
      BY <1>4, <2>4 DEF EndFlush
    <3>2. ~batch_recording
      BY <1>2, <2>4 DEF Window, batch_active
    <3>3. Batch' = Batch
      BY <1>1, <3>1 DEF Batch, batch_active
    <3>4. OnTheWay' = OnTheWay
      BY <2>1, <3>3 DEF OnTheWay
    <3>5. Future' = Future
      BY <3>1, <3>4, FutureSame
    <3> QED
      BY <2>1, <2>2, <3>1, <3>2, <3>3, <3>5
  <2> QED
    BY <2>3, <2>4
<1> QED
  BY <1>3, <1>4

LEMMA EndFlushRecord ==
  ASSUME NEW c \in CmdBufs, CmdBufs = {c}, CallInv, CallInv', RecordInv, EndFlush(c)
  PROVE  RecordInv'
<1>1. /\ pc[c] = "ending" /\ pc' = [pc EXCEPT ![c] = "idle"]
      /\ rec' = [rec EXCEPT ![c] = "ended"] /\ step' = step
      /\ ring_ready' = ring_ready /\ issued' = issued /\ refused' = refused
  BY DEF EndFlush, bookVars
<1>2. ThreadsOK /\ JobsOK /\ c \in Threads
  BY TypeParts, WhoIsWho DEF CallInv
<1>3. pc'[c] = "idle" /\ rec'[c] = "ended"
  BY <1>1, <1>2 DEF ThreadsOK, JobsOK
<1>4. ~Opening(c)' /\ Submitted(c)'
  BY <1>3 DEF Opening, Submitted, InCall
<1>5. Done(c)' = Done(c)
  BY <1>1, <1>3 DEF Done, InCall
<1>6. Window(c)'
  BY <1>4, EndFlushFuture DEF Window
<1> QED
  BY <1>1, <1>4, <1>5, <1>6, EndFlushFuture, FutureKeeps

-----------------------------------------------------------------------------
\* A call returns: its command has arrived, is on its way, or was refused

\* The window does not move when a call returns, and what a recorder encoded counts.
LEMMA ReturnsRecorder ==
  ASSUME NEW c \in CmdBufs, CallInv, Window(c), Returns(c)
  PROVE  /\ Opening(c)' <=> Opening(c)
         /\ Window(c)' \/ ring_ready' # ring_ready
         /\ Done(c)' = issued[c] /\ step' = step
         /\ rec'[c] = "submitted" => call[c].name = "QueueSubmit"
<1>1. pc[c] \in InCall /\ batch_recording' = batch_recording
      /\ ring_recording' = ring_recording /\ batch_enabled' = batch_enabled
      /\ issued' = issued
  BY DEF Returns, modeVars
<1>2. RecorderInv(c) /\ c \in Threads
  BY WhoIsWho DEF CallInv, CallsInv
<1>3. pc'[c] \notin InCall
  BY <1>2, ReturnsThreads
<1>4. Done(c)' = issued[c]
  BY <1>1, <1>3 DEF Done
<1>5. (Opening(c)' <=> Opening(c)) /\ (rec'[c] = "submitted" => call[c].name = "QueueSubmit")
  <2>1. CASE call[c].name = "Begin"
    BY <1>1, <1>3, <2>1, RecorderReturns DEF Opening
  <2>2. CASE call[c].name \in {"Cmd", "End"}
    BY <1>1, <1>2, <1>3, <2>2, RecorderReturns DEF Opening, RecorderInv
  <2>3. CASE call[c].name = "QueueSubmit"
    <3>1. rec[c] = "ended"
      BY <1>1, <1>2, <2>3 DEF RecorderInv
    <3>2. rec'[c] \in {"ended", "submitted"}
      BY <2>3, RecorderReturns
    <3> QED
      BY <1>3, <2>3, <3>1, <3>2 DEF Opening
  <2> QED
    BY <1>1, <1>2, <2>1, <2>2, <2>3 DEF RecorderInv
<1>6. Window(c)' \/ ring_ready' # ring_ready
  BY <1>1, <1>5 DEF Window
<1> QED
  BY <1>4, <1>5, <1>6, RecorderReturns

LEMMA ReturnsWorker ==
  ASSUME NEW c \in CmdBufs, CallInv, Window(c), NEW w \in Workers, Returns(w)
  PROVE  /\ Opening(c)' <=> Opening(c)
         /\ Window(c)' \/ ring_ready' # ring_ready
         /\ Done(c)' = Done(c) /\ rec' = rec
<1>1. batch_recording' = batch_recording
      /\ ring_recording' = ring_recording /\ batch_enabled' = batch_enabled
      /\ issued' = issued
  BY DEF Returns, modeVars
<1>2. w \in Threads /\ c \in Threads \ {w}
  BY WhoIsWho
<1>3. pc'[c] = pc[c] /\ call'[c] = call[c] /\ rec' = rec
  BY <1>2, ReturnsThreads, WorkerReturns
<1>4. (Opening(c)' <=> Opening(c)) /\ Done(c)' = Done(c)
  BY <1>1, <1>3 DEF Opening, Done
<1>5. Window(c)' \/ ring_ready' # ring_ready
  BY <1>1, <1>4 DEF Window
<1> QED
  BY <1>3, <1>4, <1>5

\* What joins what the host will have recorded is the next command of its buffer.
LEMMA ReturnOrder ==
  ASSUME NEW c \in CmdBufs, CmdBufs = {c}, CallInv, RecordInv, NEW t \in Threads, Returns(t),
         NEW cmd \in CallCmds(t), cmd \in Commands, refused' = refused,
         Future'.log[c] = HostDoes(Future, cmd).log[c]
  PROVE  Order(c)'
<1>1. Window(c) /\ Order(c)
  BY DEF RecordInv
<1>2. pc[t] \in InCall
  BY DEF Returns
<1>3. HostDoes(Future, cmd).log[c] = IF cmd.op = "record" /\ cmd.cb = c
                                       THEN Append(Future.log[c], cmd.n) ELSE Future.log[c]
  BY WayTypes, DoesLog
<1>4. CASE t = c
  <2>1. Done(c)' = issued[c]
    BY <1>1, <1>4, ReturnsRecorder
  <2>2. CASE call[c].name = "QueueSubmit"
    <3>1. cmd = Submit(c) /\ Done(c) = issued[c]
      BY <1>2, <1>4, <2>2, RecorderCommand
    <3>2. Future'.log[c] = Future.log[c]
      BY <1>3, <3>1 DEF Submit
    <3> QED
      BY <1>1, <2>1, <3>1, <3>2, OrderKept
  <2>3. CASE call[c].name # "QueueSubmit"
    <3>1. /\ Done(c) \in Nat /\ Done(c) + 1 = issued[c]
          /\ cmd.op = "record" /\ cmd.cb = c /\ cmd.n = Done(c) + 1
      BY <1>2, <1>4, <2>3, RecorderCommand
    <3>2. Future'.log[c] = Append(Future.log[c], Done(c) + 1)
      BY <1>3, <3>1
    <3> QED
      BY <1>1, <2>1, <3>1, <3>2, OrderGrows
  <2> QED
    BY <2>2, <2>3
<1>5. CASE t \in Workers
  <2>1. cmd.op \notin {"record", "submit"}
    BY <1>2, <1>5, WorkerCommand
  <2>2. Future'.log[c] = Future.log[c]
    BY <1>3, <2>1
  <2>3. Done(c)' = Done(c)
    BY <1>1, <1>5, ReturnsWorker
  <2> QED
    BY <1>1, <2>2, <2>3, OrderKept
<1> QED
  BY <1>4, <1>5, WhoIsWho

LEMMA ReturnWindow ==
  ASSUME NEW c \in CmdBufs, CmdBufs = {c}, CallInv, RecordInv, NEW t \in Threads, Returns(t),
         ring_ready' = ring_ready
  PROVE  Window(c)' /\ (Opening(c)' <=> Opening(c))
<1>1. Window(c)
  BY DEF RecordInv
<1>2. t = c \/ t \in Workers
  BY WhoIsWho
<1> QED
  BY <1>1, <1>2, ReturnsRecorder, ReturnsWorker

\* A command finds what it names: what its thread made, and pipelines that were returned.
LEMMA CommandFound ==
  ASSUME CallInv, \A w \in Workers : Made(w), NEW t \in Threads, pc[t] \in InCall,
         NEW cmd \in CallCmds(t), cmd \in Commands
  PROVE  Found(Future, cmd)
<1>1. CASE t \in CmdBufs
  <2>1. CASE call[t].name = "QueueSubmit"
    <3>1. cmd = Submit(t)
      BY <1>1, <2>1, RecorderCommand
    <3> QED
      BY <3>1 DEF Found, Submit
  <2>2. CASE call[t].name # "QueueSubmit"
    <3>1. PICK uses \in UsesOf : cmd = Recorded(t, Done(t) + 1, uses)
      BY <1>1, <2>2, RecorderCommand
    <3>2. uses \subseteq Future.objects
      <4>1. CASE uses = {}
        BY <4>1
      <4>2. CASE \E w \in Compilers : step[w] >= 3 /\ uses = {Of("pipeline", w)}
        <5>1. PICK w \in Compilers : step[w] >= 3 /\ uses = {Of("pipeline", w)}
          BY <4>2
        <5>2. w \in Workers
          BY WhoIsWho
        <5>3. Of("pipeline", w) \in Future.objects
          BY <5>1, <5>2 DEF Made
        <5> QED
          BY <5>1, <5>3
      <4> QED
        BY <4>1, <4>2 DEF UsesOf
    <3> QED
      BY <3>1, <3>2 DEF Found, Recorded
  <2> QED
    BY <2>1, <2>2
<1>2. CASE t \in Workers
  <2> DEFINE k == step[t]
  <2>1. cmd = JobCall(t, k) /\ k \in 0..4 /\ k < JobLength(t)
    BY <1>2, WorkerCommand
  <2>2. Made(t)
    BY <1>2
  <2>3. CASE t \in Compilers
    <3>1. k \in {0, 1, 2, 3}
      BY <2>1, <2>3 DEF JobLength
    <3>2. CASE k \in {0, 1}
      <4>1. cmd.op = "create" /\ cmd.uses = {}
        BY <2>1, <2>3, <3>2 DEF JobCall, Create
      <4> QED
        BY <4>1 DEF Found
    <3>3. CASE k = 2
      <4>1. cmd.op = "create" /\ cmd.uses = {Of("shader", t), Of("layout", t)}
        BY <2>1, <2>3, <3>3 DEF JobCall, Create
      <4>2. Of("shader", t) \in Future.objects /\ Of("layout", t) \in Future.objects
        BY <2>2, <2>3, <3>3 DEF Made
      <4> QED
        BY <4>1, <4>2 DEF Found
    <3>4. CASE k = 3
      <4>1. cmd.op = "destroy" /\ cmd.obj = Of("shader", t)
        BY <2>1, <2>3, <3>4 DEF JobCall, Destroy
      <4>2. Of("shader", t) \in Future.objects
        BY <2>2, <2>3, <3>4 DEF Made
      <4> QED
        BY <4>1, <4>2 DEF Found
    <3> QED
      BY <3>1, <3>2, <3>3, <3>4
  <2>4. CASE t \in Allocators
    <3>1. k \in {0, 1, 2} /\ t \notin Compilers
      BY <2>1, <2>4, WhoIsWho DEF JobLength
    <3>2. CASE k \in {0, 1}
      <4>1. cmd.op = "create" /\ cmd.uses = {}
        BY <2>1, <3>1, <3>2 DEF JobCall, Create
      <4> QED
        BY <4>1 DEF Found
    <3>3. CASE k = 2
      <4>1. cmd.op = "bind" /\ cmd.uses = {Of("buffer", t), Of("memory", t)}
        BY <2>1, <3>1, <3>3 DEF JobCall, Bind
      <4>2. Of("buffer", t) \in Future.objects /\ Of("memory", t) \in Future.objects
        BY <2>2, <2>4, <3>3 DEF Made
      <4> QED
        BY <4>1, <4>2 DEF Found
    <3> QED
      BY <3>1, <3>2, <3>3
  <2> QED
    BY <1>2, <2>3, <2>4, WhoIsWho
<1> QED
  BY <1>1, <1>2, WhoIsWho

\* A worker's call that returned added to what is made what it makes.
LEMMA JobMakes ==
  ASSUME CallInv, \A v \in Workers : Made(v), NEW w \in Workers,
         step[w] \in 0..4, step[w] < JobLength(w), step' = [step EXCEPT ![w] = step[w] + 1],
         JobCall(w, step[w]) \in Commands,
         HostDoes(Future, JobCall(w, step[w])).objects \subseteq Future'.objects
  PROVE  \A v \in Workers : Made(v)'
<1> DEFINE k == step[w]
           cmd == JobCall(w, k)
<1>1. JobsOK /\ Future \in HostType
  BY TypeParts, WayTypes DEF CallInv
<1>2. step'[w] = k + 1 /\ \A v \in Workers \ {w} : step'[v] = step[v]
  BY <1>1 DEF JobsOK
<1>3. /\ cmd.op = "create" => Future.objects \cup {cmd.obj} \subseteq Future'.objects
      /\ cmd.op = "destroy" => Future.objects \ {cmd.obj} \subseteq Future'.objects
      /\ cmd.op = "bind" => Future.objects \subseteq Future'.objects
  BY <1>1, DoesObjects
<1>4. /\ cmd.op \in {"create", "destroy", "bind"}
      /\ cmd.op \in {"create", "destroy"} => \E kind : cmd.obj = Of(kind, w)
      /\ cmd.op = "destroy" => w \in Compilers /\ k = 3 /\ cmd.obj = Of("shader", w)
  BY WhoIsWho DEF JobCall, JobLength, Create, Bind, Destroy
<1>5. ASSUME NEW kind, NEW v \in Workers, Of(kind, v) \in Future.objects,
             v # w \/ cmd.op # "destroy" \/ kind # "shader"
      PROVE  Of(kind, v) \in Future'.objects
  <2>1. cmd.op = "destroy" => Of(kind, v) # cmd.obj
    BY <1>4, <1>5 DEF Of
  <2> QED
    BY <1>3, <1>4, <1>5, <2>1
<1>6. ASSUME NEW v \in Workers, v # w PROVE Made(v)'
  <2>1. Made(v) /\ step'[v] = step[v]
    BY <1>2, <1>6
  <2> QED
    BY <1>5, <1>6, <2>1 DEF Made
<1>7. Made(w)'
  <2>1. Made(w)
    OBVIOUS
  <2>2. CASE w \in Compilers
    <3>1. k \in {0, 1, 2, 3} /\ w \notin Allocators
      BY <2>2, WhoIsWho DEF JobLength
    <3>2. CASE k = 0
      <4>1. cmd.op = "create" /\ cmd.obj = Of("shader", w)
        BY <2>2, <3>2 DEF JobCall, Create
      <4> QED
        BY <1>2, <1>3, <3>1, <3>2, <4>1 DEF Made
    <3>3. CASE k = 1
      <4>1. cmd.op = "create" /\ cmd.obj = Of("layout", w)
        BY <2>2, <3>3 DEF JobCall, Create
      <4>2. Of("shader", w) \in Future.objects
        BY <2>1, <2>2, <3>3 DEF Made
      <4> QED
        BY <1>2, <1>3, <3>1, <3>3, <4>1, <4>2 DEF Made
    <3>4. CASE k = 2
      <4>1. cmd.op = "create" /\ cmd.obj = Of("pipeline", w)
        BY <2>2, <3>4 DEF JobCall, Create
      <4>2. Of("shader", w) \in Future.objects /\ Of("layout", w) \in Future.objects
        BY <2>1, <2>2, <3>4 DEF Made
      <4> QED
        BY <1>2, <1>3, <3>1, <3>4, <4>1, <4>2 DEF Made
    <3>5. CASE k = 3
      <4>1. Of("layout", w) \in Future.objects /\ Of("pipeline", w) \in Future.objects
        BY <2>1, <2>2, <3>5 DEF Made
      <4>2. Of("layout", w) \in Future'.objects /\ Of("pipeline", w) \in Future'.objects
        BY <1>5, <4>1
      <4>3. step'[w] = 4
        BY <1>2, <3>5
      <4> QED
        BY <3>1, <4>2, <4>3 DEF Made
    <3> QED
      BY <3>1, <3>2, <3>3, <3>4, <3>5
  <2>3. CASE w \in Allocators
    <3>1. k \in {0, 1, 2} /\ w \notin Compilers
      BY <2>3, WhoIsWho DEF JobLength
    <3>2. CASE k = 0
      <4>1. cmd.op = "create" /\ cmd.obj = Of("buffer", w)
        BY <3>1, <3>2 DEF JobCall, Create
      <4> QED
        BY <1>2, <1>3, <3>1, <3>2, <4>1 DEF Made
    <3>3. CASE k = 1
      <4>1. cmd.op = "create" /\ cmd.obj = Of("memory", w)
        BY <3>1, <3>3 DEF JobCall, Create
      <4>2. Of("buffer", w) \in Future.objects
        BY <2>1, <2>3, <3>3 DEF Made
      <4> QED
        BY <1>2, <1>3, <3>1, <3>3, <4>1, <4>2 DEF Made
    <3>4. CASE k = 2
      <4>1. Of("buffer", w) \in Future.objects /\ Of("memory", w) \in Future.objects
        BY <2>1, <2>3, <3>4 DEF Made
      <4>2. cmd.op = "bind"
        BY <3>1, <3>4 DEF JobCall, Bind
      <4>3. Of("buffer", w) \in Future'.objects /\ Of("memory", w) \in Future'.objects
        BY <1>3, <4>1, <4>2
      <4> QED
        BY <1>2, <3>1, <3>4, <4>3 DEF Made
    <3> QED
      BY <3>1, <3>2, <3>3, <3>4
  <2> QED
    BY <2>2, <2>3, WhoIsWho
<1> QED
  BY <1>6, <1>7

LEMMA ReturnMade ==
  ASSUME CallInv, \A w \in Workers : Made(w), NEW t \in Threads, Returns(t),
         NEW cmd \in CallCmds(t), cmd \in Commands,
         HostDoes(Future, cmd).objects \subseteq Future'.objects
  PROVE  \A w \in Workers : Made(w)'
<1>1. pc[t] \in InCall
  BY DEF Returns
<1>2. CASE t \in CmdBufs
  <2>1. cmd.op \in {"record", "submit"}
    BY <1>1, <1>2, RecorderCommand DEF Submit
  <2>2. Future.objects \subseteq Future'.objects
    BY <2>1, WayTypes, DoesObjects
  <2>3. step' = step
    BY <1>2, RecorderReturns
  <2> QED
    BY <2>2, <2>3 DEF Made
<1>3. CASE t \in Workers
  <2>1. cmd = JobCall(t, step[t]) /\ step[t] \in 0..4 /\ step[t] < JobLength(t)
    BY <1>1, <1>3, WorkerCommand
  <2>2. step' = [step EXCEPT ![t] = step[t] + 1]
    BY <1>3, WorkerReturns
  <2> QED
    BY <1>3, <2>1, <2>2, JobMakes
<1> QED
  BY <1>2, <1>3, WhoIsWho

\* A compiler that is done stays done.
LEMMA ReturnSteps ==
  ASSUME CallInv, NEW t \in Threads, Returns(t)
  PROVE  \A w \in Compilers : step[w] = 4 => step'[w] = 4
<1>1. JobsOK
  BY TypeParts DEF CallInv
<1>2. CASE t \in CmdBufs
  BY <1>2, RecorderReturns
<1>3. CASE t \in Workers
  <2> SUFFICES ASSUME NEW w \in Compilers, step[w] = 4 PROVE step'[w] = 4
    OBVIOUS
  <2>1. step' = [step EXCEPT ![t] = step[t] + 1] /\ step[t] < JobLength(t) /\ step[t] \in 0..4
    BY <1>1, <1>3, WorkerReturns DEF JobsOK
  <2>2. t # w
    BY <2>1 DEF JobLength
  <2> QED
    BY <1>1, <2>1, <2>2, WhoIsWho DEF JobsOK
<1> QED
  BY <1>2, <1>3, WhoIsWho

\* A command that joins the batch.
LEMMA ReturnHarmless ==
  ASSUME CallInv, NEW t \in Threads, Returns(t), NEW cmd \in CallCmds(t), cmd \in Commands,
         ~call[t].immediate
  PROVE  /\ cmd.op = "create" => ~Bypasses(cmd)
         /\ cmd.op = "destroy" => \E w \in Compilers : cmd.obj = Of("shader", w) /\ step'[w] = 4
<1>1. pc[t] \in InCall
  BY DEF Returns
<1>2. CASE t \in CmdBufs
  <2>1. cmd.op \in {"record", "submit"}
    BY <1>1, <1>2, RecorderCommand DEF Submit
  <2> QED
    BY <2>1
<1>3. CASE t \in Workers
  <2>1. /\ cmd = JobCall(t, step[t]) /\ step[t] \in 0..4 /\ step[t] < JobLength(t)
        /\ call[t].immediate <=> Bypasses(cmd)
    BY <1>1, <1>3, WorkerCommand
  <2>2. step'[t] = step[t] + 1
    BY <1>3, WorkerReturns, TypeParts DEF CallInv, JobsOK
  <2>3. cmd.op = "destroy" => t \in Compilers /\ step[t] = 3 /\ cmd.obj = Of("shader", t)
    BY <1>3, <2>1, WhoIsWho DEF JobCall, JobLength, Create, Bind, Destroy
  <2> QED
    BY <2>1, <2>2, <2>3
<1> QED
  BY <1>2, <1>3, WhoIsWho

\* The command of a call that returns is the last that the host will have run.
LEMMA ArrivedObjects ==
  ASSUME NEW c \in CmdBufs, CmdBufs = {c}, CallInv, RecordInv, NEW t \in Threads, Returns(t),
         NEW cmd \in CallCmds(t), cmd \in Commands, ~ring_ready,
         Future' = HostDoes(Future, cmd),
         \/ Batch' = Batch \/ Batch' = <<>>
         \/ Batch' = Append(Batch, cmd) /\ ~call[t].immediate
  PROVE  /\ Future'.lookups_ok
         /\ \A w \in Workers : Made(w)'
         /\ \A i \in 1..Len(Batch') : Harmless(Batch[i])'
<1>1. /\ Future.lookups_ok /\ \A w \in Workers : Made(w)
      /\ \A i \in 1..Len(Batch) : Harmless(Batch[i])
  BY DEF RecordInv, ObjectsInv
<1>2. pc[t] \in InCall
  BY DEF Returns
<1>3. Found(Future, cmd)
  BY <1>1, <1>2, CommandFound
<1>4. Future'.lookups_ok
  BY <1>1, <1>3, WayTypes, DoesLookups
<1>5. \A w \in Workers : Made(w)'
  BY <1>1, ReturnMade
<1>6. \A w \in Compilers : step[w] = 4 => step'[w] = 4
  BY ReturnSteps
<1>7. ASSUME NEW i \in 1..Len(Batch') PROVE Harmless(Batch[i])'
  <2>1. CASE i \in 1..Len(Batch) /\ Batch'[i] = Batch[i]
    <3>1. Harmless(Batch[i])
      BY <1>1, <2>1
    <3> QED
      BY <1>6, <2>1, <3>1 DEF Harmless, Bypasses
  <2>2. CASE Batch'[i] = cmd /\ ~call[t].immediate
    <3>1. /\ cmd.op = "create" => ~Bypasses(cmd)
          /\ cmd.op = "destroy" => \E w \in Compilers : cmd.obj = Of("shader", w) /\ step'[w] = 4
      BY <2>2, ReturnHarmless
    <3> QED
      BY <2>2, <3>1 DEF Harmless, Bypasses
  <2>3. \/ i \in 1..Len(Batch) /\ Batch'[i] = Batch[i]
        \/ Batch'[i] = cmd /\ ~call[t].immediate
    <3>1. CASE Batch' = Batch
      BY <1>7, <3>1
    <3>2. CASE Batch' = <<>>
      BY <1>7, <3>2
    <3>3. CASE Batch' = Append(Batch, cmd) /\ ~call[t].immediate
      <4> DEFINE b == Batch
      <4>1. b \in Seq(Commands) /\ i \in 1..Len(Append(b, cmd)) /\ Batch' = Append(b, cmd)
        BY <1>7, <3>3, WayTypes
      <4>2. (i \in 1..Len(b) /\ Append(b, cmd)[i] = b[i]) \/ Append(b, cmd)[i] = cmd
        <5> HIDE DEF b
        <5> QED
          BY <4>1
      <4> QED
        BY <3>3, <4>1, <4>2
    <3> QED
      BY <3>1, <3>2, <3>3
  <2> QED
    BY <2>1, <2>2, <2>3
<1> QED
  BY <1>4, <1>5, <1>7

LEMMA Arrived ==
  ASSUME NEW c \in CmdBufs, CmdBufs = {c}, CallInv, RecordInv, NEW t \in Threads, Returns(t),
         NEW cmd \in CallCmds(t), cmd \in Commands,
         ring_ready' = ring_ready, refused' = refused,
         Future' = HostDoes(Future, cmd),
         ~ring_ready => \/ Batch' = Batch \/ Batch' = <<>>
                        \/ Batch' = Append(Batch, cmd) /\ ~call[t].immediate,
         Submitted(c)'
  PROVE  RecordInv'
<1>1. Order(c)'
  BY ReturnOrder
<1>2. Window(c)'
  BY ReturnWindow
<1>3. ObjectsInv'
  BY ArrivedObjects DEF ObjectsInv
<1> QED
  BY <1>1, <1>2, <1>3 DEF RecordInv

-----------------------------------------------------------------------------
\* The submissions

LEMMA WayIsBatch == CallInv /\ ~ring_ready => OnTheWay = Batch
<1> SUFFICES ASSUME CallInv, ~ring_ready PROVE OnTheWay = Batch
  OBVIOUS
<1>1. draft = <<>> /\ pending = <<>> /\ running = <<>>
  BY DEF CallInv, OfferInv
<1>2. Batch \in Seq(Commands)
  BY WayTypes
<1>3. <<>> \o (<<>> \o (<<>> \o Batch)) = Batch
  BY <1>2
<1> QED
  BY <1>1, <1>3 DEF OnTheWay

LEMMA SubmitBatchedRecord ==
  ASSUME NEW c \in CmdBufs, CmdBufs = {c}, CallInv, CallInv', RecordInv, NEW t \in Threads,
         SubmitBatched(t)
  PROVE  RecordInv'
<1>1. /\ Returns(t) /\ pc[t] \in InCall /\ ~call[t].immediate /\ batch_active
      /\ ring_ready' = ring_ready /\ batch_active' = batch_active /\ refused' = refused
  BY DEF SubmitBatched, Returns, InCall, modeVars, bookVars, batch_active
<1>2. Window(c) /\ Opening(c) /\ ~ring_ready
  <2>1. Window(c)
    BY DEF RecordInv
  <2> QED
    BY <1>1, <2>1 DEF Window, batch_active
<1>3. OnTheWay = Batch /\ Batch = batch_enc /\ Batch \in Seq(Commands)
  BY <1>1, <1>2, WayIsBatch, WayTypes DEF Batch
<1>4. PICK cmd \in CallCmds(t) : cmd \in Commands /\ enc[t] = Append(Behind(t), cmd)
  BY <1>1, EncodedIs
<1>5. enc[t] = Append(Batch, cmd)
  BY <1>1, <1>3, <1>4 DEF Behind
<1>6. (CallInv /\ ~ring_ready => OnTheWay = Batch)'
  BY WayIsBatch, PTL
<1>7. OnTheWay' = Batch' /\ Batch' = batch_enc'
  BY <1>1, <1>2, <1>6 DEF Batch
<1>8. Future' = HostDoes(Future, cmd) /\ (Batch' = <<>> \/ Batch' = Append(Batch, cmd))
  <2>1. CASE Len(enc[t]) >= Threshold
    <3>1. host' = HostRuns(host, Append(OnTheWay, cmd)) /\ batch_enc' = <<>>
      BY <1>3, <1>5, <2>1 DEF SubmitBatched, Accumulate
    <3> QED
      BY <1>4, <1>7, <3>1, FutureArrived
  <2>2. CASE ~(Len(enc[t]) >= Threshold)
    <3>1. host' = host /\ batch_enc' = Append(Batch, cmd)
      BY <1>5, <2>2 DEF SubmitBatched, Accumulate
    <3>2. OnTheWay' = Append(OnTheWay, cmd)
      BY <1>3, <1>7, <3>1
    <3> QED
      BY <1>4, <1>7, <3>1, <3>2, FutureSent
  <2> QED
    BY <2>1, <2>2
<1>9. Submitted(c)'
  BY <1>1, <1>2, ReturnWindow DEF Submitted
<1> QED
  BY <1>1, <1>4, <1>8, <1>9, Arrived

\* Submitted alone: before anything the batch or the ring still holds.
LEMMA AloneIs ==
  ASSUME CallInv, NEW t \in Threads, SubmitAlone(t)
  PROVE  /\ Returns(t) /\ pc[t] \in InCall
         /\ ring_ready' = ring_ready /\ refused' = refused
         /\ Batch' = Batch /\ OnTheWay' = OnTheWay
         /\ call[t].immediate \/ (~ring_active /\ ~batch_active)
         /\ \E cmd \in CallCmds(t) : cmd \in Commands /\ host' = HostDoes(host, cmd)
<1>1. /\ Returns(t) /\ pc[t] \in InCall
      /\ ring_ready' = ring_ready /\ refused' = refused
      /\ batch_enabled' = batch_enabled /\ batch_recording' = batch_recording
      /\ batch_enc' = batch_enc
      /\ draft' = draft /\ pending' = pending /\ running' = running
      /\ call[t].immediate \/ (~ring_active /\ ~batch_active)
      /\ host' = HostRuns(host, enc[t])
  BY DEF SubmitAlone, Returns, InCall, modeVars, windowVars, bookVars, ringVars
<1>2. Batch' = Batch /\ OnTheWay' = OnTheWay
  BY <1>1 DEF Batch, OnTheWay, batch_active
<1>3. PICK cmd \in CallCmds(t) : cmd \in Commands /\ enc[t] = Append(Behind(t), cmd)
  BY <1>1, EncodedIs
<1>4. Behind(t) = <<>>
  BY <1>1 DEF Behind
<1>5. enc[t] = <<cmd>>
  BY <1>3, <1>4
<1>6. host' = HostDoes(host, cmd)
  BY <1>1, <1>5, RunOne
<1> QED
  BY <1>1, <1>2, <1>3, <1>6

\* When vkQueueSubmit returns without the ring, the GPU has what was recorded.
LEMMA AloneSubmits ==
  ASSUME NEW c \in CmdBufs, CmdBufs = {c}, CallInv, RecordInv, NEW t \in Threads,
         SubmitAlone(t), NEW cmd \in CallCmds(t), cmd \in Commands,
         host' = HostDoes(host, cmd)
  PROVE  Submitted(c)'
<1>1. Returns(t) /\ pc[t] \in InCall /\ ring_ready' = ring_ready
  BY AloneIs
<1>2. Window(c) /\ Submitted(c)
  BY DEF RecordInv
<1>3. host \in HostType
  BY WayTypes
<1>4. CASE t = c
  <2>1. CASE call[c].name = "QueueSubmit"
    <3>1. cmd = Submit(c)
      BY <1>1, <1>4, <2>1, RecorderCommand
    <3>2. cmd.op = "submit" /\ cmd.cb = c
      BY <3>1 DEF Submit
    <3>3. host'.ran[c] = host.log[c] /\ host'.log[c] = host.log[c]
      BY <1>3, <3>2, DoesRan, DoesLog
    <3> QED
      BY <3>3 DEF Submitted
  <2>2. CASE call[c].name # "QueueSubmit"
    <3>1. rec'[c] # "submitted"
      BY <1>1, <1>2, <1>4, <2>2, ReturnsRecorder
    <3> QED
      BY <3>1 DEF Submitted
  <2> QED
    BY <2>1, <2>2
<1>5. CASE t \in Workers
  <2>1. cmd.op \notin {"record", "submit"}
    BY <1>1, <1>5, WorkerCommand
  <2>2. host'.ran[c] = host.ran[c] /\ host'.log[c] = host.log[c]
    BY <1>3, <2>1, DoesRan, DoesLog
  <2>3. rec' = rec /\ (Opening(c)' <=> Opening(c))
    BY <1>1, <1>2, <1>5, ReturnsWorker
  <2> QED
    BY <1>1, <1>2, <2>2, <2>3 DEF Submitted
<1> QED
  BY <1>4, <1>5, WhoIsWho

\* A worker's create goes to the host past what the batch holds: what it names is
\* there already, and nothing in the batch undoes it.
LEMMA PastBatch ==
  ASSUME NEW c \in CmdBufs, CmdBufs = {c}, CallInv, RecordInv, ~ring_ready, NEW w \in Workers,
         NEW cmd \in Commands, cmd = JobCall(w, step[w]), step[w] \in 0..4,
         step[w] < JobLength(w), cmd.op = "create",
         host' = HostDoes(host, cmd), OnTheWay' = OnTheWay
  PROVE  /\ Future'.lookups_ok
         /\ HostDoes(Future, cmd).objects \subseteq Future'.objects
<1>1. /\ Future.lookups_ok /\ \A v \in Workers : Made(v)
      /\ \A i \in 1..Len(Batch) : Harmless(Batch[i])
  BY DEF RecordInv, ObjectsInv
<1>2. OnTheWay = Batch /\ Batch \in Seq(Commands) /\ host \in HostType /\ Future \in HostType
  BY WayIsBatch, WayTypes
<1>3. Future = HostRuns(host, Batch) /\ Future' = HostRuns(HostDoes(host, cmd), Batch)
  BY <1>2 DEF Future
<1>4. HostDoes(host, cmd) \in HostType
  BY <1>2, DoesType
<1>5. Found(host, cmd)
  <2>1. CASE cmd.uses = {}
    BY <2>1 DEF Found
  <2>2. CASE cmd.uses # {}
    <3>1. w \in Compilers /\ step[w] = 2 /\ cmd.uses = {Of("shader", w), Of("layout", w)}
      BY <2>2, WhoIsWho DEF JobCall, JobLength, Create, Bind, Destroy
    <3>2. Of("shader", w) \in Future.objects /\ Of("layout", w) \in Future.objects
      BY <1>1, <3>1 DEF Made
    <3>3. ASSUME NEW kind \in {"shader", "layout"}, Waiting(Batch, Of(kind, w)) PROVE FALSE
      <4>1. PICK i \in 1..Len(Batch) : Batch[i].op = "create" /\ Batch[i].obj = Of(kind, w)
        BY <3>3 DEF Waiting
      <4>2. Bypasses(Batch[i])
        BY <3>3, <4>1 DEF Bypasses, Of
      <4> QED
        BY <1>1, <4>1, <4>2 DEF Harmless
    <3>4. Of("shader", w) \in host.objects /\ Of("layout", w) \in host.objects
      <4>1. \A o : o \in Future.objects => o \in host.objects \/ Waiting(Batch, o)
        BY <1>2, <1>3, RunObjects
      <4> QED
        BY <3>2, <3>3, <4>1
    <3> QED
      BY <3>1, <3>4 DEF Found
  <2> QED
    BY <2>1, <2>2
<1>6. /\ HostDoes(host, cmd).objects = host.objects \cup {cmd.obj}
      /\ HostDoes(host, cmd).lookups_ok <=> host.lookups_ok /\ Found(host, cmd)
  BY <1>2, DoesObjects, DoesLookups
<1>7. NoWorse(HostDoes(host, cmd), host)
  BY <1>5, <1>6 DEF NoWorse
<1>8. NoWorse(Future', Future)
  BY <1>2, <1>3, <1>4, <1>7, RunNoWorse
<1>9. Kept(Batch, cmd.obj)
  <2> SUFFICES ASSUME NEW i \in 1..Len(Batch), Batch[i].op = "destroy", Batch[i].obj = cmd.obj
               PROVE FALSE
    BY DEF Kept
  <2>1. PICK v \in Compilers : Batch[i].obj = Of("shader", v) /\ step[v] = 4
    BY <1>1 DEF Harmless
  <2>2. cmd.obj = Of("shader", w) \/ \E kind : cmd.obj = Of(kind, w) /\ kind # "shader"
    BY WhoIsWho DEF JobCall, JobLength, Create, Bind, Destroy
  <2>3. v = w
    BY <2>1, <2>2 DEF Of
  <2>4. JobLength(w) = 4
    BY <2>1, <2>3 DEF JobLength
  <2> QED
    BY <2>1, <2>3, <2>4
<1>10. cmd.obj \in Future'.objects
  BY <1>2, <1>3, <1>4, <1>6, <1>9, RunObjects
<1>11. HostDoes(Future, cmd).objects = Future.objects \cup {cmd.obj}
  BY <1>2, DoesObjects
<1> QED
  BY <1>1, <1>8, <1>10, <1>11 DEF NoWorse

\* What reaches the host past the batch or the ring leaves the recording alone.
LEMMA PastOrder ==
  ASSUME NEW c \in CmdBufs, CallInv, RecordInv, NEW cmd \in Commands, cmd.op # "record",
         host' = HostDoes(host, cmd), OnTheWay' = OnTheWay,
         Done(c)' = Done(c), refused' = refused
  PROVE  Order(c)'
<1>1. Order(c) /\ OnTheWay \in Seq(Commands) /\ host \in HostType
  BY WayTypes DEF RecordInv
<1>2. HostDoes(host, cmd) \in HostType /\ HostDoes(host, cmd).log[c] = host.log[c]
  BY <1>1, DoesType, DoesLog
<1>3. HostRuns(HostDoes(host, cmd), OnTheWay).log[c] = HostRuns(host, OnTheWay).log[c]
  BY <1>1, <1>2, RunSameLog
<1>4. Future'.log[c] = Future.log[c]
  BY <1>3 DEF Future
<1> QED
  BY <1>1, <1>4, OrderKept

\* What waits in the batch is as harmless as it was.
LEMMA BatchHarmless ==
  ASSUME RecordInv, ~ring_ready, Batch' = Batch,
         \A w \in Compilers : step[w] = 4 => step'[w] = 4
  PROVE  \A i \in 1..Len(Batch') : Harmless(Batch[i])'
<1> SUFFICES ASSUME NEW i \in 1..Len(Batch') PROVE Harmless(Batch[i])'
  OBVIOUS
<1>1. i \in 1..Len(Batch) /\ Harmless(Batch[i])
  BY DEF RecordInv, ObjectsInv
<1> QED
  BY <1>1 DEF Harmless, Bypasses

LEMMA SubmitAloneRecord ==
  ASSUME NEW c \in CmdBufs, CmdBufs = {c}, CallInv, CallInv', RecordInv, NEW t \in Threads,
         SubmitAlone(t)
  PROVE  RecordInv'
<1>1. /\ Returns(t) /\ pc[t] \in InCall
      /\ ring_ready' = ring_ready /\ refused' = refused
      /\ Batch' = Batch /\ OnTheWay' = OnTheWay
      /\ call[t].immediate \/ (~ring_active /\ ~batch_active)
  BY AloneIs
<1>2. PICK cmd \in CallCmds(t) : cmd \in Commands /\ host' = HostDoes(host, cmd)
  BY AloneIs
<1>3. Submitted(c)'
  BY <1>2, AloneSubmits
<1>4. Window(c)' /\ Window(c)
  BY <1>1, ReturnWindow DEF RecordInv
<1>5. CASE ~ring_ready /\ ~batch_active
  <2>1. OnTheWay = <<>> /\ OnTheWay' = <<>>
    BY <1>1, <1>5, WayIsBatch DEF Batch
  <2>2. Future = host /\ Future' = HostDoes(host, cmd)
    BY <1>2, <2>1, RunNone DEF Future
  <2> QED
    BY <1>1, <1>2, <1>3, <2>2, Arrived
<1>6. CASE ring_ready \/ batch_active
  <2>1. cmd.op # "record" /\ Done(c)' = Done(c)
    <3>1. CASE t = c
      <4>1. ~call[c].immediate
        BY <1>1, <3>1 DEF CallInv, CallsInv, RecorderInv
      <4>2. ~Opening(c)
        BY <1>1, <1>4, <1>6, <3>1, <4>1, Ways
      <4>3. call[c].name = "QueueSubmit"
        BY <1>1, <3>1, <4>2 DEF CallInv, CallsInv, RecorderInv, Opening
      <4>4. cmd = Submit(c) /\ Done(c) = issued[c]
        BY <1>1, <1>2, <3>1, <4>3, RecorderCommand
      <4> QED
        BY <1>1, <1>4, <3>1, <4>4, ReturnsRecorder DEF Submit
    <3>2. CASE t \in Workers
      BY <1>1, <1>2, <1>4, <3>2, WorkerCommand, ReturnsWorker
    <3> QED
      BY <3>1, <3>2, WhoIsWho
  <2>2. Order(c)'
    BY <1>1, <1>2, <2>1, PastOrder
  <2>3. ObjectsInv'
    <3> SUFFICES ASSUME ~ring_ready
                 PROVE  /\ Future'.lookups_ok
                        /\ \A w \in Workers : Made(w)'
                        /\ \A i \in 1..Len(Batch') : Harmless(Batch[i])'
      BY <1>1 DEF ObjectsInv
    <3>1. call[t].immediate
      BY <1>1, <1>6
    <3>2. t \in Workers
      BY <1>1, <3>1, WhoIsWho DEF CallInv, CallsInv, RecorderInv
    <3>3. /\ cmd = JobCall(t, step[t]) /\ step[t] \in 0..4 /\ step[t] < JobLength(t)
          /\ cmd.op = "create"
      BY <1>1, <1>2, <3>1, <3>2, WorkerCommand DEF Bypasses
    <3>4. Future'.lookups_ok /\ HostDoes(Future, cmd).objects \subseteq Future'.objects
      BY <1>1, <1>2, <3>2, <3>3, PastBatch
    <3>5. \A w \in Workers : Made(w)
      BY DEF RecordInv, ObjectsInv
    <3>6. \A w \in Workers : Made(w)'
      BY <1>1, <1>2, <3>4, <3>5, ReturnMade
    <3>7. \A i \in 1..Len(Batch') : Harmless(Batch[i])'
      BY <1>1, ReturnSteps, BatchHarmless
    <3> QED
      BY <3>4, <3>6, <3>7
  <2> QED
    BY <1>3, <1>4, <2>2, <2>3 DEF RecordInv
<1> QED
  BY <1>5, <1>6

LEMMA AllocateDirectRecord ==
  ASSUME NEW c \in CmdBufs, CmdBufs = {c}, CallInv, CallInv', RecordInv, NEW w \in Workers,
         AllocateDirect(w)
  PROVE  RecordInv'
<1> DEFINE cmd == JobCall(w, 1)
<1>1. /\ w \in Allocators /\ step[w] = 1 /\ step' = [step EXCEPT ![w] = 2]
      /\ cmd = Create(Of("memory", w), {}) /\ cmd \in Commands
  BY DirectIs
<1>2. /\ host' = HostDoes(host, cmd) /\ pc' = [pc EXCEPT ![w] = "idle"]
      /\ call' = call /\ rec' = rec
      /\ batch_enabled' = batch_enabled /\ ring_ready' = ring_ready
      /\ refused' = refused /\ issued' = issued
      /\ batch_recording' = batch_recording /\ batch_enc' = batch_enc
      /\ ring_recording' = ring_recording
      /\ draft' = draft /\ pending' = pending /\ running' = running
  BY DEF AllocateDirect, modeVars, windowVars, bookVars, ringVars
<1>3. ThreadsOK /\ JobsOK /\ c \in Threads /\ c # w
  BY TypeParts, WhoIsWho DEF CallInv
<1>4. pc'[c] = pc[c]
  BY <1>2, <1>3 DEF ThreadsOK
<1>5. Batch' = Batch /\ OnTheWay' = OnTheWay
  BY <1>2 DEF Batch, OnTheWay, batch_active
<1>6. Window(c) /\ Submitted(c)
  BY DEF RecordInv
<1>7. (Opening(c)' <=> Opening(c)) /\ Done(c)' = Done(c) /\ Window(c)'
  BY <1>2, <1>4, <1>6, RecorderStays
<1>8. cmd.op = "create" /\ cmd.op # "record" /\ cmd.op # "submit"
  BY <1>1 DEF Create
<1> HIDE DEF cmd
<1>9. Order(c)'
  BY <1>1, <1>2, <1>5, <1>7, <1>8, PastOrder
<1>10. Submitted(c)'
  <2>1. host'.ran[c] = host.ran[c] /\ host'.log[c] = host.log[c]
    BY <1>1, <1>2, <1>8, WayTypes, DoesRan, DoesLog
  <2> QED
    BY <1>2, <1>6, <1>7, <2>1 DEF Submitted
<1>11. ObjectsInv'
  <2> SUFFICES ASSUME ~ring_ready
               PROVE  /\ Future'.lookups_ok
                      /\ \A v \in Workers : Made(v)'
                      /\ \A i \in 1..Len(Batch') : Harmless(Batch[i])'
    BY <1>2 DEF ObjectsInv
  <2>1. cmd = JobCall(w, step[w]) /\ step[w] \in 0..4 /\ step[w] < JobLength(w)
        /\ step' = [step EXCEPT ![w] = step[w] + 1]
    BY <1>1, WhoIsWho DEF cmd, JobLength
  <2>2. Future'.lookups_ok /\ HostDoes(Future, cmd).objects \subseteq Future'.objects
    BY <1>1, <1>2, <1>5, <1>8, <2>1, PastBatch
  <2>3. \A v \in Workers : Made(v)
    BY DEF RecordInv, ObjectsInv
  <2>4. \A v \in Workers : Made(v)'
    BY <1>1, <2>1, <2>2, <2>3, JobMakes
  <2>5. \A v \in Compilers : step[v] = 4 => step'[v] = 4
    <3>1. \A v \in Compilers : v # w /\ v \in Workers
      BY <1>1, WhoIsWho
    <3> QED
      BY <1>1, <1>3, <3>1 DEF JobsOK
  <2>6. \A i \in 1..Len(Batch') : Harmless(Batch[i])'
    BY <1>5, <2>5, BatchHarmless
  <2> QED
    BY <2>2, <2>4, <2>6
<1> QED
  BY <1>7, <1>9, <1>10, <1>11 DEF RecordInv

LEMMA AppendWay ==
  ASSUME NEW X, NEW r \in Seq(X), NEW p \in Seq(X), NEW d \in Seq(X), NEW x \in X
  PROVE  r \o (p \o ((d \o <<x>>) \o <<>>)) = Append(r \o (p \o (d \o <<>>)), x)
<1>1. d \o <<x>> = Append(d, x) /\ Append(d, x) \in Seq(X)
  OBVIOUS
<1>2. Append(d, x) \o <<>> = Append(d, x) /\ d \o <<>> = d
  BY <1>1
<1>3. p \o Append(d, x) = Append(p \o d, x) /\ p \o d \in Seq(X)
  OBVIOUS
<1>4. ASSUME NEW q \in Seq(X) PROVE r \o Append(q, x) = Append(r \o q, x)
  OBVIOUS
<1>5. r \o Append(p \o d, x) = Append(r \o (p \o d), x)
  BY <1>3, <1>4
<1> QED
  BY <1>1, <1>2, <1>3, <1>5

\* Written to the ring: the last of what is on its way.
LEMMA RingCopyRecord ==
  ASSUME NEW c \in CmdBufs, CmdBufs = {c}, CallInv, CallInv', RecordInv, NEW t \in Threads,
         RingCopy(t)
  PROVE  RecordInv'
<1>1. /\ Returns(t) /\ pc[t] = "writing" /\ pc[t] \in InCall
      /\ ring_ready' = ring_ready /\ refused' = refused /\ host' = host
      /\ batch_enabled' = batch_enabled /\ batch_recording' = batch_recording
      /\ batch_enc' = batch_enc
      /\ draft' = draft \o offer /\ pending' = pending /\ running' = running
  BY DEF RingCopy, Returns, InCall, modeVars, windowVars, bookVars, Stream!Write
<1>2. offer = enc[t] /\ ring_ready /\ ~call[t].immediate
  BY <1>1 DEF CallInv, OfferInv, ring_active
<1>3. Window(c)
  BY DEF RecordInv
<1>4. ~batch_active /\ Batch = <<>> /\ Batch' = <<>>
  BY <1>1, <1>2, <1>3, Ways DEF Batch, batch_active
<1>5. PICK cmd \in CallCmds(t) : cmd \in Commands /\ enc[t] = Append(Behind(t), cmd)
  BY <1>1, EncodedIs
<1>6. offer = <<cmd>>
  BY <1>2, <1>4, <1>5 DEF Behind
<1>7. OnTheWay' = Append(OnTheWay, cmd)
  <2>1. draft \in Seq(Commands) /\ pending \in Seq(Commands) /\ running \in Seq(Commands)
    BY WayTypes
  <2>2. running \o (pending \o ((draft \o <<cmd>>) \o <<>>))
          = Append(running \o (pending \o (draft \o <<>>)), cmd)
    <3>1. cmd \in Commands
      BY <1>5
    <3> QED
      BY ONLY <2>1, <3>1, AppendWay
  <2> QED
    BY <1>1, <1>4, <1>6, <2>2 DEF OnTheWay
<1>8. Future' = HostDoes(Future, cmd)
  BY <1>1, <1>5, <1>7, FutureSent
<1>9. Submitted(c)'
  BY <1>1, <1>2 DEF Submitted
<1> QED
  BY <1>1, <1>2, <1>5, <1>8, <1>9, Arrived

LEMMA RingRefuseRecord ==
  ASSUME NEW c \in CmdBufs, CmdBufs = {c}, CallInv, CallInv', RecordInv, NEW t \in Threads,
         RingRefuse(t)
  PROVE  RecordInv'
<1>1. /\ Returns(t) /\ pc[t] \in InCall /\ ring_active
      /\ ring_ready' = ring_ready /\ host' = host
      /\ batch_enabled' = batch_enabled /\ batch_recording' = batch_recording
      /\ batch_enc' = batch_enc
      /\ draft' = draft /\ pending' = pending /\ running' = running
      /\ refused' = IF t \in CmdBufs /\ Last(enc[t]).op = "record"
                      THEN [refused EXCEPT ![t] = @ \cup {Last(enc[t]).n}]
                      ELSE refused
  BY DEF RingRefuse, Returns, InCall, modeVars, windowVars, ringVars
<1>2. Batch' = Batch /\ OnTheWay' = OnTheWay
  BY <1>1 DEF Batch, OnTheWay, batch_active
<1>3. Future' = Future
  BY <1>1, <1>2, FutureSame
<1>4. Window(c) /\ Order(c)
  BY DEF RecordInv
<1>5. Window(c)' /\ Submitted(c)' /\ ObjectsInv'
  BY <1>1, ReturnWindow DEF Submitted, ObjectsInv, ring_active
<1>6. PICK cmd \in CallCmds(t) : cmd \in Commands /\ Last(enc[t]) = cmd
  BY <1>1, EncodedIs
<1>7. Order(c)'
  <2>1. CASE t = c
    <3>1. Done(c)' = issued[c]
      BY <1>1, <1>4, <2>1, ReturnsRecorder
    <3>2. CASE call[c].name = "QueueSubmit"
      <4>1. cmd = Submit(c) /\ Done(c) = issued[c]
        BY <1>1, <1>6, <2>1, <3>2, RecorderCommand
      <4>2. refused' = refused
        BY <1>1, <1>6, <4>1 DEF Submit
      <4> QED
        BY <1>3, <1>4, <3>1, <4>1, <4>2, OrderKept
    <3>3. CASE call[c].name # "QueueSubmit"
      <4>1. /\ Done(c) \in Nat /\ Done(c) + 1 = issued[c]
            /\ cmd.op = "record" /\ cmd.n = Done(c) + 1
        BY <1>1, <1>6, <2>1, <3>3, RecorderCommand
      <4>2. refused' = [refused EXCEPT ![c] = @ \cup {cmd.n}]
        BY <1>1, <1>6, <2>1, <4>1
      <4>3. refused'[c] = refused[c] \cup {Done(c) + 1}
        BY <4>1, <4>2, TypeParts DEF CallInv, BooksOK
      <4> QED
        BY <1>3, <1>4, <3>1, <4>1, <4>3, OrderRefuses
    <3> QED
      BY <3>2, <3>3
  <2>2. CASE t \in Workers
    <3>1. refused' = refused
      BY <1>1, <2>2, WhoIsWho
    <3>2. Done(c)' = Done(c)
      BY <1>1, <1>4, <2>2, ReturnsWorker
    <3> QED
      BY <1>3, <1>4, <3>1, <3>2, OrderKept
  <2> QED
    BY <2>1, <2>2, WhoIsWho
<1> QED
  BY <1>5, <1>7 DEF RecordInv

-----------------------------------------------------------------------------
\* The invariant

LEMMA RecordInit ==
  ASSUME NEW c \in CmdBufs, CmdBufs = {c}, Init
  PROVE  RecordInv
<1>1. CallInv
  BY CallInit
<1>2. /\ batch_recording = FALSE /\ ring_ready = FALSE /\ ring_recording = FALSE
      /\ pc = [t \in Threads |-> "idle"] /\ rec = [d \in CmdBufs |-> "idle"]
      /\ step = [w \in Workers |-> 0] /\ issued = [d \in CmdBufs |-> 0]
      /\ refused = [d \in CmdBufs |-> {}]
      /\ host = [objects |-> {}, log |-> [d \in CmdBufs |-> <<>>],
                 ran |-> [d \in CmdBufs |-> <<>>], lookups_ok |-> TRUE]
  BY DEF Init
<1>3. Batch = <<>> /\ OnTheWay = <<>>
  BY <1>1, <1>2, WayIsBatch DEF Batch, batch_active
<1>4. Future = host
  BY <1>3, RunNone DEF Future
<1>5. pc[c] = "idle" /\ rec[c] = "idle" /\ issued[c] = 0 /\ refused[c] = {}
  BY <1>2, WhoIsWho
<1>6. ~Opening(c) /\ Done(c) = 0
  BY <1>5 DEF Opening, Done, InCall
<1>7. Window(c) /\ Submitted(c)
  BY <1>2, <1>5, <1>6 DEF Window, Submitted
<1>8. Order(c)
  <2>1. Future.log[c] = <<>> /\ Future.objects = {} /\ Future.lookups_ok
    BY <1>2, <1>4
  <2> QED
    BY <1>5, <1>6, <2>1 DEF Order, Ascending, Has
<1>9. ObjectsInv
  <2>1. Future.lookups_ok
    BY <1>2, <1>4
  <2>2. \A w \in Workers : Made(w)
    BY <1>2, WhoIsWho DEF Made
  <2> QED
    BY <1>3, <2>1, <2>2 DEF ObjectsInv
<1> QED
  BY <1>7, <1>8, <1>9 DEF RecordInv

LEMMA RecordStep ==
  ASSUME NEW c \in CmdBufs, CmdBufs = {c}, CallInv, CallInv', RecordInv, [Next]_vars
  PROVE  RecordInv'
<1>1. CASE \E d \in CmdBufs : RecorderStep(d)
  <2>1. RecorderStep(c)
    BY <1>1
  <2> QED
    BY <2>1, RingInitRecord, RingInitDoneRecord, BeginRecord, CmdRecord, EndRecord,
       EndFlushRecord, QueueSubmitRecord, SubmitFlushRecord DEF RecorderStep
<1>2. CASE \E w \in Workers : WorkerStep(w)
  BY <1>2, JobRecord, AllocateMemoryRecord, AllocateEncodedRecord, AllocateDirectRecord
     DEF WorkerStep
<1>3. CASE \E t \in Threads : Submission(t)
  BY <1>3, SubmitAloneRecord, SubmitBatchedRecord, RingReserveRecord, RingCopyRecord,
     RingRefuseRecord DEF Submission
<1>4. CASE RingTake \/ RingComplete
  BY <1>4, RingTakeRecord, RingCompleteRecord
<1>5. CASE UNCHANGED vars
  <2>1. /\ pc' = pc /\ call' = call /\ rec' = rec /\ step' = step /\ host' = host
        /\ batch_enabled' = batch_enabled /\ ring_ready' = ring_ready
        /\ refused' = refused /\ issued' = issued
        /\ batch_recording' = batch_recording /\ batch_enc' = batch_enc
        /\ ring_recording' = ring_recording
        /\ draft' = draft /\ pending' = pending /\ running' = running
    BY <1>5 DEF vars, modeVars, windowVars, bookVars, ringVars
  <2>2. Batch' = Batch /\ OnTheWay' = OnTheWay
    BY <2>1 DEF Batch, OnTheWay, batch_active
  <2> QED
    BY <2>1, <2>2, QuietKeeps
<1> QED
  BY <1>1, <1>2, <1>3, <1>4, <1>5 DEF Next

LEMMA RecordInvariant ==
  ASSUME OneRecorder
  PROVE  Spec => [](CallInv /\ RecordInv)
<1>1. PICK c : CmdBufs = {c}
  BY DEF OneRecorder
<1>2. c \in CmdBufs
  BY <1>1
<1>3. Init => CallInv /\ RecordInv
  BY <1>1, <1>2, CallInit, RecordInit
<1>4. (CallInv /\ RecordInv) /\ [Next]_vars => (CallInv /\ RecordInv)'
  BY <1>1, <1>2, CallStep, RecordStep
<1> QED
  BY <1>3, <1>4, PTL DEF Spec

-----------------------------------------------------------------------------
\* Theorems

\* The lock, the modes, what the threads encode, the ring's queues and the host have
\* their types, and the modes exclude each other as uk_dispatch_batch_begin and
\* uk_dispatch_ring_begin leave them; for any number of command buffers.
THEOREM TypeCorrect == Spec => []TypeOK
<1>1. CallInv => TypeOK
  BY DEF CallInv
<1> QED
  BY <1>1, CallInvariant, PTL

\* The log is the beginning of what it will be.
LEMMA LogBegins ==
  ASSUME CallInv, NEW c \in CmdBufs
  PROVE  /\ host.log[c] \in Seq(Int)
         /\ Extends(Future.log[c], host.log[c])
<1>1. host \in HostType /\ OnTheWay \in Seq(Commands)
  BY WayTypes
<1>2. Extends(Future.log[c], host.log[c])
  BY <1>1, RunLog DEF Future
<1>3. host.log[c] \in Seq(1..MaxIssued)
  BY <1>1 DEF HostType
<1>4. MaxIssued \in Nat
  BY Budgets, TypeParts DEF CallInv
<1>5. 1..MaxIssued \subseteq Int
  BY <1>4
<1> QED
  BY <1>2, <1>3, <1>5, SeqWider

\* The beginning of a sequence that has the numbers of S in order.
LEMMA ListBegins ==
  ASSUME NEW s \in Seq(Int), NEW f \in Seq(Int), NEW S, S \subseteq Int, Extends(f, s),
         Ascending(f), \A n \in Int : Has(f, n) => n \in S,
         \A n \in S : \A m \in Int : Has(f, m) /\ n <= m => Has(f, n)
  PROVE  ListsUpTo(s, S)
<1>1. Len(s) \in Nat /\ Len(f) \in Nat /\ DOMAIN s = 1..Len(s) /\ Len(s) <= Len(f)
      /\ \A i \in 1..Len(s) : f[i] = s[i] /\ i \in 1..Len(f) /\ s[i] \in Int
  BY DEF Extends
<1>2. \A i, j \in DOMAIN s : i < j => s[i] < s[j]
  <2> SUFFICES ASSUME NEW i \in DOMAIN s, NEW j \in DOMAIN s, i < j PROVE s[i] < s[j]
    OBVIOUS
  <2>1. i \in 1..Len(f) /\ j \in 1..Len(f) /\ f[i] = s[i] /\ f[j] = s[j]
    BY <1>1
  <2>2. f[i] < f[j]
    BY ONLY <2>1, Ascending(f), i < j DEF Ascending
  <2> QED
    BY ONLY <2>1, <2>2
<1>3. Range(s) \subseteq S
  <2> SUFFICES ASSUME NEW i \in DOMAIN s PROVE s[i] \in S
    BY DEF Range
  <2>1. s[i] \in Int /\ Has(f, s[i])
    BY <1>1 DEF Has
  <2> QED
    BY <2>1
<1>4. ASSUME NEW n \in S, NEW x \in Range(s), n <= x PROVE n \in Range(s)
  <2>1. PICK i \in 1..Len(s) : s[i] = x
    BY <1>1, <1>4 DEF Range
  <2>2. x \in Int /\ n \in Int /\ Has(f, x)
    BY <1>1, <2>1 DEF Has
  <2>3. PICK j \in 1..Len(f) : f[j] = n
    BY <1>4, <2>2 DEF Has
  <2>4. ~(i < j)
    <3> SUFFICES ASSUME i < j PROVE FALSE
      OBVIOUS
    <3>1. f[i] < f[j]
      BY <1>1, <2>1, <2>3 DEF Ascending
    <3> QED
      BY <1>1, <1>4, <2>1, <2>2, <2>3, <3>1
  <2>5. j \in 1..Len(s) /\ s[j] = n
    BY <1>1, <2>1, <2>3, <2>4
  <2> QED
    BY <1>1, <2>5 DEF Range
<1> QED
  BY <1>2, <1>3, <1>4 DEF ListsUpTo

LEMMA DoneIs ==
  ASSUME CallInv, NEW c \in CmdBufs
  PROVE  issued[c] \in Nat /\ Done(c) \in Int /\ Done(c) <= issued[c]
<1>1. issued[c] \in Nat
  BY Budgets, TypeParts DEF CallInv
<1> QED
  BY <1>1 DEF Done

\* The host's log is the beginning of one that has all that was accepted.
LEMMA LogInOrder ==
  ASSUME CallInv, NEW c \in CmdBufs, Order(c)
  PROVE  ListsUpTo(host.log[c], Accepted(c))
<1> DEFINE s == host.log[c]
           f == Future.log[c]
           S == Accepted(c)
           d == Done(c)
<1>1. s \in Seq(Int) /\ f \in Seq(Int) /\ Extends(f, s)
  BY LogBegins, FutureLogs
<1>2. Ascending(f) /\ \A n \in Int : Has(f, n) <=> n \in 1..d /\ n \notin refused[c]
  BY DEF Order
<1>3. d \in Int /\ d <= issued[c] /\ issued[c] \in Nat
  BY DoneIs
<1>4. S = (1..issued[c]) \ refused[c]
  BY DEF Accepted
<1> HIDE DEF s, f, S, d
<1>5. S \subseteq Int
  BY <1>3, <1>4
<1>6. \A n \in Int : Has(f, n) => n \in S
  BY <1>2, <1>3, <1>4
<1>7. \A n \in S : \A m \in Int : Has(f, m) /\ n <= m => Has(f, n)
  BY <1>2, <1>3, <1>4
<1>8. ListsUpTo(s, S)
  BY <1>1, <1>2, <1>5, <1>6, <1>7, ListBegins
<1> QED
  BY <1>8 DEF s, S

\* Where one thread records at a time, the host records what it accepted of each
\* command buffer in the order of the calls, none twice, none left out: in the batch,
\* in the ring and alone (UK_ENC_SUBMIT).
THEOREM InOrder == OneRecorder => (Spec => []RecordedInOrder)
<1> SUFFICES ASSUME OneRecorder PROVE Spec => []RecordedInOrder
  OBVIOUS
<1>1. CallInv /\ RecordInv => RecordedInOrder
  BY LogInOrder DEF RecordedInOrder, RecordInv
<1> QED
  BY <1>1, RecordInvariant, PTL

\* ... and what vkQueueSubmit gave the GPU without the ring is all of it
\* (stub_vkEndCommandBuffer's flush before stub_vkQueueSubmit).
THEOREM AsRecorded == OneRecorder => (Spec => []SubmittedWithoutRing)
<1> SUFFICES ASSUME OneRecorder PROVE Spec => []SubmittedWithoutRing
  OBVIOUS
<1>1. CallInv /\ RecordInv => SubmittedWithoutRing
  <2> SUFFICES ASSUME CallInv, RecordInv, ~ring_ready, NEW c \in CmdBufs,
                      rec[c] = "submitted", pc[c] = "idle"
               PROVE  /\ ListsUpTo(host.ran[c], Accepted(c))
                      /\ Accepted(c) \subseteq Range(host.ran[c])
    BY DEF SubmittedWithoutRing, SubmittedAsRecorded
  <2>1. Window(c) /\ Order(c) /\ Submitted(c)
    BY DEF RecordInv
  <2>2. ~Opening(c) /\ Done(c) = issued[c]
    BY DEF Opening, Done, InCall
  <2>3. host.ran[c] = host.log[c]
    BY <2>1, <2>2 DEF Submitted
  <2>4. OnTheWay = <<>>
    BY <2>1, <2>2, Ways
  <2>5. Future = host
    BY <2>4, RunNone DEF Future
  <2>6. ListsUpTo(host.ran[c], Accepted(c))
    BY <2>1, <2>3, LogInOrder
  <2>7. ASSUME NEW n \in Accepted(c) PROVE n \in Range(host.ran[c])
    <3>1. n \in 1..issued[c] /\ n \notin refused[c] /\ n \in Int
      BY <2>7, DoneIs DEF Accepted
    <3>2. Has(host.log[c], n)
      BY <2>1, <2>2, <2>5, <3>1 DEF Order
    <3>3. DOMAIN host.log[c] = 1..Len(host.log[c])
      BY LogBegins
    <3> QED
      BY <2>3, <3>2, <3>3 DEF Has, Range
  <2> QED
    BY <2>6, <2>7
<1> QED
  BY <1>1, RecordInvariant, PTL

\* What is there in the end is on the host or waits in the batch.
LEMMA HostBegins ==
  ASSUME CallInv, ~ring_ready
  PROVE  /\ Future.lookups_ok => host.lookups_ok
         /\ \A o : o \in Future.objects =>
              o \in host.objects \/ (batch_active /\ Waiting(batch_enc, o))
<1>1. OnTheWay = Batch /\ Batch \in Seq(Commands) /\ host \in HostType
  BY WayIsBatch, WayTypes
<1>2. Future = HostRuns(host, Batch)
  BY <1>1 DEF Future
<1>3. \A o : /\ o \in Future.objects => o \in host.objects \/ Waiting(Batch, o)
             /\ Future.lookups_ok => host.lookups_ok
  BY <1>1, <1>2, RunObjects
<1>4. \A o : Waiting(Batch, o) => batch_active /\ Waiting(batch_enc, o)
  BY DEF Batch, Waiting
<1> QED
  BY <1>3, <1>4

\* Without the ring no command names an object that its create has not yet made:
\* the creates submitted past the batch are the ones the batch may use
\* (stub_vkCreatePipelineLayout, stub_vkCreateDescriptorSetLayout).
THEOREM LookupsFound == OneRecorder => (Spec => []LookupsWithoutRing)
<1> SUFFICES ASSUME OneRecorder PROVE Spec => []LookupsWithoutRing
  OBVIOUS
<1>1. CallInv /\ RecordInv => LookupsWithoutRing
  BY HostBegins DEF LookupsWithoutRing, LookupsSucceed, RecordInv, ObjectsInv
<1> QED
  BY <1>1, RecordInvariant, PTL

\* Without the ring, what a create that returned made is on the host or waits in the
\* open batch, whatever was recorded meanwhile (stub_vkBeginCommandBuffer empties
\* g_batch_enc, stub_vkEndCommandBuffer leaves what it held).
THEOREM CreatesStay == OneRecorder => (Spec => []CreatesKept)
<1> SUFFICES ASSUME OneRecorder PROVE Spec => []CreatesKept
  OBVIOUS
<1>1. CallInv /\ RecordInv => CreatesKept
  <2> SUFFICES ASSUME CallInv, RecordInv, ~ring_ready, NEW w \in Workers,
                      NEW k \in 0..(step[w] - 1), JobCall(w, k).op = "create",
                      w \in Compilers => k > 0
               PROVE  JobCall(w, k).obj \in Future.objects
    BY HostBegins DEF CreatesKept
  <2>1. Made(w) /\ step[w] \in 0..4 /\ step[w] <= JobLength(w)
    BY TypeParts DEF CallInv, JobsOK, RecordInv, ObjectsInv
  <2>2. k \in 0..3 /\ k < step[w]
    BY <2>1
  <2>3. CASE w \in Compilers
    <3>1. k \in {1, 2, 3}
      BY <2>2, <2>3
    <3>2. CASE k = 1
      <4>1. JobCall(w, k).obj = Of("layout", w)
        BY <2>3, <3>2 DEF JobCall, Create
      <4> QED
        BY <2>1, <2>2, <2>3, <3>2, <4>1 DEF Made
    <3>3. CASE k = 2
      <4>1. JobCall(w, k).obj = Of("pipeline", w)
        BY <2>3, <3>3 DEF JobCall, Create
      <4> QED
        BY <2>1, <2>2, <2>3, <3>3, <4>1 DEF Made
    <3>4. CASE k = 3
      BY <2>3, <3>4 DEF JobCall, Destroy
    <3> QED
      BY <3>1, <3>2, <3>3, <3>4
  <2>4. CASE w \in Allocators
    <3>1. w \notin Compilers /\ k \in {0, 1, 2}
      BY <2>1, <2>2, <2>4, WhoIsWho DEF JobLength
    <3>2. CASE k = 0
      <4>1. JobCall(w, k).obj = Of("buffer", w)
        BY <3>1, <3>2 DEF JobCall, Create
      <4> QED
        BY <2>1, <2>2, <2>4, <3>2, <4>1 DEF Made
    <3>3. CASE k = 1
      <4>1. JobCall(w, k).obj = Of("memory", w)
        BY <3>1, <3>3 DEF JobCall, Create
      <4> QED
        BY <2>1, <2>2, <2>4, <3>3, <4>1 DEF Made
    <3>4. CASE k = 2
      BY <3>1, <3>4 DEF JobCall, Bind
    <3> QED
      BY <3>1, <3>2, <3>3, <3>4
  <2> QED
    BY <2>3, <2>4, WhoIsWho
<1> QED
  BY <1>1, RecordInvariant, PTL

-----------------------------------------------------------------------------
\* The dispatch at the ring

\* A command that finds the window open goes into the ring alone, not behind a batch.
LEMMA ReserveOffers ==
  ASSUME NEW c \in CmdBufs, CmdBufs = {c}, CallInv, RecordInv, NEW t \in Threads,
         RingReserve(t)
  PROVE  Stream!Offer
<1>1. pc[t] \in InCall /\ ring_active /\ ~call[t].immediate /\ Stream!OfferWords(enc[t])
  BY DEF RingReserve, InCall
<1>2. ~batch_active
  BY <1>1, Ways DEF RecordInv, ring_active
<1>3. PICK cmd \in CallCmds(t) : cmd \in Commands /\ enc[t] = Append(Behind(t), cmd)
  BY <1>1, EncodedIs
<1>4. enc[t] = <<cmd>>
  BY <1>2, <1>3 DEF Behind
<1>5. <<cmd>> \in [1..1 -> Commands]
  BY <1>3
<1> QED
  BY <1>1, <1>4, <1>5 DEF Stream!Offer

LEMMA StreamStep ==
  ASSUME NEW c \in CmdBufs, CmdBufs = {c}, CallInv, RecordInv, [Next]_vars
  PROVE  [Stream!Next]_(Stream!vars)
<1> USE DEF ringVars, Stream!vars
<1>1. CASE RecorderStep(c)
  <2>1. CASE RingInit(c) \/ Begin(c)
    BY <2>1 DEF RingInit, Begin
  <2>2. CASE Cmd(c) \/ End(c) \/ QueueSubmit(c)
    BY <2>2 DEF Cmd, End, QueueSubmit, EncBegin
  <2>3. CASE RingInitDone(c)
    BY <2>3 DEF RingInitDone, Stream!Next
  <2>4. CASE EndFlush(c)
    BY <2>4 DEF EndFlush, Stream!Next
  <2>5. CASE SubmitFlush(c)
    BY <2>5 DEF SubmitFlush, Stream!Next
  <2> QED
    BY <1>1, <2>1, <2>2, <2>3, <2>4, <2>5 DEF RecorderStep
<1>2. CASE \E w \in Workers : WorkerStep(w)
  BY <1>2 DEF WorkerStep, Job, AllocateMemory, AllocateEncoded, AllocateDirect, EncBegin
<1>3. CASE \E t \in Threads : Submission(t)
  <2>1. PICK t \in Threads : Submission(t)
    BY <1>3
  <2>2. CASE SubmitAlone(t) \/ SubmitBatched(t) \/ RingRefuse(t)
    BY <2>2 DEF SubmitAlone, SubmitBatched, RingRefuse
  <2>3. CASE RingReserve(t)
    BY <2>3, ReserveOffers DEF Stream!Next
  <2>4. CASE RingCopy(t)
    BY <2>4 DEF RingCopy, Stream!Next
  <2> QED
    BY <2>1, <2>2, <2>3, <2>4 DEF Submission
<1>4. CASE RingTake \/ RingComplete
  BY <1>4 DEF RingTake, RingComplete, Stream!Next
<1>5. CASE UNCHANGED vars
  BY <1>5 DEF vars
<1> QED
  BY <1>1, <1>2, <1>3, <1>4, <1>5 DEF Next

\* Where one thread records at a time, all that the threads do to the ring is what
\* CommandStream allows its writer, and so what VenusRing implements: one command in a
\* write, one write at a time, published by a flush (UK_ENC_SUBMIT,
\* stub_vkEndCommandBuffer, stub_vkQueueSubmit).
THEOREM StreamIsKept == OneRecorder => (Spec => RingUsedAsStream)
<1> SUFFICES ASSUME OneRecorder PROVE Spec => RingUsedAsStream
  OBVIOUS
<1>1. PICK c : CmdBufs = {c}
  BY DEF OneRecorder
<1>2. c \in CmdBufs
  BY <1>1
<1>3. Init => Stream!Init
  BY DEF Init
<1>4. CallInv /\ RecordInv /\ [Next]_vars => [Stream!Next]_(Stream!vars)
  BY <1>1, <1>2, StreamStep
<1> QED
  BY <1>3, <1>4, RecordInvariant, PTL DEF Spec, RingUsedAsStream, Stream!Spec
=============================================================================
