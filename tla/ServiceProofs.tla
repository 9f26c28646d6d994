--------------------------- MODULE ServiceProofs ----------------------------
(***************************************************************************)
(* Proofs about what a sandbox is given: the programs that it runs and     *)
(* what the gateway answers about them, the dev tools that it launches,    *)
(* the requests that leave through the egress gateway, the environment     *)
(* that the API gives it, and its runtime from the pool.  In the first     *)
(* four, one request or instance is described on its own (a predicate of   *)
(* its record), and the inductive invariant says that every one is as      *)
(* described and how they share a port, a log or an array.                 *)
(***************************************************************************)
EXTENDS CodeExecution, DevTools, Egress, SandboxAPI, RuntimePool,
        FiniteSetTheorems, SequenceTheorems, TLAPS

-----------------------------------------------------------------------------
(* Programs *)

\* The first k bytes that a process printed.
Printed(k) == [i \in 1..k |-> i]

\* What the writer has kept of n bytes.
Kept(n) == IF n <= maxOutputBytes THEN n ELSE maxOutputBytes

\* The writer after n bytes.
WriterAt(lw, n) ==
    /\ lw \in [buf : {lw.buf}, written : {lw.written}, truncated : {lw.truncated}]
    /\ lw.buf = Printed(Kept(n)) /\ lw.written = Kept(n)
    /\ lw.truncated <=> n > maxOutputBytes

\* The shape of a request, whatever it is at.
ProgramShape(q) ==
    q \in [kind : Kinds, at : {"idle", "prepare", "build", "run", "answered", "over"}, timed : {q.timed},
           ctx : {"open", "late", "gone"}, file : {q.file}, proc : {"none", "running", "exited", "killed"},
           code : {0, 1}, program : {q.program}, kid : {q.kid}, compiled : {q.compiled}, out : {q.out},
           total : Nat, resp : [code : {q.resp.code}, timedOut : {q.resp.timedOut}]]

\* How far a request is tells what there is of its program.
ProgramFor(q) ==
    /\ q.at \in {"idle", "prepare"} => q.proc = "none" /\ q.total = 0
    /\ q.at \in {"idle", "prepare"} => WriterAt(q.out, 0)
    /\ q.at = "build" => q.kind \in Built
    /\ q.at = "over" => ~ q.file /\ q.kind = "command"
    /\ q.at \in {"answered", "over"} => q.proc # "running"
    /\ q.kind \in Limited => WriterAt(q.out, q.total)

\* An answer says how the program ended.
AnswerFor(q) ==
    q.at = "answered" =>
        /\ q.resp.code # -1 => q.proc = "exited" /\ q.code = q.resp.code
        /\ q.resp.timedOut => q.ctx = "late" /\ q.resp.code = -1
        /\ (q.proc = "killed" /\ q.ctx = "late" /\ q.kind \in {"script", "command"}) => q.resp.timedOut

\* All that holds of one request.
ProgramRequestFor(q) == ProgramShape(q) /\ ProgramFor(q) /\ AnswerFor(q)

\* Code c and timeout t tell what happened to the program of q.
Truthful(q, c, t) ==
    /\ q.proc # "running"
    /\ c # -1 => q.proc = "exited" /\ q.code = c
    /\ t => q.ctx = "late" /\ c = -1
    /\ (q.proc = "killed" /\ q.ctx = "late" /\ q.kind \in {"script", "command"}) => t

\* Main.java is there for a call of the Java tool that goes on.
JavaOwned ==
    mainJava # NoRequest =>
        mainJava \in Requests /\ req[mainJava].kind = "javaTool" /\ req[mainJava].at \in {"build", "run", "answered"}

\* The inductive invariant: each request is as far as its program is, and
\* Main.java belongs to a call of the Java tool that goes on.
CodeInv ==
    /\ req = [r \in Requests |-> req[r]]
    /\ \A r \in Requests : ProgramRequestFor(req[r])
    /\ JavaOwned

\* One request changes.
LEMMA RequestChanges ==
    ASSUME CodeInv, NEW r \in Requests, NEW q, req' = [req EXCEPT ![r] = q], ProgramRequestFor(q),
           \/ mainJava' = NoRequest
           \/ mainJava' = r /\ q.kind = "javaTool" /\ q.at \in {"build", "run", "answered"}
           \/ /\ mainJava' = mainJava
              /\ req[r].kind = "javaTool" /\ req[r].at \in {"build", "run", "answered"} =>
                    q.kind = "javaTool" /\ q.at \in {"build", "run", "answered"}
    PROVE  CodeInv'
<1>1. /\ req' = [o \in Requests |-> req'[o]] /\ req'[r] = q /\ \A o \in Requests : o # r => req'[o] = req[o]
  BY DEF CodeInv
<1>2. JavaOwned'
  BY <1>1 DEF CodeInv, JavaOwned
<1> QED
  BY <1>1, <1>2 DEF CodeInv

\* Bytes t+1 to t+k follow the first t.
LEMMA PrintedGoesOn ==
    ASSUME NEW t \in Nat, NEW k \in Nat, NEW x \in Seq(Nat), Len(x) = k, \A i \in 1..k : x[i] = t + i
    PROVE  Printed(t) \o x = Printed(t + k)
<1>1. \A j \in Nat : Printed(j) \in Seq(Nat) /\ Len(Printed(j)) = j /\ \A i \in 1..j : Printed(j)[i] = i
  BY DEF Printed
<1> DEFINE a == Printed(t)
           z == Printed(t + k)
<1>2. a \in Seq(Nat) /\ Len(a) = t /\ z \in Seq(Nat) /\ Len(z) = t + k /\ t + k \in Nat
  BY <1>1
<1>3. (\A i \in 1..t : a[i] = i) /\ (\A i \in 1..(t + k) : z[i] = i)
  BY <1>1
<1> HIDE DEF a, z
<1>4. /\ a \o x \in Seq(Nat) /\ Len(a \o x) = t + k
      /\ \A i \in 1..(t + k) : (a \o x)[i] = IF i <= t THEN a[i] ELSE x[i - t]
  BY <1>2, ConcatProperties
<1>5. ASSUME NEW i \in 1..(t + k) PROVE (a \o x)[i] = z[i]
  <2>1. CASE i <= t
    BY <1>3, <1>4, <2>1
  <2>2. CASE i > t
    <3>1. i - t \in 1..k /\ ~ (i <= t)
      BY <2>2
    <3>2. (a \o x)[i] = x[i - t]
      BY <1>4, <3>1
    <3>3. x[i - t] = t + (i - t)
      BY <3>1
    <3> QED
      BY <1>3, <3>2, <3>3
  <2>3. i <= t \/ i > t
    BY <1>2
  <2> QED
    BY <2>1, <2>2, <2>3
<1> DEFINE y == a \o x
<1>6. y \in Seq(Nat) /\ Len(y) = Len(z) /\ \A i \in 1..Len(y) : y[i] = z[i]
  BY <1>2, <1>4, <1>5
<1> HIDE DEF y
<1>7. y = z
  BY <1>2, <1>6, SeqEqual
<1> QED
  BY <1>7 DEF y, a, z

\* A writer, field by field.
LEMMA WriterIs ==
    ASSUME NEW v, NEW n, NEW tr, tr <=> n > maxOutputBytes,
           v = [buf |-> Printed(Kept(n)), written |-> Kept(n), truncated |-> tr]
    PROVE  WriterAt(v, n)
BY DEF WriterAt

\* A write of n bytes after t bytes.
LEMMA WriterWrites ==
    ASSUME NEW lw, NEW t \in Nat, WriterAt(lw, t), NEW n \in Nat, n > 0
    PROVE  WriterAt(limitedWrite(lw, [i \in 1..n |-> t + i]), t + n)
<1> DEFINE p == [i \in 1..n |-> t + i]
           M == maxOutputBytes
           v == limitedWrite(lw, p)
<1>0. M \in Nat \ {0} /\ t + n \in Nat
  BY CodeAssumption
<1>1. p \in Seq(Nat) /\ Len(p) = n /\ \A i \in 1..n : p[i] = t + i
  <2>1. p \in Seq(Nat) /\ DOMAIN p = 1..n
    OBVIOUS
  <2> QED
    BY <2>1
<1>2. /\ lw = [buf |-> lw.buf, written |-> lw.written, truncated |-> lw.truncated]
      /\ lw.buf = Printed(Kept(t)) /\ lw.written = Kept(t) /\ (lw.truncated <=> t > M)
  BY DEF WriterAt
<1>3. CASE t > M
  <2>1. v = lw
    BY <1>2, <1>3 DEF limitedWrite
  <2>2. Kept(t) = Kept(t + n) /\ t + n > M
    BY <1>0, <1>3 DEF Kept
  <2> QED
    BY <1>3, <2>1, <2>2 DEF WriterAt
<1>4. CASE t = M
  <2>1. ~ (t > M) /\ Kept(t) = M /\ M - M <= 0 /\ Kept(t + n) = M /\ t + n > M
    BY <1>0, <1>4 DEF Kept
  <2>2. v = [lw EXCEPT !.truncated = TRUE]
    BY <1>2, <2>1 DEF limitedWrite
  <2>3. v = [buf |-> lw.buf, written |-> lw.written, truncated |-> TRUE]
    BY <1>2, <2>2
  <2> HIDE DEF v
  <2>8. PICK tr : tr = TRUE
    OBVIOUS
  <2>9. v = [buf |-> Printed(Kept(t + n)), written |-> Kept(t + n), truncated |-> tr]
    BY <1>2, <2>1, <2>3, <2>8
  <2>10. tr <=> t + n > maxOutputBytes
    BY <1>2, <2>1, <2>8
  <2> QED
    BY <2>9, <2>10, WriterIs DEF v, p
<1>5. CASE t < M /\ n > M - t
  <2>1. /\ ~ (t > M) /\ Kept(t) = t /\ ~ (M - t <= 0) /\ Kept(t + n) = M /\ t + n > M /\ M - t \in Nat /\ t + (M - t) = M
        /\ M - t <= n
    BY <1>0, <1>5 DEF Kept
  <2> DEFINE k == M - t
             x == SubSeq(p, 1, k)
  <2>2. v = [buf |-> lw.buf \o x, written |-> M, truncated |-> TRUE]
    BY <1>1, <1>2, <1>5, <2>1 DEF limitedWrite
  <2>3. x \in Seq(Nat) /\ Len(x) = k /\ \A i \in 1..k : x[i] = t + i
    <3>1. k \in Int /\ k \in Nat /\ k <= n
      BY <2>1
    <3> HIDE DEF k, p
    <3>2. \A i \in 1..k : p[i] = t + i /\ p[i] \in Nat
      BY <1>1, <3>1
    <3>3. /\ x \in Seq(Nat) /\ Len(x) = (IF 1 <= k THEN k - 1 + 1 ELSE 0)
          /\ \A i \in 1..(k - 1 + 1) : x[i] = p[1 + i - 1]
      BY <3>1, <3>2, SubSeqProperties
    <3> QED
      BY <3>1, <3>2, <3>3
  <2> HIDE DEF v, x, p
  <2>4. lw.buf \o x = Printed(M)
    <3>1. k \in Nat /\ t + k = M
      BY <2>1
    <3> HIDE DEF k
    <3>2. Printed(t) \o x = Printed(t + k)
      BY <2>3, <3>1, PrintedGoesOn
    <3> QED
      BY <1>2, <2>1, <3>1, <3>2
  <2>8. PICK tr : tr = TRUE
    OBVIOUS
  <2>9. v = [buf |-> Printed(Kept(t + n)), written |-> Kept(t + n), truncated |-> tr]
    BY <2>1, <2>2, <2>4, <2>8
  <2>10. tr <=> t + n > maxOutputBytes
    BY <1>2, <2>1, <2>8
  <2> QED
    BY <2>9, <2>10, WriterIs DEF v, p
<1>6. CASE t < M /\ ~ (n > M - t)
  <2>1. ~ (t > M) /\ Kept(t) = t /\ ~ (M - t <= 0) /\ Kept(t + n) = t + n /\ ~ (t + n > M)
    BY <1>0, <1>6 DEF Kept
  <2>2. v = [lw EXCEPT !.buf = @ \o p, !.written = @ + Len(p)]
    BY <1>1, <1>2, <1>6, <2>1 DEF limitedWrite
  <2> HIDE DEF p
  <2>3. v = [buf |-> lw.buf \o p, written |-> t + n, truncated |-> lw.truncated]
    BY <1>1, <1>2, <2>1, <2>2
  <2>4. lw.buf \o p = Printed(t + n)
    BY <1>1, <1>2, <2>1, PrintedGoesOn
  <2> HIDE DEF v
  <2>8. PICK tr : tr = lw.truncated
    OBVIOUS
  <2>9. v = [buf |-> Printed(Kept(t + n)), written |-> Kept(t + n), truncated |-> tr]
    BY <2>1, <2>3, <2>4, <2>8
  <2>10. tr <=> t + n > maxOutputBytes
    BY <1>2, <2>1, <2>8
  <2> QED
    BY <2>9, <2>10, WriterIs DEF v, p
<1> QED
  BY <1>0, <1>3, <1>4, <1>5, <1>6

\* Nothing was written yet.
LEMMA WriterStarts == WriterAt(NewWriter, 0)
<1>1. Kept(0) = 0 /\ ~ (0 > maxOutputBytes)
  BY CodeAssumption DEF Kept
<1>2. Printed(0) = <<>>
  BY DEF Printed
<1> QED
  BY <1>1, <1>2 DEF WriterAt, NewWriter

\* A request is answered, and its program is not running.
LEMMA AnswersRequest ==
    ASSUME NEW q, ProgramRequestFor(q), NEW c, NEW t, q.at \in {"prepare", "build", "run"}, Truthful(q, c, t)
    PROVE  LET y == Answered(q, c, t) IN ProgramRequestFor(y) /\ y.kind = q.kind /\ y.at = "answered"
<1> DEFINE y == Answered(q, c, t)
<1>1. ProgramShape(q) /\ ProgramFor(q)
  BY DEF ProgramRequestFor
<1>2. /\ y.at = "answered" /\ y.resp = [code |-> c, timedOut |-> t] /\ y.kind = q.kind /\ y.proc = q.proc /\ y.total = q.total
      /\ y.ctx = q.ctx /\ y.code = q.code /\ y.out = q.out
  BY <1>1 DEF Answered, ProgramShape
<1>3. ProgramShape(y)
  BY ZenonT(60), <1>1 DEF Answered, ProgramShape
<1>4. y.resp.code = c /\ y.resp.timedOut = t
  BY <1>2
<1> HIDE DEF y
<1>5. ProgramFor(y)
  BY <1>1, <1>2 DEF ProgramFor, Truthful
<1>6. AnswerFor(y)
  BY <1>2, <1>4 DEF AnswerFor, Truthful
<1>7. ProgramRequestFor(y) /\ y.kind = q.kind /\ y.at = "answered"
  BY <1>2, <1>3, <1>5, <1>6 DEF ProgramRequestFor
<1> QED
  BY <1>7 DEF y

\* What a request may go on to, field by field, before it is answered.
LEMMA RequestGoesOn ==
    ASSUME NEW q, ProgramShape(q), q.at # "answered", ProgramFor(q)
    PROVE  ProgramRequestFor(q)
BY DEF ProgramRequestFor, AnswerFor

\* The handler of a request.
LEMMA HandlerStep ==
    ASSUME CodeInv, NEW r \in Requests, codeHandler(r)
    PROVE  CodeInv'
<1> DEFINE q == req[r]
<1>1. /\ ProgramRequestFor(q) /\ ProgramShape(q) /\ ProgramFor(q) /\ q = req[r]
      /\ req = [o \in Requests |-> req[o]]
  BY DEF CodeInv, ProgramRequestFor
<1>a. /\ q.at \in {"idle", "prepare", "build", "run", "answered", "over"}
      /\ q.proc \in {"none", "running", "exited", "killed"} /\ q.code \in {0, 1} /\ q.ctx \in {"open", "late", "gone"}
  BY <1>1 DEF ProgramShape
<1> HIDE DEF q
<1>b. PICK no : no = -1
  OBVIOUS
<1>c. PICK f : f = FALSE
  OBVIOUS
<1> DEFINE Ends(c, t) == Truthful(q, c, t) /\ req' = [req EXCEPT ![r] = Answered(q, c, t)]
<1>2. ASSUME NEW c, NEW t, q.at \in {"prepare", "build", "run"}, Ends(c, t), mainJava' = mainJava
      PROVE  CodeInv'
  <2> DEFINE y == Answered(q, c, t)
  <2>1. ProgramRequestFor(y) /\ y.kind = q.kind /\ y.at = "answered"
    BY <1>1, <1>2, AnswersRequest
  <2>2. req' = [req EXCEPT ![r] = y]
    BY <1>2
  <2> HIDE DEF y
  <2> QED
    BY <1>1, <1>2, <2>1, <2>2, RequestChanges
<1> HIDE DEF Ends
<1>3. CASE refuse(r)
  <2>1. q.at = "prepare" /\ req' = [req EXCEPT ![r] = Answered(q, -1, FALSE)] /\ mainJava' = mainJava
    BY <1>1, <1>3 DEF refuse
  <2>2. q.proc = "none"
    BY <1>1, <2>1 DEF ProgramFor
  <2>3. Ends(no, f)
    BY <1>b, <1>c, <2>1, <2>2 DEF Truthful, Ends
  <2>4. q.at \in {"prepare", "build", "run"} /\ mainJava' = mainJava
    BY <2>1
  <2> QED
    BY <1>2, <2>3, <2>4
<1>4. CASE startError(r)
  <2>1. q.at \in {"build", "run"} /\ q.proc = "none" /\ req' = [req EXCEPT ![r] = Answered(q, -1, FALSE)] /\ mainJava' = mainJava
    BY <1>1, <1>4 DEF startError
  <2>2. Ends(no, f)
    BY <1>b, <1>c, <2>1 DEF Truthful, Ends
  <2>3. q.at \in {"prepare", "build", "run"} /\ mainJava' = mainJava
    BY <2>1
  <2> QED
    BY <1>2, <2>2, <2>3
<1>5. CASE prepare(r)
  <2> DEFINE y == [q EXCEPT !.at = IF q.kind \in Built THEN "build" ELSE "run", !.file = q.kind # "javaTool"]
  <2>1. q.at = "prepare" /\ req' = [req EXCEPT ![r] = y] /\ mainJava' = IF q.kind = "javaTool" THEN r ELSE mainJava
    BY <1>1, <1>5 DEF prepare
  <2>2. /\ y.at = (IF q.kind \in Built THEN "build" ELSE "run") /\ y.kind = q.kind /\ y.proc = q.proc /\ y.total = q.total
        /\ y.out = q.out
    BY <1>1 DEF ProgramShape
  <2>3. ProgramShape(y)
    BY ZenonT(60), <1>1 DEF ProgramShape
  <2> HIDE DEF y
  <2>4. ProgramFor(y) /\ y.at # "answered"
    BY <1>1, <2>1, <2>2 DEF ProgramFor
  <2>5. ProgramRequestFor(y)
    BY <2>3, <2>4, RequestGoesOn
  <2>6. y.at \in {"build", "run", "answered"}
    BY <2>2
  <2> QED
    BY <1>1, <2>1, <2>2, <2>5, <2>6, RequestChanges
<1>6. CASE startProgram(r)
  <2>1. PICK g : req' = [req EXCEPT ![r].proc = "running", ![r].out = NewWriter, ![r].total = 0, ![r].program = g]
    BY <1>6 DEF startProgram
  <2> DEFINE y == [q EXCEPT !.proc = "running", !.out = NewWriter, !.total = 0, !.program = g]
  <2>2. q.at \in {"build", "run"} /\ req' = [req EXCEPT ![r] = y] /\ mainJava' = mainJava
    BY <1>1, <1>6, <2>1 DEF startProgram
  <2>3. y.at = q.at /\ y.kind = q.kind /\ y.proc = "running" /\ y.total = 0 /\ y.out = NewWriter
    BY <1>1 DEF ProgramShape
  <2>4. ProgramShape(y)
    BY ZenonT(60), <1>1 DEF ProgramShape
  <2> HIDE DEF y
  <2>5. ProgramFor(y) /\ y.at # "answered"
    BY <1>1, <2>2, <2>3, WriterStarts DEF ProgramFor
  <2>6. ProgramRequestFor(y)
    BY <2>4, <2>5, RequestGoesOn
  <2> QED
    BY <1>1, <2>2, <2>3, <2>6, RequestChanges
<1>7. CASE buildEnds(r)
  <2> DEFINE BuiltNow == [q EXCEPT !.at = "run", !.proc = "none", !.compiled = q.kind = "javaTool",
                                   !.ctx = IF q.kind = "compiled" THEN "open" ELSE q.ctx]
  <2>1. /\ q.at = "build" /\ q.proc \in {"exited", "killed"} /\ mainJava' = mainJava
        /\ \/ req' = [req EXCEPT ![r] = Answered(q, -1, FALSE)]
           \/ req' = [req EXCEPT ![r] = BuiltNow]
    <3>1. q.at = "build" /\ q.proc \in {"exited", "killed"} /\ mainJava' = mainJava
      BY <1>1, <1>7 DEF buildEnds, RunOver
    <3>3. req' = [req EXCEPT ![r] = BuiltNow] \/ req' = [req EXCEPT ![r] = Answered(q, -1, FALSE)]
      <4>1. PICK err : req' = [req EXCEPT ![r] = IF err = "nil" THEN BuiltNow ELSE Answered(q, -1, FALSE)]
        BY <1>7 DEF buildEnds, q
      <4> QED
        BY <4>1, Zenon
    <3> QED
      BY <3>1, <3>3
  <2>2. q.kind \in Built
    BY <1>1, <2>1 DEF ProgramFor
  <2>3. CASE req' = [req EXCEPT ![r] = Answered(q, -1, FALSE)]
    <3>1. q.kind \notin {"script", "command"}
      BY <2>2 DEF Built
    <3>2. Ends(no, f)
      BY <1>b, <1>c, <2>1, <2>3, <3>1 DEF Truthful, Ends
    <3>3. q.at \in {"prepare", "build", "run"} /\ mainJava' = mainJava
      BY <2>1
    <3> QED
      BY <1>2, <3>2, <3>3
  <2>4. ASSUME NEW d, NEW x \in {"open", q.ctx}, req' = [req EXCEPT ![r] = [q EXCEPT !.at = "run", !.proc = "none", !.compiled = d, !.ctx = x]]
        PROVE  CodeInv'
    <3> DEFINE y == [q EXCEPT !.at = "run", !.proc = "none", !.compiled = d, !.ctx = x]
    <3>1. y.at = "run" /\ y.kind = q.kind /\ y.proc = "none" /\ y.total = q.total /\ y.out = q.out
      BY <1>1 DEF ProgramShape
    <3>2. ProgramShape(y)
      BY ZenonT(60), <1>1, <2>4 DEF ProgramShape
    <3>3. req' = [req EXCEPT ![r] = y]
      BY <2>4
    <3> HIDE DEF y
    <3>4. ProgramFor(y) /\ y.at # "answered"
      BY <1>1, <3>1 DEF ProgramFor
    <3>5. ProgramRequestFor(y)
      BY <3>2, <3>4, RequestGoesOn
    <3> QED
      BY <1>1, <2>1, <3>1, <3>3, <3>5, RequestChanges
  <2>5. CASE req' = [req EXCEPT ![r] = BuiltNow]
    <3>1. PICK d : d = (q.kind = "javaTool")
      OBVIOUS
    <3>2. PICK x \in {"open", q.ctx} : x = IF q.kind = "compiled" THEN "open" ELSE q.ctx
      OBVIOUS
    <3>3. req' = [req EXCEPT ![r] = [q EXCEPT !.at = "run", !.proc = "none", !.compiled = d, !.ctx = x]]
      BY <1>1, <2>5, <3>1, <3>2 DEF ProgramShape
    <3> QED
      BY <2>4, <3>2, <3>3
  <2> QED
    BY <2>1, <2>3, <2>5
<1>8. CASE runEnds(r)
  <2>1. /\ q.at = "run" /\ q.proc \in {"exited", "killed"} /\ mainJava' = mainJava
        /\ \E err \in RunError(q) : req' = [req EXCEPT ![r] = runAnswer(q, err)]
    BY <1>1, <1>8 DEF runEnds, RunOver
  <2>2. PICK err \in RunError(q) : req' = [req EXCEPT ![r] = runAnswer(q, err)]
    BY <2>1
  <2>3. /\ err = "nil" => q.proc = "exited" /\ q.code = 0
        /\ q.proc = "killed" => err = "exit"
        /\ err \in {"nil", "exit", "ctx"}
    BY <2>1, <2>2 DEF RunError
  <2>10. q.at \in {"prepare", "build", "run"} /\ mainJava' = mainJava
    BY <2>1
  <2>4. PICK z : z = 0
    OBVIOUS
  <2>5. PICK t : t = TRUE
    OBVIOUS
  <2>6. CASE err = "nil"
    <3>1. req' = [req EXCEPT ![r] = Answered(q, z, f)]
      BY <1>c, <2>2, <2>4, <2>6 DEF runAnswer
    <3>2. Ends(z, f)
      BY <1>c, <2>3, <2>4, <2>6, <3>1 DEF Truthful, Ends
    <3> QED
      BY <1>2, <2>10, <3>2
  <2>7. CASE err # "nil" /\ q.ctx = "late" /\ (q.kind \in Tools => err # "exit")
    <3>1. req' = [req EXCEPT ![r] = Answered(q, no, t)]
      BY <1>b, <2>2, <2>5, <2>7 DEF runAnswer
    <3>2. Ends(no, t)
      BY <1>b, <2>1, <2>5, <2>7, <3>1 DEF Truthful, Ends
    <3> QED
      BY <1>2, <2>10, <3>2
  <2>8. CASE err = "exit" /\ (q.ctx # "late" \/ q.kind \in Tools)
    <3>1. req' = [req EXCEPT ![r] = Answered(q, ExitCode(q), f)]
      BY <1>c, <2>2, <2>8 DEF runAnswer
    <3>2. ExitCode(q) # -1 => q.proc = "exited" /\ q.code = ExitCode(q)
      BY <2>1 DEF ExitCode
    <3>3. q.kind \in {"script", "command"} => q.kind \notin Tools
      BY DEF Tools
    <3>4. Ends(ExitCode(q), f)
      BY <1>c, <2>1, <2>8, <3>2, <3>3, <3>1 DEF Truthful, Ends
    <3> QED
      BY <1>2, <2>10, <3>4
  <2>9. CASE err = "ctx" /\ q.ctx # "late"
    <3>1. req' = [req EXCEPT ![r] = Answered(q, no, f)]
      BY <1>b, <1>c, <2>2, <2>9 DEF runAnswer
    <3>2. Ends(no, f)
      BY <1>b, <1>c, <2>1, <2>9, <3>1 DEF Truthful, Ends
    <3> QED
      BY <1>2, <2>10, <3>2
  <2> QED
    BY <2>3, <2>6, <2>7, <2>8, <2>9
<1>9. CASE cleanup(r)
  <2> DEFINE y == [NoProgram EXCEPT !.at = "over", !.proc = q.proc, !.kid = q.kid]
  <2>1. /\ q.at = "answered" /\ req' = [req EXCEPT ![r] = y]
        /\ mainJava' = IF q.kind = "javaTool" THEN NoRequest ELSE mainJava
    BY <1>1, <1>9 DEF cleanup
  <2>2. y.at = "over" /\ y.kind = "command" /\ y.proc = q.proc /\ ~ y.file
    BY DEF NoProgram
  <2>3. ProgramShape(y)
    BY ZenonT(60), <1>a DEF ProgramShape, NoProgram, Kinds
  <2> HIDE DEF y
  <2>4. ProgramFor(y) /\ y.at # "answered"
    BY <1>1, <2>1, <2>2 DEF ProgramFor, Limited
  <2>5. ProgramRequestFor(y)
    BY <2>3, <2>4, RequestGoesOn
  <2> QED
    BY <1>1, <2>1, <2>2, <2>5, RequestChanges
<1> QED
  BY <1>3, <1>4, <1>5, <1>6, <1>7, <1>8, <1>9 DEF codeHandler

\* A request comes in, its context ends, or its program does something.
LEMMA ProgramStep ==
    ASSUME CodeInv, NEW r \in Requests,
           \/ \E k \in Kinds, timed \in BOOLEAN : Execute(r, k, timed)
           \/ deadline(r) \/ clientGone(r) \/ killProgram(r) \/ codeProcess(r)
    PROVE  CodeInv'
<1> DEFINE q == req[r]
<1>1. /\ ProgramRequestFor(q) /\ ProgramShape(q) /\ ProgramFor(q) /\ AnswerFor(q) /\ q = req[r]
      /\ req = [o \in Requests |-> req[o]]
  BY DEF CodeInv, ProgramRequestFor
<1> HIDE DEF q
<1>2. ASSUME NEW y, ProgramRequestFor(y), y.kind = q.kind, y.at = q.at, req' = [req EXCEPT ![r] = y], mainJava' = mainJava
      PROVE  CodeInv'
  BY <1>1, <1>2, RequestChanges
<1>3. ASSUME NEW k \in Kinds, NEW timed, Execute(r, k, timed) PROVE CodeInv'
  <2> DEFINE y == [q EXCEPT !.kind = k, !.timed = timed, !.at = IF k = "command" THEN "run" ELSE "prepare"]
  <2>1. q.at = "idle" /\ req' = [req EXCEPT ![r] = y] /\ mainJava' = mainJava
    BY <1>1, <1>3 DEF Execute
  <2>2. /\ y.kind = k /\ y.at = (IF k = "command" THEN "run" ELSE "prepare") /\ y.proc = q.proc /\ y.total = q.total /\ y.out = q.out
    BY <1>1 DEF ProgramShape
  <2>3. ProgramShape(y)
    BY ZenonT(60), <1>1, <1>3 DEF ProgramShape
  <2> HIDE DEF y
  <2>4. ProgramFor(y) /\ y.at # "answered"
    BY <1>1, <2>1, <2>2 DEF ProgramFor
  <2>5. ProgramRequestFor(y)
    BY <2>3, <2>4, RequestGoesOn
  <2> QED
    BY <1>1, <2>1, <2>5, RequestChanges
<1>4. ASSUME NEW x \in {"late", "gone"}, q.at \in {"build", "run"}, req' = [req EXCEPT ![r] = [q EXCEPT !.ctx = x]], mainJava' = mainJava
      PROVE  CodeInv'
  <2> DEFINE y == [q EXCEPT !.ctx = x]
  <2>1. y.kind = q.kind /\ y.at = q.at /\ y.proc = q.proc /\ y.total = q.total /\ y.out = q.out /\ req' = [req EXCEPT ![r] = y]
    BY <1>1, <1>4 DEF ProgramShape
  <2>2. ProgramShape(y)
    BY ZenonT(60), <1>1, <1>4 DEF ProgramShape
  <2> HIDE DEF y
  <2>3. ProgramFor(y) /\ y.at # "answered"
    BY <1>1, <1>4, <2>1 DEF ProgramFor
  <2>4. ProgramRequestFor(y)
    BY <2>2, <2>3, RequestGoesOn
  <2> QED
    BY <1>2, <1>4, <2>1, <2>4
<1>5. CASE deadline(r)
  <2>1. q.at \in {"build", "run"} /\ req' = [req EXCEPT ![r] = [q EXCEPT !.ctx = "late"]] /\ mainJava' = mainJava
    BY <1>1, <1>5 DEF deadline
  <2> QED
    BY <1>4, <2>1
<1>6. CASE clientGone(r)
  <2>1. q.at \in {"build", "run"} /\ req' = [req EXCEPT ![r] = [q EXCEPT !.ctx = "gone"]] /\ mainJava' = mainJava
    BY <1>1, <1>6 DEF clientGone
  <2> QED
    BY <1>4, <2>1
<1>7. ASSUME NEW x \in {"exited", "killed"}, NEW c \in {0, 1}, q.proc = "running",
             req' = [req EXCEPT ![r] = [q EXCEPT !.proc = x, !.code = c]], mainJava' = mainJava
      PROVE  CodeInv'
  <2> DEFINE y == [q EXCEPT !.proc = x, !.code = c]
  <2>1. /\ y.kind = q.kind /\ y.at = q.at /\ y.proc = x /\ y.total = q.total /\ y.out = q.out /\ y.file = q.file
        /\ req' = [req EXCEPT ![r] = y]
    BY <1>1, <1>7 DEF ProgramShape
  <2>2. ProgramShape(y)
    BY ZenonT(60), <1>1, <1>7 DEF ProgramShape
  <2> HIDE DEF y
  <2>3. ProgramFor(y) /\ y.at # "answered"
    BY <1>1, <1>7, <2>1 DEF ProgramFor
  <2>4. ProgramRequestFor(y)
    BY <2>2, <2>3, RequestGoesOn
  <2> QED
    BY <1>2, <1>7, <2>1, <2>4
<1>8. CASE killProgram(r)
  <2>1. q.proc = "running" /\ req' = [req EXCEPT ![r] = [q EXCEPT !.proc = "killed"]] /\ mainJava' = mainJava
    BY <1>1, <1>8 DEF killProgram
  <2>2. q.code \in {0, 1} /\ [q EXCEPT !.proc = "killed"] = [q EXCEPT !.proc = "killed", !.code = q.code]
    BY <1>1 DEF ProgramShape
  <2> QED
    BY <1>7, <2>1, <2>2
<1>9. ASSUME NEW c \in {0, 1}, exits(r, c) PROVE CodeInv'
  <2>1. q.proc = "running" /\ req' = [req EXCEPT ![r] = [q EXCEPT !.proc = "exited", !.code = c]] /\ mainJava' = mainJava
    BY <1>1, <1>9 DEF exits
  <2> QED
    BY <1>7, <1>9, <2>1
<1>10. ASSUME NEW k, req' = [req EXCEPT ![r] = [q EXCEPT !.kid = k]], mainJava' = mainJava PROVE CodeInv'
  <2> DEFINE y == [q EXCEPT !.kid = k]
  <2>1. /\ y.kind = q.kind /\ y.at = q.at /\ y.proc = q.proc /\ y.total = q.total /\ y.out = q.out /\ y.file = q.file
        /\ y.code = q.code /\ y.ctx = q.ctx /\ y.resp = q.resp /\ req' = [req EXCEPT ![r] = y]
    BY <1>1, <1>10 DEF ProgramShape
  <2>2. ProgramShape(y)
    BY ZenonT(60), <1>1, <1>10 DEF ProgramShape
  <2> HIDE DEF y
  <2>3. ProgramFor(y)
    BY <1>1, <2>1 DEF ProgramFor
  <2>4. AnswerFor(y)
    BY <1>1, <2>1 DEF AnswerFor
  <2> QED
    BY <1>2, <1>10, <2>1, <2>2, <2>3, <2>4 DEF ProgramRequestFor
<1>11. ASSUME NEW k, fork(r, k) PROVE CodeInv'
  <2>1. req' = [req EXCEPT ![r] = [q EXCEPT !.kid = k]] /\ mainJava' = mainJava
    BY <1>1, <1>11 DEF fork
  <2> QED
    BY <1>10, <2>1
<1>12. CASE kidEnds(r)
  <2>1. req' = [req EXCEPT ![r] = [q EXCEPT !.kid = "none"]] /\ mainJava' = mainJava
    BY <1>1, <1>12 DEF kidEnds
  <2> QED
    BY <1>10, <2>1
<1>13. ASSUME NEW n \in 1..2, prints(r, n) PROVE CodeInv'
  <2> DEFINE w == limitedWrite(q.out, [i \in 1..n |-> q.total + i])
             y == [q EXCEPT !.total = q.total + n, !.out = w]
  <2>1. q.proc = "running" /\ q.kind \in Limited /\ req' = [req EXCEPT ![r] = y] /\ mainJava' = mainJava
    BY <1>1, <1>13 DEF prints
  <2>2. n \in Nat /\ n > 0 /\ q.total \in Nat
    BY <1>1, <1>13 DEF ProgramShape
  <2>3. WriterAt(q.out, q.total)
    BY <1>1, <2>1 DEF ProgramFor
  <2>4. WriterAt(w, q.total + n)
    BY <2>2, <2>3, WriterWrites
  <2> HIDE DEF w
  <2>5. y.kind = q.kind /\ y.at = q.at /\ y.proc = q.proc /\ y.total = q.total + n /\ y.out = w
    BY <1>1 DEF ProgramShape
  <2>6. ProgramShape(y)
    <3>1. PICK m \in Nat : m = q.total + n
      BY <2>2
    <3>2. y = [q EXCEPT !.total = m, !.out = w]
      BY <3>1
    <3> HIDE DEF y
    <3> QED
      BY ZenonT(60), <1>1, <3>2 DEF ProgramShape
  <2> HIDE DEF y
  <2>7. ProgramFor(y) /\ y.at # "answered"
    BY <1>1, <2>1, <2>4, <2>5 DEF ProgramFor
  <2>8. ProgramRequestFor(y)
    BY <2>6, <2>7, RequestGoesOn
  <2> QED
    BY <1>2, <2>1, <2>5, <2>8
<1> QED
  BY <1>3, <1>5, <1>6, <1>8, <1>9, <1>11, <1>12, <1>13 DEF codeProcess

\* No request yet.
LEMMA CodeStarts == CodeInit => CodeInv
<1> SUFFICES ASSUME CodeInit PROVE CodeInv
  OBVIOUS
<1>1. /\ NoProgram.at = "idle" /\ NoProgram.proc = "none" /\ NoProgram.total = 0 /\ NoProgram.out = NewWriter
      /\ NoProgram.kind = "command"
  BY DEF NoProgram
<1>2. ProgramShape(NoProgram)
  BY DEF ProgramShape, NoProgram, Kinds
<1>3. ProgramFor(NoProgram)
  BY <1>1, WriterStarts DEF ProgramFor, Limited
<1>4. ProgramRequestFor(NoProgram)
  BY <1>1, <1>2, <1>3, RequestGoesOn
<1> QED
  BY <1>4 DEF CodeInit, CodeInv, JavaOwned

\* What RunsSafe says of the states of the invariant.
LEMMA CodeInvSafe == CodeInv => RunsSafe
<1> SUFFICES ASSUME CodeInv PROVE RunsSafe
  OBVIOUS
<1>1. OutputIsPrefix
  <2>1. ASSUME NEW r \in Requests, req[r].kind \in Limited PROVE WriterAt(req[r].out, req[r].total)
    BY <2>1 DEF CodeInv, ProgramRequestFor, ProgramFor
  <2> QED
    BY <2>1 DEF OutputIsPrefix, WriterAt, Printed, Kept
<1>2. AnswerTruthful
  <2>1. ASSUME NEW r \in Requests PROVE AnswerFor(req[r])
    BY <2>1 DEF CodeInv, ProgramRequestFor
  <2> QED
    BY <2>1 DEF AnswerTruthful, AnswerFor
<1>3. NothingLeft
  <2>1. ASSUME NEW r \in Requests, req[r].at = "over" PROVE ~ req[r].file /\ req[r].proc # "running"
    BY <2>1 DEF CodeInv, ProgramRequestFor, ProgramFor
  <2>2. (\A r \in Requests : req[r].at \in {"idle", "over"}) => mainJava = NoRequest
    BY DEF CodeInv, JavaOwned
  <2> QED
    BY <2>1, <2>2 DEF NothingLeft
<1> QED
  BY <1>1, <1>2, <1>3 DEF RunsSafe

\* Whatever comes first, exit, deadline, output limit or failure: the answer tells
\* what happened to the program, the output is the beginning of what it printed,
\* and neither process nor file is left, for any number of requests and any limit.
THEOREM RunsAlwaysSafe == CodeSpec => []RunsSafe
<1>1. CodeInv /\ [CodeNext]_codeVars => CodeInv'
  <2> SUFFICES ASSUME CodeInv, [CodeNext]_codeVars PROVE CodeInv'
    OBVIOUS
  <2>1. CASE UNCHANGED codeVars
    BY <2>1 DEF codeVars, CodeInv, JavaOwned
  <2>2. CASE CodeNext
    BY <2>2, HandlerStep, ProgramStep DEF CodeNext
  <2> QED
    BY <2>1, <2>2
<1> QED
  BY <1>1, CodeStarts, CodeInvSafe, PTL DEF CodeSpec

-----------------------------------------------------------------------------
(* Dev tools *)

\* A sequence, whatever its elements.
IsSequence(s) == \E S : s \in Seq(S)

\* The shape of a tool.
ToolShape(x) ==
    x \in [sandbox : Sandboxes, port : {x.port}, status : {"pending", "running", "failed", "stopped"},
           alive : {x.alive}, listening : {x.listening},
           monitor : {"none", "probe", "wait", "write", "release", "done"}]

\* Instance i is x, and ins and map are m.instances and m.sandboxMap.
ToolFor(x, i, ins, map) ==
    /\ i \in ins <=> i \in map[x.sandbox]
    /\ x.monitor = "none" => i \notin ins
    /\ x.monitor # "none" /\ i \notin ins => ~ x.alive /\ x.status \in {"stopped", "failed"}

\* The shape of a call on its way.
CallShape(q) ==
    q \in [op : {"none", "launch", "register", "stopNext", "kill", "remove"}, sandbox : {q.sandbox}, port : {q.port},
           id : {q.id}, rest : {q.rest}]

\* What a call q relies on, ts being the instances.
CallFor(q, ts) ==
    /\ CallShape(q)
    /\ q.op \in {"launch", "register"} => q.sandbox \in Sandboxes
    /\ q.op = "register" => /\ q.id \in DOMAIN ts /\ ts[q.id].port = q.port /\ ts[q.id].sandbox = q.sandbox
                            /\ ts[q.id].monitor = "none"
    /\ q.op \in {"kill", "remove"} => q.id \in DOMAIN ts /\ ts[q.id].monitor # "none"
    /\ q.op = "remove" => ~ ts[q.id].alive
    /\ \A i \in q.rest : i \in DOMAIN ts /\ ts[i].monitor # "none"

\* The instances, and the two maps that list them.
ToolsHold ==
    /\ IsSequence(tools) /\ Len(tools) <= MaxTools
    /\ instances \subseteq Launched
    /\ \A i \in Launched : /\ ToolShape(tools[i])
                           /\ ToolFor(tools[i], i, instances, sandboxMap)
    /\ sandboxMap = [s \in Sandboxes |-> sandboxMap[s]]
    /\ \A s \in Sandboxes : \A i \in sandboxMap[s] : i \in Launched /\ tools[i].monitor # "none"

\* What the calls rely on; no two register the same instance.
CallsHold ==
    /\ call = [c \in ToolClients |-> call[c]]
    /\ \A c \in ToolClients : CallFor(call[c], tools)
    /\ \A c \in ToolClients : \A d \in ToolClients :
          c # d /\ call[c].op = "register" /\ call[d].op = "register" => call[c].id # call[d].id

\* A port that is taken is a listed instance's, or that of a launch on its way.
PortsHold ==
    \A p \in usedPorts :
       \/ \E c \in ToolClients : call[c].op \in {"launch", "register"} /\ call[c].port = p
       \/ \E i \in instances : tools[i].port = p

\* The inductive invariant.
ToolsInv == ToolsHold /\ CallsHold /\ PortsHold

\* The instances are numbered.
LEMMA SequenceFacts ==
    ASSUME NEW s, IsSequence(s)
    PROVE  /\ Len(s) \in Nat /\ DOMAIN s = 1..Len(s) /\ s = [i \in DOMAIN s |-> s[i]]
           /\ \A x : /\ IsSequence(Append(s, x)) /\ Len(Append(s, x)) = Len(s) + 1 /\ DOMAIN Append(s, x) = DOMAIN s \cup {Len(s) + 1}
                     /\ Append(s, x)[Len(s) + 1] = x /\ \A i \in DOMAIN s : Append(s, x)[i] = s[i]
<1>1. PICK S : s \in Seq(S)
  BY DEF IsSequence
<1>2. Len(s) \in Nat /\ DOMAIN s = 1..Len(s) /\ s = [i \in DOMAIN s |-> s[i]]
  BY <1>1
<1>3. ASSUME NEW x
      PROVE  /\ IsSequence(Append(s, x)) /\ Len(Append(s, x)) = Len(s) + 1 /\ DOMAIN Append(s, x) = DOMAIN s \cup {Len(s) + 1}
             /\ Append(s, x)[Len(s) + 1] = x /\ \A i \in DOMAIN s : Append(s, x)[i] = s[i]
  <2>1. s \in Seq(S \cup {x}) /\ x \in S \cup {x}
    BY <1>1
  <2> DEFINE T == S \cup {x}
             a == Append(s, x)
  <2> HIDE DEF T
  <2>2. a \in Seq(T) /\ Len(a) = Len(s) + 1 /\ a[Len(s) + 1] = x /\ \A i \in 1..Len(s) : a[i] = s[i]
    BY <2>1 DEF T
  <2> HIDE DEF a
  <2>3. DOMAIN a = 1..(Len(s) + 1)
    BY <1>2, <2>2, LenProperties
  <2> QED
    BY <1>2, <2>2, <2>3 DEF IsSequence, a
<1> QED
  BY <1>2, <1>3

\* A function on S.
FunctionOn(f, S) == f = [k \in S |-> f[k]]

\* The elements of a sequence are replaced.
LEMMA SequenceReplaces ==
    ASSUME NEW s, IsSequence(s), NEW r, FunctionOn(r, DOMAIN s)
    PROVE  IsSequence(r) /\ Len(r) = Len(s)
<1>1. Len(s) \in Nat /\ DOMAIN s = 1..Len(s)
  BY SequenceFacts
<1> DEFINE T == {r[k] : k \in DOMAIN s}
           n == Len(s)
<1>2. n \in Nat /\ r = [k \in 1..n |-> r[k]] /\ \A k \in 1..n : r[k] \in T
  BY <1>1 DEF FunctionOn
<1> HIDE DEF T, n
<1>3. r \in Seq(T) /\ Len(r) = n
  BY <1>2
<1> QED
  BY <1>3 DEF IsSequence, n

\* Instance i becomes y, which is no more alive than it was; the maps stay.
LEMMA ToolChanges ==
    ASSUME ToolsHold, NEW i \in Launched, NEW y, tools' = [tools EXCEPT ![i] = y], ToolShape(y),
           y.sandbox = tools[i].sandbox, y.port = tools[i].port, y.monitor = "none" <=> tools[i].monitor = "none",
           y.alive => tools[i].alive
    PROVE  /\ DOMAIN tools' = DOMAIN tools /\ IsSequence(tools') /\ Len(tools') <= MaxTools
           /\ tools'[i] = y /\ \A k \in DOMAIN tools : k # i => tools'[k] = tools[k]
           /\ \A k \in DOMAIN tools : tools'[k].port = tools[k].port /\ tools'[k].sandbox = tools[k].sandbox
           /\ \A k \in DOMAIN tools : tools'[k].monitor = "none" <=> tools[k].monitor = "none"
           /\ \A q : CallFor(q, tools) => CallFor(q, tools')
           /\ ToolFor(y, i, instances, sandboxMap) /\ instances' = instances /\ sandboxMap' = sandboxMap => ToolsHold'
<1>1. IsSequence(tools) /\ DOMAIN tools = Launched /\ i \in DOMAIN tools
  BY DEF ToolsHold, Launched
<1>2. /\ tools = [k \in DOMAIN tools |-> tools[k]] /\ IsSequence(tools') /\ Len(tools') = Len(tools)
  <2>1. tools = [k \in DOMAIN tools |-> tools[k]]
    BY <1>1, SequenceFacts
  <2>2. IsSequence(tools') /\ Len(tools') = Len(tools)
    <3>1. FunctionOn(tools', DOMAIN tools)
      BY <1>1, <2>1 DEF FunctionOn
    <3> QED
      BY <1>1, <3>1, SequenceReplaces
  <2> QED
    BY <2>1, <2>2
<1>3. DOMAIN tools' = DOMAIN tools /\ tools'[i] = y /\ \A k \in DOMAIN tools : k # i => tools'[k] = tools[k]
  BY <1>1, <1>2
<1>4. \A k \in DOMAIN tools : /\ tools'[k].port = tools[k].port /\ tools'[k].sandbox = tools[k].sandbox
                              /\ tools'[k].monitor = "none" <=> tools[k].monitor = "none"
                              /\ tools'[k].alive => tools[k].alive
  BY <1>3
<1>5. ASSUME NEW q, CallFor(q, tools) PROVE CallFor(q, tools')
  BY <1>3, <1>4, <1>5 DEF CallFor
<1>6. ASSUME ToolFor(y, i, instances, sandboxMap), instances' = instances, sandboxMap' = sandboxMap PROVE ToolsHold'
  <2>1. ASSUME NEW k \in DOMAIN tools PROVE ToolShape(tools'[k]) /\ ToolFor(tools'[k], k, instances, sandboxMap)
    BY <1>1, <1>3, <1>6 DEF ToolsHold
  <2> QED
    BY <1>1, <1>2, <1>3, <1>4, <1>6, <2>1 DEF ToolsHold, Launched
<1> QED
  BY <1>2, <1>3, <1>4, <1>5, <1>6 DEF ToolsHold

\* Client c goes on to q.
LEMMA CallChanges ==
    ASSUME CallsHold, NEW c \in ToolClients, NEW q, call' = [call EXCEPT ![c] = q], CallFor(q, tools'),
           \A d \in ToolClients : d # c => CallFor(call[d], tools'),
           q.op = "register" => \A d \in ToolClients : d # c /\ call[d].op = "register" => call[d].id # q.id
    PROVE  CallsHold' /\ call'[c] = q /\ \A d \in ToolClients : d # c => call'[d] = call[d]
<1>1. call' = [d \in ToolClients |-> call'[d]] /\ call'[c] = q /\ \A d \in ToolClients : d # c => call'[d] = call[d]
  BY DEF CallsHold
<1>2. \A d \in ToolClients : CallFor(call'[d], tools')
  BY <1>1
<1>3. \A d \in ToolClients : \A e \in ToolClients :
         d # e /\ call'[d].op = "register" /\ call'[e].op = "register" => call'[d].id # call'[e].id
  BY <1>1 DEF CallsHold
<1> QED
  BY <1>1, <1>2, <1>3 DEF CallsHold

\* The monitor of an instance, and the tool itself.
LEMMA MonitorStep ==
    ASSUME ToolsInv, NEW i \in Launched, Monitor(i) \/ Listen(i) \/ ToolExits(i)
    PROVE  ToolsInv'
<1> DEFINE x == tools[i]
<1>1. ToolShape(x) /\ ToolFor(x, i, instances, sandboxMap) /\ x = tools[i]
  BY DEF ToolsInv, ToolsHold
<1>2. IsSequence(tools) /\ tools = [k \in DOMAIN tools |-> tools[k]] /\ i \in DOMAIN tools
  BY SequenceFacts DEF ToolsInv, ToolsHold, Launched
<1> HIDE DEF x
<1>3. ASSUME NEW y, tools' = [tools EXCEPT ![i] = y], ToolShape(y), ToolFor(y, i, instances, sandboxMap),
             y.sandbox = x.sandbox, y.port = x.port, y.monitor = "none" <=> x.monitor = "none", y.alive => x.alive,
             usedPorts' \subseteq usedPorts, instances' = instances, sandboxMap' = sandboxMap, call' = call
      PROVE  ToolsInv'
  <2>1. /\ DOMAIN tools' = DOMAIN tools /\ ToolsHold' /\ \A q : CallFor(q, tools) => CallFor(q, tools')
        /\ \A k \in DOMAIN tools : tools'[k].port = tools[k].port
    BY <1>1, <1>3, ToolChanges DEF ToolsInv
  <2>2. CallsHold'
    BY <1>3, <2>1 DEF ToolsInv, CallsHold
  <2>3. PortsHold'
    BY <1>3, <2>1 DEF ToolsInv, PortsHold, ToolsHold, Launched
  <2> QED
    BY <2>1, <2>2, <2>3 DEF ToolsInv
<1>4. ASSUME NEW st \in {"pending", "running", "failed", "stopped"}, NEW mo \in {"probe", "wait", "write", "release", "done"},
             tools' = [tools EXCEPT ![i] = [x EXCEPT !.status = st, !.monitor = mo]], x.monitor # "none",
             st = x.status \/ st \in {"stopped", "failed"} \/ x.status = "pending",
             usedPorts' \subseteq usedPorts, instances' = instances, sandboxMap' = sandboxMap, call' = call
      PROVE  ToolsInv'
  <2> DEFINE y == [x EXCEPT !.status = st, !.monitor = mo]
  <2>1. y.sandbox = x.sandbox /\ y.port = x.port /\ y.monitor = mo /\ y.alive = x.alive /\ y.status = st
    BY <1>1 DEF ToolShape
  <2>2. ToolShape(y)
    BY <1>1, <1>4 DEF ToolShape
  <2> HIDE DEF y
  <2>3. ToolFor(y, i, instances, sandboxMap)
    BY <1>1, <1>4, <2>1 DEF ToolFor
  <2>4. tools' = [tools EXCEPT ![i] = y] /\ (y.monitor = "none" <=> x.monitor = "none")
    BY <1>4, <2>1 DEF y
  <2> QED
    BY <1>3, <1>4, <2>1, <2>2, <2>3, <2>4
<1>5. CASE Probe(i)
  <2> DEFINE st == IF x.status = "pending" THEN "running" ELSE x.status
  <2>1. /\ x.monitor = "probe" /\ tools' = [tools EXCEPT ![i] = [x EXCEPT !.status = st, !.monitor = "wait"]]
        /\ usedPorts' = usedPorts /\ instances' = instances /\ sandboxMap' = sandboxMap /\ call' = call
    BY <1>1, <1>2, <1>5 DEF Probe
  <2>2. st \in {"pending", "running", "failed", "stopped"} /\ (st = x.status \/ x.status = "pending")
    BY <1>1 DEF ToolShape
  <2> HIDE DEF st
  <2> QED
    BY <1>4, <2>1, <2>2
<1>6. CASE ProbeDeadline(i)
  <2> DEFINE st == IF x.status = "pending" THEN "failed" ELSE x.status
  <2>1. /\ x.monitor = "probe" /\ tools' = [tools EXCEPT ![i] = [x EXCEPT !.status = st, !.monitor = "done"]]
        /\ usedPorts' = usedPorts /\ instances' = instances /\ sandboxMap' = sandboxMap /\ call' = call
    BY <1>1, <1>2, <1>6 DEF ProbeDeadline
  <2>2. st \in {"pending", "running", "failed", "stopped"} /\ (st = x.status \/ x.status = "pending")
    BY <1>1 DEF ToolShape
  <2> HIDE DEF st
  <2> QED
    BY <1>4, <2>1, <2>2
<1>7. CASE WaitReads(i)
  <2> DEFINE mo == IF x.status \in {"running", "pending"} THEN "write" ELSE "release"
  <2>1. /\ x.monitor = "wait" /\ tools' = [tools EXCEPT ![i] = [x EXCEPT !.monitor = mo]]
        /\ usedPorts' = usedPorts /\ instances' = instances /\ sandboxMap' = sandboxMap /\ call' = call
    BY <1>1, <1>2, <1>7 DEF WaitReads
  <2>2. mo \in {"probe", "wait", "write", "release", "done"} /\ x.status \in {"pending", "running", "failed", "stopped"}
    BY <1>1 DEF ToolShape
  <2> HIDE DEF mo
  <2>3. [x EXCEPT !.monitor = mo] = [x EXCEPT !.status = x.status, !.monitor = mo]
    BY <1>1 DEF ToolShape
  <2> QED
    BY <1>4, <2>1, <2>2, <2>3
<1>8. CASE WaitWrites(i)
  <2>1. PICK st \in {"failed", "stopped"} : tools' = [tools EXCEPT ![i] = [x EXCEPT !.status = st, !.monitor = "release"]]
    <3>1. PICK st \in {"failed", "stopped"} : tools' = [tools EXCEPT ![i].status = st, ![i].monitor = "release"]
      BY <1>8 DEF WaitWrites
    <3>2. tools' = [tools EXCEPT ![i] = [x EXCEPT !.status = st, !.monitor = "release"]]
      BY <1>1, <1>2, <3>1
    <3> QED
      BY <3>2
  <2>2. x.monitor = "write" /\ usedPorts' = usedPorts /\ instances' = instances /\ sandboxMap' = sandboxMap /\ call' = call
    BY <1>1, <1>8 DEF WaitWrites
  <2> QED
    BY <1>4, <2>1, <2>2
<1>9. CASE WaitReleases(i)
  <2>1. /\ x.monitor = "release" /\ tools' = [tools EXCEPT ![i] = [x EXCEPT !.monitor = "done"]]
        /\ usedPorts' \subseteq usedPorts /\ instances' = instances /\ sandboxMap' = sandboxMap /\ call' = call
    BY <1>1, <1>2, <1>9 DEF WaitReleases
  <2>2. [x EXCEPT !.monitor = "done"] = [x EXCEPT !.status = x.status, !.monitor = "done"]
    BY <1>1 DEF ToolShape
  <2>3. x.status \in {"pending", "running", "failed", "stopped"}
    BY <1>1 DEF ToolShape
  <2> QED
    BY <1>4, <2>1, <2>2, <2>3
<1>10. ASSUME NEW a, NEW l, x.alive, tools' = [tools EXCEPT ![i] = [x EXCEPT !.listening = l, !.alive = a]],
              usedPorts' = usedPorts, instances' = instances, sandboxMap' = sandboxMap, call' = call
      PROVE  ToolsInv'
  <2> DEFINE y == [x EXCEPT !.listening = l, !.alive = a]
  <2>1. y.sandbox = x.sandbox /\ y.port = x.port /\ y.monitor = x.monitor /\ y.status = x.status
    BY <1>1 DEF ToolShape
  <2>2. ToolShape(y)
    BY <1>1, <1>10 DEF ToolShape
  <2> HIDE DEF y
  <2>3. ToolFor(y, i, instances, sandboxMap)
    BY <1>1, <1>10, <2>1 DEF ToolFor
  <2>4. tools' = [tools EXCEPT ![i] = y] /\ usedPorts' \subseteq usedPorts /\ (y.alive => x.alive)
    BY <1>10 DEF y
  <2> QED
    BY <1>3, <1>10, <2>1, <2>2, <2>3, <2>4
<1>11. CASE Listen(i)
  <2>1. PICK a : a = CanListen(tools[i].port)
    OBVIOUS
  <2>2. /\ x.alive /\ tools' = [tools EXCEPT ![i] = [x EXCEPT !.listening = a, !.alive = a]]
        /\ usedPorts' = usedPorts /\ instances' = instances /\ sandboxMap' = sandboxMap /\ call' = call
    BY <1>1, <1>2, <1>11, <2>1 DEF Listen
  <2> QED
    BY <1>10, <2>2
<1>12. CASE ToolExits(i)
  <2>1. PICK a : a = FALSE
    OBVIOUS
  <2>2. /\ x.alive /\ tools' = [tools EXCEPT ![i] = [x EXCEPT !.listening = a, !.alive = a]]
        /\ usedPorts' = usedPorts /\ instances' = instances /\ sandboxMap' = sandboxMap /\ call' = call
    BY <1>1, <1>2, <1>12, <2>1 DEF ToolExits, ToolShape
  <2> QED
    BY <1>10, <2>2
<1> QED
  BY <1>5, <1>6, <1>7, <1>8, <1>9, <1>11, <1>12 DEF Monitor

\* A start or a stop that changes no instance.
LEMMA CallStep ==
    ASSUME ToolsInv, NEW c \in ToolClients, NEW q, call' = [call EXCEPT ![c] = q], CallFor(q, tools),
           q.op # "register", tools' = tools, instances' = instances, sandboxMap' = sandboxMap,
           \A p \in usedPorts' : \/ p \in usedPorts /\ (call[c].op \in {"launch", "register"} => p # call[c].port)
                                 \/ q.op = "launch" /\ q.port = p
    PROVE  ToolsInv'
<1>1. ToolsHold'
  BY DEF ToolsInv, ToolsHold, Launched
<1>2. CallsHold' /\ call'[c] = q /\ \A d \in ToolClients : d # c => call'[d] = call[d]
  BY CallChanges DEF ToolsInv, CallsHold
<1>3. PortsHold'
  <2> SUFFICES ASSUME NEW p \in usedPorts'
               PROVE  \/ \E d \in ToolClients : call'[d].op \in {"launch", "register"} /\ call'[d].port = p
                      \/ \E i \in instances : tools[i].port = p
    BY DEF PortsHold
  <2>1. CASE q.op = "launch" /\ q.port = p
    BY <1>2, <2>1
  <2>2. CASE p \in usedPorts /\ (call[c].op \in {"launch", "register"} => p # call[c].port)
    BY <1>2, <2>2 DEF ToolsInv, PortsHold
  <2> QED
    BY <2>1, <2>2
<1> QED
  BY <1>1, <1>2, <1>3 DEF ToolsInv

\* Calls that only look things up or take and give back a port.
LEMMA LookupStep ==
    ASSUME ToolsInv, NEW c \in ToolClients, ToolCall(c) \/ LaunchFails(c) \/ StopNext(c)
    PROVE  ToolsInv'
<1>1. CallFor(call[c], tools) /\ CallShape(call[c])
  BY DEF ToolsInv, CallsHold, CallFor
<1>2. /\ CallShape(NoCall) /\ NoCall.op = "none" /\ NoCall.rest = {}
      /\ CallFor(NoCall, tools)
  <2>1. CallShape(NoCall) /\ NoCall.op = "none" /\ NoCall.rest = {}
    BY DEF CallShape, NoCall
  <2> QED
    BY <2>1 DEF CallFor
<1>3. ASSUME NEW s \in Sandboxes, NEW p, call[c] = NoCall, usedPorts' = usedPorts \cup {p},
             call' = [call EXCEPT ![c] = [NoCall EXCEPT !.op = "launch", !.sandbox = s, !.port = p]],
             tools' = tools, instances' = instances, sandboxMap' = sandboxMap
      PROVE  ToolsInv'
  <2> DEFINE q == [NoCall EXCEPT !.op = "launch", !.sandbox = s, !.port = p]
  <2>1. CallShape(q) /\ q.op = "launch" /\ q.sandbox = s /\ q.port = p /\ q.rest = {}
    BY <1>2 DEF CallShape
  <2>2. call' = [call EXCEPT ![c] = q]
    BY <1>3
  <2> HIDE DEF q
  <2>3. CallFor(q, tools)
    BY <1>3, <2>1 DEF CallFor
  <2> QED
    BY <1>2, <1>3, <2>1, <2>2, <2>3, CallStep
<1>4. ASSUME NEW s \in Sandboxes, StartAnyPort(c, s) PROVE ToolsInv'
  <2>1. PICK p : p = IF FreeAbove # {} THEN First(FreeAbove) ELSE First(FreeBelow)
    OBVIOUS
  <2>2. /\ call[c] = NoCall /\ usedPorts' = usedPorts \cup {p}
        /\ call' = [call EXCEPT ![c] = [NoCall EXCEPT !.op = "launch", !.sandbox = s, !.port = p]]
        /\ tools' = tools /\ instances' = instances /\ sandboxMap' = sandboxMap
    BY <1>4, <2>1 DEF StartAnyPort
  <2> QED
    BY <1>3, <2>2
<1>5. ASSUME NEW s \in Sandboxes, NEW p \in Ports, StartOnPort(c, s, p) PROVE ToolsInv'
  BY <1>3, <1>5 DEF StartOnPort
<1>6. CASE LaunchFails(c)
  <2>1. /\ call[c].op = "launch" /\ usedPorts' = usedPorts \ {call[c].port} /\ call' = [call EXCEPT ![c] = NoCall]
        /\ tools' = tools /\ instances' = instances /\ sandboxMap' = sandboxMap
    BY <1>6 DEF LaunchFails
  <2> QED
    BY <1>2, <2>1, CallStep
<1>7. ASSUME NEW q, call[c].op \notin {"launch", "register"}, call' = [call EXCEPT ![c] = q], CallShape(q),
             q.op \in {"none", "kill", "stopNext"}, q.op = "kill" => q.id \in instances, q.rest \subseteq call[c].rest,
             tools' = tools, instances' = instances, sandboxMap' = sandboxMap, usedPorts' = usedPorts
      PROVE  ToolsInv'
  <2>1. ASSUME NEW i \in instances PROVE i \in DOMAIN tools /\ tools[i].monitor # "none"
    BY DEF ToolsInv, ToolsHold, ToolFor, Launched
  <2>2. CallFor(q, tools)
    BY <1>1, <1>7, <2>1 DEF CallFor
  <2> QED
    BY <1>7, <2>2, CallStep
<1>8. ASSUME NEW id, NEW rest PROVE LET q == StopCall(id, rest) IN CallShape(q) /\ q.op = "kill" /\ q.id = id /\ q.rest = rest
  BY <1>2 DEF StopCall, CallShape
<1>9. ASSUME NEW id, Stop(c, id) PROVE ToolsInv'
  <2> DEFINE q == StopCall(id, {})
  <2>1. /\ call[c] = NoCall /\ id \in instances /\ call' = [call EXCEPT ![c] = q]
        /\ tools' = tools /\ instances' = instances /\ sandboxMap' = sandboxMap /\ usedPorts' = usedPorts
    BY <1>9 DEF Stop
  <2>2. CallShape(q) /\ q.op = "kill" /\ q.id = id /\ q.rest = {}
    BY <1>8
  <2> HIDE DEF q
  <2> QED
    BY <1>2, <1>7, <2>1, <2>2
<1>10. ASSUME NEW s \in Sandboxes, StopAll(c, s) PROVE ToolsInv'
  <2> DEFINE q == [NoCall EXCEPT !.op = "stopNext", !.rest = sandboxMap[s]]
  <2>1. /\ call[c] = NoCall /\ call' = [call EXCEPT ![c] = q]
        /\ tools' = tools /\ instances' = instances /\ sandboxMap' = sandboxMap /\ usedPorts' = usedPorts
    BY <1>10 DEF StopAll
  <2>2. CallShape(q) /\ q.op = "stopNext" /\ q.rest = sandboxMap[s]
    BY <1>2 DEF CallShape
  <2> HIDE DEF q
  <2>3. \A i \in q.rest : i \in DOMAIN tools /\ tools[i].monitor # "none"
    BY <1>10, <2>2 DEF ToolsInv, ToolsHold, Launched
  <2>4. CallFor(q, tools)
    BY <2>2, <2>3 DEF CallFor
  <2> QED
    BY <1>2, <2>1, <2>2, <2>4, CallStep
<1>11. CASE StopNext(c)
  <2>1. call[c].op = "stopNext" /\ tools' = tools /\ instances' = instances /\ sandboxMap' = sandboxMap /\ usedPorts' = usedPorts
    BY <1>11 DEF StopNext
  <2>2. CASE call' = [call EXCEPT ![c] = NoCall]
    BY <1>2, <1>7, <2>1, <2>2
  <2>3. ASSUME NEW id \in call[c].rest, id \in instances, call' = [call EXCEPT ![c] = StopCall(id, call[c].rest \ {id})] PROVE ToolsInv'
    <3> DEFINE q == StopCall(id, call[c].rest \ {id})
    <3>1. CallShape(q) /\ q.op = "kill" /\ q.id = id /\ q.rest = call[c].rest \ {id}
      BY <1>8
    <3>2. call' = [call EXCEPT ![c] = q]
      BY <2>3
    <3> HIDE DEF q
    <3> QED
      BY <1>7, <2>1, <2>3, <3>1, <3>2
  <2>4. ASSUME NEW id \in call[c].rest, call' = [call EXCEPT ![c] = [call[c] EXCEPT !.rest = call[c].rest \ {id}]] PROVE ToolsInv'
    <3> DEFINE q == [call[c] EXCEPT !.rest = call[c].rest \ {id}]
    <3>1. CallShape(q) /\ q.op = "stopNext" /\ q.rest = call[c].rest \ {id}
      BY <1>1, <2>1 DEF CallShape
    <3>2. call' = [call EXCEPT ![c] = q]
      BY <2>4
    <3> HIDE DEF q
    <3> QED
      BY <1>7, <2>1, <3>1, <3>2
  <2>5. \/ call' = [call EXCEPT ![c] = NoCall]
        \/ \E id \in call[c].rest : \/ id \in instances /\ call' = [call EXCEPT ![c] = StopCall(id, call[c].rest \ {id})]
                                    \/ call' = [call EXCEPT ![c] = [call[c] EXCEPT !.rest = call[c].rest \ {id}]]
    BY <1>11 DEF StopNext
  <2> QED
    BY <2>2, <2>3, <2>4, <2>5
<1> QED
  BY <1>4, <1>5, <1>6, <1>9, <1>10, <1>11 DEF ToolCall

\* The process of an instance is started.
LEMMA LaunchStep ==
    ASSUME ToolsInv, NEW c \in ToolClients, Launch(c)
    PROVE  ToolsInv'
<1> DEFINE n == Len(tools) + 1
           o == call[c]
           q == [o EXCEPT !.op = "register", !.id = n]
<1>a. PICK yes : yes = TRUE
  OBVIOUS
<1>b. PICK no : no = FALSE
  OBVIOUS
<1> DEFINE x == [sandbox |-> o.sandbox, port |-> o.port, status |-> "pending", alive |-> yes, listening |-> no, monitor |-> "none"]
<1>1. /\ IsSequence(tools) /\ Len(tools) \in Nat /\ DOMAIN tools = 1..Len(tools)
      /\ CallFor(o, tools) /\ CallShape(o) /\ call = [d \in ToolClients |-> call[d]]
  BY SequenceFacts DEF ToolsInv, ToolsHold, CallsHold, CallFor
<1>2. /\ o.op = "launch" /\ Len(tools) < MaxTools /\ tools' = Append(tools, x)
      /\ instances' = instances /\ sandboxMap' = sandboxMap /\ usedPorts' = usedPorts
  BY <1>a, <1>b DEF Launch
<1>3. call' = [call EXCEPT ![c] = q]
  BY <1>1 DEF Launch
<1>4. /\ CallShape(q) /\ q.op = "register" /\ q.id = n /\ q.port = o.port /\ q.sandbox = o.sandbox /\ q.rest = o.rest
      /\ o.sandbox \in Sandboxes
  BY <1>1, <1>2 DEF CallFor, CallShape
<1>5. ToolShape(x) /\ x.port = o.port /\ x.sandbox = o.sandbox /\ x.monitor = "none"
  BY <1>4 DEF ToolShape
<1> HIDE DEF x, q, o
<1>6. /\ IsSequence(tools') /\ Len(tools') = n /\ DOMAIN tools' = DOMAIN tools \cup {n}
      /\ tools'[n] = x /\ \A i \in DOMAIN tools : tools'[i] = tools[i]
  BY <1>1, <1>2, SequenceFacts
<1>7. n \notin DOMAIN tools /\ n <= MaxTools
  BY <1>1, <1>2, DevToolAssumption
<1> HIDE DEF n
<1>8. \A d \in ToolClients : CallFor(call[d], tools')
  BY <1>6 DEF ToolsInv, CallsHold, CallFor
<1>9. CallFor(q, tools')
  <2>1. \A i \in q.rest : i \in DOMAIN tools' /\ tools'[i].monitor # "none"
    BY <1>1, <1>4, <1>6 DEF CallFor
  <2> QED
    BY <1>4, <1>5, <1>6, <2>1 DEF CallFor
<1>10. \A d \in ToolClients : call[d].op = "register" => call[d].id # q.id
  BY <1>4, <1>7 DEF ToolsInv, CallsHold, CallFor
<1>11. CallsHold' /\ call'[c] = q /\ \A d \in ToolClients : d # c => call'[d] = call[d]
  BY <1>3, <1>8, <1>9, <1>10, CallChanges DEF ToolsInv
<1>12. ToolsHold'
  <2>1. ASSUME NEW i \in DOMAIN tools' PROVE ToolShape(tools'[i]) /\ ToolFor(tools'[i], i, instances, sandboxMap)
    <3>1. CASE i = n
      <4>1. n \notin instances /\ n \notin sandboxMap[x.sandbox]
        BY <1>4, <1>5, <1>7 DEF ToolsInv, ToolsHold, Launched
      <4> QED
        BY <1>5, <1>6, <3>1, <4>1 DEF ToolFor
    <3>2. CASE i \in DOMAIN tools
      BY <1>6, <3>2 DEF ToolsInv, ToolsHold, Launched
    <3> QED
      BY <1>6, <2>1, <3>1, <3>2
  <2> QED
    BY <1>2, <1>6, <1>7, <2>1 DEF ToolsInv, ToolsHold, Launched
<1>13. PortsHold'
  <2> SUFFICES ASSUME NEW p \in usedPorts
               PROVE  \/ \E d \in ToolClients : call'[d].op \in {"launch", "register"} /\ call'[d].port = p
                      \/ \E i \in instances : tools'[i].port = p
    BY <1>2 DEF PortsHold
  <2>1. CASE \E d \in ToolClients : call[d].op \in {"launch", "register"} /\ call[d].port = p
    <3>1. PICK d \in ToolClients : call[d].op \in {"launch", "register"} /\ call[d].port = p
      BY <2>1
    <3>2. CASE d = c
      BY <1>4, <1>11, <3>1, <3>2 DEF o
    <3>3. CASE d # c
      BY <1>11, <3>1, <3>3
    <3> QED
      BY <3>2, <3>3
  <2>2. CASE \E i \in instances : tools[i].port = p
    BY <1>6, <2>2 DEF ToolsInv, ToolsHold, Launched
  <2> QED
    BY <2>1, <2>2 DEF ToolsInv, PortsHold
<1> QED
  BY <1>11, <1>12, <1>13 DEF ToolsInv

\* The process of an instance is ended by a stop.
LEMMA KillStep ==
    ASSUME ToolsInv, NEW c \in ToolClients, LauncherStop(c)
    PROVE  ToolsInv'
<1> DEFINE o == call[c]
           id == o.id
           x == tools[id]
           q == [o EXCEPT !.op = "remove"]
           st == IF x.monitor \in {"release", "done"} /\ ~ x.alive THEN x.status ELSE "stopped"
<1>b. PICK no : no = FALSE
  OBVIOUS
<1> DEFINE y == [x EXCEPT !.alive = no, !.listening = no, !.status = st]
<1>1. /\ CallFor(o, tools) /\ CallShape(o) /\ call = [d \in ToolClients |-> call[d]] /\ o.op = "kill"
  BY DEF ToolsInv, CallsHold, CallFor, LauncherStop
<1>2. id \in Launched /\ id \in DOMAIN tools /\ x.monitor # "none"
  BY <1>1 DEF CallFor, Launched
<1>3. ToolShape(x) /\ ToolFor(x, id, instances, sandboxMap) /\ tools = [k \in DOMAIN tools |-> tools[k]]
  BY <1>2, SequenceFacts DEF ToolsInv, ToolsHold
<1>4. tools' = [tools EXCEPT ![id] = y]
  BY <1>2, <1>3, <1>b DEF LauncherStop, ToolShape
<1>5. /\ call' = [call EXCEPT ![c] = q] /\ instances' = instances /\ sandboxMap' = sandboxMap /\ usedPorts' = usedPorts
  BY <1>1 DEF LauncherStop
<1>6. CallShape(q) /\ q.op = "remove" /\ q.id = id /\ q.rest = o.rest
  BY <1>1 DEF CallShape
<1>7. /\ y.alive = no /\ y.sandbox = x.sandbox /\ y.port = x.port /\ y.monitor = x.monitor /\ y.status = st
      /\ st \in {"stopped", x.status}
  BY <1>3 DEF ToolShape
<1>8. ToolShape(y)
  BY <1>3 DEF ToolShape
<1> HIDE DEF y, st, q
<1>9. ToolFor(y, id, instances, sandboxMap)
  BY <1>3, <1>7, <1>b DEF ToolFor
<1>10. y.alive => x.alive
  BY <1>7, <1>b
<1>11. /\ DOMAIN tools' = DOMAIN tools /\ tools'[id] = y
       /\ \A k \in DOMAIN tools : tools'[k].port = tools[k].port /\ (tools'[k].monitor = "none" <=> tools[k].monitor = "none")
       /\ \A d : CallFor(d, tools) => CallFor(d, tools')
       /\ ToolsHold'
  <2>1. y.monitor = "none" <=> x.monitor = "none"
    BY <1>7
  <2> HIDE DEF id, o
  <2> QED
    BY <1>2, <1>4, <1>5, <1>7, <1>8, <1>9, <1>10, <2>1, ToolChanges DEF ToolsInv
<1> HIDE DEF x
<1>12. CallFor(q, tools')
  <2>1. \A i \in q.rest : i \in DOMAIN tools' /\ tools'[i].monitor # "none"
    BY <1>1, <1>6, <1>11 DEF CallFor
  <2>2. tools'[id].monitor # "none" /\ ~ tools'[id].alive
    BY <1>2, <1>7, <1>11, <1>b DEF x
  <2> HIDE DEF id, o
  <2> QED
    BY <1>2, <1>6, <1>11, <2>1, <2>2 DEF CallFor
<1>13. CallsHold' /\ call'[c] = q /\ \A d \in ToolClients : d # c => call'[d] = call[d]
  <2>1. \A d \in ToolClients : CallFor(call[d], tools')
    BY <1>11 DEF ToolsInv, CallsHold
  <2> HIDE DEF id, o
  <2> QED
    BY <1>5, <1>6, <1>12, <2>1, CallChanges DEF ToolsInv
<1>14. PortsHold'
  <2> SUFFICES ASSUME NEW p \in usedPorts
               PROVE  \/ \E d \in ToolClients : call'[d].op \in {"launch", "register"} /\ call'[d].port = p
                      \/ \E i \in instances : tools'[i].port = p
    BY <1>5 DEF PortsHold
  <2>1. CASE \E d \in ToolClients : call[d].op \in {"launch", "register"} /\ call[d].port = p
    BY <1>1, <1>13, <2>1
  <2>2. CASE \E i \in instances : tools[i].port = p
    BY <1>11, <2>2 DEF ToolsInv, ToolsHold, Launched
  <2> QED
    BY <2>1, <2>2 DEF ToolsInv, PortsHold
<1> QED
  BY <1>11, <1>13, <1>14 DEF ToolsInv

\* Instance id becomes y, and enters or leaves the maps.
LEMMA MapsChange ==
    ASSUME ToolsHold, NEW id \in Launched, NEW y, NEW m, tools' = [tools EXCEPT ![id] = y], ToolShape(y),
           y.sandbox = tools[id].sandbox, y.port = tools[id].port, y.monitor # "none",
           sandboxMap' = [sandboxMap EXCEPT ![y.sandbox] = m],
           \A i : i # id => (i \in m <=> i \in sandboxMap[y.sandbox]),
           \A i : i # id => (i \in instances' <=> i \in instances),
           id \in instances' <=> id \in m,
           id \notin instances' => ~ y.alive /\ y.status \in {"stopped", "failed"}
    PROVE  /\ ToolsHold' /\ DOMAIN tools' = DOMAIN tools /\ tools'[id] = y
           /\ \A k \in DOMAIN tools : k # id => tools'[k] = tools[k]
<1>1. IsSequence(tools) /\ DOMAIN tools = Launched /\ id \in DOMAIN tools /\ tools = [k \in DOMAIN tools |-> tools[k]]
  BY SequenceFacts DEF ToolsHold, Launched
<1>2. DOMAIN tools' = DOMAIN tools /\ tools'[id] = y /\ \A k \in DOMAIN tools : k # id => tools'[k] = tools[k]
  BY <1>1
<1>3. IsSequence(tools') /\ Len(tools') = Len(tools)
  <2>1. FunctionOn(tools', DOMAIN tools)
    BY <1>1 DEF FunctionOn
  <2> QED
    BY <1>1, <2>1, SequenceReplaces
<1>4. /\ y.sandbox \in Sandboxes /\ sandboxMap' = [s \in Sandboxes |-> sandboxMap'[s]] /\ sandboxMap'[y.sandbox] = m
      /\ \A s \in Sandboxes : s # y.sandbox => sandboxMap'[s] = sandboxMap[s]
  BY DEF ToolShape, ToolsHold
<1>5. instances' \subseteq DOMAIN tools
  BY <1>1 DEF ToolsHold
<1>6. ASSUME NEW k \in DOMAIN tools PROVE ToolShape(tools'[k]) /\ ToolFor(tools'[k], k, instances', sandboxMap')
  <2>1. CASE k = id
    BY <1>2, <1>4, <2>1 DEF ToolFor
  <2>2. CASE k # id
    <3>1. ToolShape(tools[k]) /\ ToolFor(tools[k], k, instances, sandboxMap) /\ tools'[k] = tools[k]
      BY <1>1, <1>2, <2>2 DEF ToolsHold
    <3>2. tools[k].sandbox \in Sandboxes
      BY <3>1 DEF ToolShape
    <3>3. k \in sandboxMap'[tools[k].sandbox] <=> k \in sandboxMap[tools[k].sandbox]
      BY <1>4, <2>2, <3>2
    <3> QED
      BY <2>2, <3>1, <3>3 DEF ToolFor
  <2> QED
    BY <2>1, <2>2
<1>7. ASSUME NEW s \in Sandboxes, NEW i \in sandboxMap'[s] PROVE i \in DOMAIN tools /\ tools'[i].monitor # "none"
  <2>1. CASE i = id
    BY <1>1, <1>2, <2>1
  <2>2. CASE i # id
    <3>1. i \in sandboxMap[s]
      BY <1>4, <1>7, <2>2
    <3> QED
      BY <1>1, <1>2, <2>2, <3>1 DEF ToolsHold
  <2> QED
    BY <2>1, <2>2
<1>8. ToolsHold'
  BY <1>2, <1>3, <1>4, <1>5, <1>6, <1>7 DEF ToolsHold, Launched
<1> QED
  BY <1>2, <1>8

\* An instance is registered.
LEMMA RegisterStep ==
    ASSUME ToolsInv, NEW c \in ToolClients, Register(c)
    PROVE  ToolsInv'
<1> DEFINE o == call[c]
           id == o.id
           x == tools[id]
           y == [x EXCEPT !.monitor = "probe"]
           m == sandboxMap[o.sandbox] \cup {id}
<1>1. CallFor(o, tools) /\ o.op = "register" /\ call = [d \in ToolClients |-> call[d]]
  BY DEF ToolsInv, CallsHold, Register
<1>2. id \in Launched /\ id \in DOMAIN tools /\ x.monitor = "none" /\ x.port = o.port /\ x.sandbox = o.sandbox
  BY <1>1 DEF CallFor, Launched
<1>3. ToolShape(x) /\ ToolFor(x, id, instances, sandboxMap) /\ tools = [k \in DOMAIN tools |-> tools[k]]
  BY <1>2, SequenceFacts DEF ToolsInv, ToolsHold
<1>4. /\ tools' = [tools EXCEPT ![id] = y] /\ instances' = instances \cup {id}
      /\ sandboxMap' = [sandboxMap EXCEPT ![o.sandbox] = m] /\ call' = [call EXCEPT ![c] = NoCall] /\ usedPorts' = usedPorts
  BY <1>2, <1>3 DEF Register
<1>5. y.sandbox = x.sandbox /\ y.port = x.port /\ y.monitor = "probe" /\ y.alive = x.alive /\ ToolShape(y)
  BY <1>3 DEF ToolShape
<1> HIDE DEF y
<1>6. /\ ToolsHold' /\ DOMAIN tools' = DOMAIN tools /\ tools'[id] = y
      /\ \A k \in DOMAIN tools : k # id => tools'[k] = tools[k]
  <2>1. /\ y.sandbox = tools[id].sandbox /\ y.port = tools[id].port /\ y.monitor # "none"
        /\ sandboxMap' = [sandboxMap EXCEPT ![y.sandbox] = m]
    BY <1>2, <1>4, <1>5
  <2>2. /\ \A i : i # id => (i \in m <=> i \in sandboxMap[y.sandbox])
        /\ \A i : i # id => (i \in instances' <=> i \in instances)
        /\ id \in instances' /\ id \in m
    BY <1>2, <1>4, <1>5
  <2> HIDE DEF id, m, o, x
  <2> QED
    BY <1>2, <1>4, <1>5, <2>1, <2>2, MapsChange DEF ToolsInv
<1>7. \A d \in ToolClients : d # c => CallFor(call[d], tools')
  <2> SUFFICES ASSUME NEW d \in ToolClients, d # c PROVE CallFor(call[d], tools')
    OBVIOUS
  <2>1. CallFor(call[d], tools) /\ (call[d].op = "register" => call[d].id # id)
    BY <1>1 DEF ToolsInv, CallsHold
  <2> HIDE DEF id, o
  <2>2. \A k \in DOMAIN tools : tools[k].monitor # "none" => tools'[k].monitor # "none" /\ tools'[k].alive = tools[k].alive
    BY <1>5, <1>6
  <2> QED
    BY <1>6, <2>1, <2>2 DEF CallFor
<1>8. NoCall.op = "none" /\ NoCall.rest = {} /\ CallShape(NoCall)
  BY DEF NoCall, CallShape
<1>9. CallFor(NoCall, tools')
  BY <1>8 DEF CallFor
<1>10. CallsHold' /\ call'[c] = NoCall /\ \A d \in ToolClients : d # c => call'[d] = call[d]
  BY <1>4, <1>7, <1>8, <1>9, CallChanges DEF ToolsInv
<1>11. PortsHold'
  <2> SUFFICES ASSUME NEW p \in usedPorts
               PROVE  \/ \E d \in ToolClients : call'[d].op \in {"launch", "register"} /\ call'[d].port = p
                      \/ \E i \in instances' : tools'[i].port = p
    BY <1>4 DEF PortsHold
  <2>1. ASSUME NEW d \in ToolClients, call[d].op \in {"launch", "register"}, call[d].port = p
        PROVE  \/ \E e \in ToolClients : call'[e].op \in {"launch", "register"} /\ call'[e].port = p
               \/ \E i \in instances' : tools'[i].port = p
    <3>1. CASE d = c
      BY <1>2, <1>4, <1>5, <1>6, <2>1, <3>1
    <3>2. CASE d # c
      BY <1>10, <2>1, <3>2
    <3> QED
      BY <3>1, <3>2
  <2>2. ASSUME NEW i \in instances, tools[i].port = p PROVE \E k \in instances' : tools'[k].port = p
    <3>1. i \in DOMAIN tools
      BY DEF ToolsInv, ToolsHold, Launched
    <3>2. tools'[i].port = tools[i].port
      BY <1>2, <1>5, <1>6, <3>1
    <3> QED
      BY <1>4, <2>2, <3>2
  <2> QED
    BY <2>1, <2>2 DEF ToolsInv, PortsHold
<1> QED
  BY <1>6, <1>10, <1>11 DEF ToolsInv

\* A stopped instance is taken out of the maps.
LEMMA RemoveStep ==
    ASSUME ToolsInv, NEW c \in ToolClients, StopRemove(c)
    PROVE  ToolsInv'
<1> DEFINE o == call[c]
           id == o.id
           x == tools[id]
           y == [x EXCEPT !.status = "stopped"]
           m == sandboxMap[x.sandbox] \ {id}
           q == [NoCall EXCEPT !.op = "stopNext", !.rest = o.rest]
<1>1. CallFor(o, tools) /\ o.op = "remove" /\ call = [d \in ToolClients |-> call[d]]
  BY DEF ToolsInv, CallsHold, StopRemove
<1>2. id \in Launched /\ id \in DOMAIN tools /\ x.monitor # "none" /\ ~ x.alive
  BY <1>1 DEF CallFor, Launched
<1>3. ToolShape(x) /\ tools = [k \in DOMAIN tools |-> tools[k]]
  BY <1>2, SequenceFacts DEF ToolsInv, ToolsHold
<1>4. /\ tools' = [tools EXCEPT ![id] = y] /\ instances' = instances \ {id}
      /\ sandboxMap' = [sandboxMap EXCEPT ![x.sandbox] = m] /\ call' = [call EXCEPT ![c] = q]
      /\ usedPorts' = usedPorts \ {x.port}
  BY <1>2, <1>3 DEF StopRemove
<1>5. y.sandbox = x.sandbox /\ y.port = x.port /\ y.monitor = x.monitor /\ y.alive = x.alive /\ y.status = "stopped" /\ ToolShape(y)
  BY <1>3 DEF ToolShape
<1>6. CallShape(q) /\ q.op = "stopNext" /\ q.rest = o.rest
  BY DEF NoCall, CallShape
<1> HIDE DEF y, q
<1>7. /\ ToolsHold' /\ DOMAIN tools' = DOMAIN tools /\ tools'[id] = y
      /\ \A k \in DOMAIN tools : k # id => tools'[k] = tools[k]
  <2>1. /\ y.sandbox = tools[id].sandbox /\ y.port = tools[id].port /\ y.monitor # "none"
        /\ sandboxMap' = [sandboxMap EXCEPT ![y.sandbox] = m]
    BY <1>2, <1>4, <1>5
  <2>2. /\ \A i : i # id => (i \in m <=> i \in sandboxMap[y.sandbox])
        /\ \A i : i # id => (i \in instances' <=> i \in instances)
        /\ id \notin instances' /\ id \notin m
    BY <1>2, <1>4, <1>5
  <2>3. ~ y.alive /\ y.status \in {"stopped", "failed"}
    BY <1>2, <1>5
  <2> HIDE DEF id, m, o, x
  <2> QED
    BY <1>2, <1>4, <1>5, <2>1, <2>2, <2>3, MapsChange DEF ToolsInv
<1>8. ASSUME NEW d, CallFor(d, tools) PROVE CallFor(d, tools')
  <2> HIDE DEF id, o
  <2>1. \A k \in DOMAIN tools : /\ tools[k].monitor = tools'[k].monitor /\ tools'[k].alive = tools[k].alive
                                /\ tools'[k].port = tools[k].port /\ tools'[k].sandbox = tools[k].sandbox
    BY <1>5, <1>7
  <2> QED
    BY <1>7, <1>8, <2>1 DEF CallFor
<1>9. CallFor(q, tools')
  <2>1. CallFor(q, tools)
    BY <1>1, <1>6 DEF CallFor
  <2> QED
    BY <1>8, <2>1
<1>10. CallsHold' /\ call'[c] = q /\ \A d \in ToolClients : d # c => call'[d] = call[d]
  <2>1. \A d \in ToolClients : CallFor(call[d], tools')
    BY <1>8 DEF ToolsInv, CallsHold
  <2> HIDE DEF id, o, x, m
  <2> QED
    BY <1>4, <1>6, <1>9, <2>1, CallChanges DEF ToolsInv
<1>11. PortsHold'
  <2> SUFFICES ASSUME NEW p \in usedPorts, p # x.port
               PROVE  \/ \E d \in ToolClients : call'[d].op \in {"launch", "register"} /\ call'[d].port = p
                      \/ \E i \in instances' : tools'[i].port = p
    BY <1>4 DEF PortsHold
  <2>1. ASSUME NEW d \in ToolClients, call[d].op \in {"launch", "register"}, call[d].port = p
        PROVE  \E e \in ToolClients : call'[e].op \in {"launch", "register"} /\ call'[e].port = p
    BY <1>1, <1>10, <2>1
  <2>2. ASSUME NEW i \in instances, tools[i].port = p PROVE \E k \in instances' : tools'[k].port = p
    <3>1. i \in DOMAIN tools /\ i # id
      BY <2>2 DEF ToolsInv, ToolsHold, Launched
    <3>2. tools'[i].port = tools[i].port /\ i \in instances'
      BY <1>4, <1>7, <3>1
    <3> QED
      BY <2>2, <3>2
  <2> QED
    BY <2>1, <2>2 DEF ToolsInv, PortsHold
<1> QED
  BY <1>7, <1>10, <1>11 DEF ToolsInv

\* No tool was started yet.
LEMMA ToolsStart == DevToolInit => ToolsInv
<1> SUFFICES ASSUME DevToolInit PROVE ToolsInv
  OBVIOUS
<1>1. IsSequence(tools) /\ DOMAIN tools = {} /\ Len(tools) = 0
  BY DEF DevToolInit, IsSequence
<1>2. 0 <= MaxTools
  BY DevToolAssumption
<1>3. ToolsHold
  BY <1>1, <1>2 DEF DevToolInit, ToolsHold, Launched
<1>4. NoCall.op = "none" /\ NoCall.rest = {} /\ CallShape(NoCall)
  BY DEF NoCall, CallShape
<1>5. CallFor(NoCall, tools)
  BY <1>4 DEF CallFor
<1>6. CallsHold
  BY <1>4, <1>5 DEF DevToolInit, CallsHold
<1>7. PortsHold
  BY DEF DevToolInit, PortsHold
<1> QED
  BY <1>3, <1>6, <1>7 DEF ToolsInv

\* What ToolsSafe says of the states of the invariant.
LEMMA ToolsInvSafe == ToolsInv => ToolsSafe
BY DEF ToolsInv, ToolsHold, PortsHold, ToolFor, ToolsSafe, RemovedIsOver, NoPortLeak

\* Starts and stops of any number of callers, and the goroutines of any number of
\* instances, leave no port taken and no removed instance alive or shown as running.
THEOREM ToolsAlwaysSafe == DevToolSpec => []ToolsSafe
<1>1. ToolsInv /\ [DevToolNext]_toolVars => ToolsInv'
  <2> SUFFICES ASSUME ToolsInv, [DevToolNext]_toolVars PROVE ToolsInv'
    OBVIOUS
  <2>1. CASE UNCHANGED toolVars
    BY <2>1 DEF toolVars, ToolsInv, ToolsHold, CallsHold, PortsHold, Launched
  <2>2. ASSUME NEW c \in ToolClients, ToolCall(c) \/ ToolStep(c) PROVE ToolsInv'
    BY <2>2, LookupStep, LaunchStep, RegisterStep, KillStep, RemoveStep DEF ToolStep
  <2>3. ASSUME NEW i \in Launched, Monitor(i) \/ Listen(i) \/ ToolExits(i) PROVE ToolsInv'
    BY <2>3, MonitorStep
  <2> QED
    BY <2>1, <2>2, <2>3 DEF DevToolNext
<1> QED
  BY <1>1, ToolsStart, ToolsInvSafe, PTL DEF DevToolSpec

-----------------------------------------------------------------------------
(* Egress *)

\* A request knows its host, has a policy that was set, and leaves with the
\* credentials of the policy that let it through.
EgressRequestFor(x) ==
    /\ x \in [at : {x.at}, of : {x.of}, host : Seq(STRING), policy : EgressPolicies \cup {NoPolicy}, creds : {x.creds}]
    /\ x.at # "away" => x.of \in EgressBoxes
    /\ x.at \in {"proxied", "audits"} => x.creds = x.policy /\ Allows(x.policy, x.host)

\* A request is of its shape at every step.
EgressRequestsHold ==
    /\ request = [r \in EgressRequests |-> request[r]] /\ \A r \in EgressRequests : EgressRequestFor(request[r])
    /\ policies \in [EgressBoxes \cup {"default"} -> EgressPolicies \cup {NoPolicy}]

\* The requests that are counted and not yet decided.
OpenIn(rq) == {r \in EgressRequests : rq[r].at \in {"counted", "checks", "proxied"}}

\* The counters are numbers.
StatsTypes == stats \in [total : Nat, allowed : Nat, denied : Nat, aborted : Nat]

\* s has the last entries of t.
TailOf(s, t) == Len(s) <= Len(t) /\ \A i \in 1..Len(s) : s[i] = t[Len(t) - Len(s) + i]

\* The log kept is the end of all that was appended.
AuditInv ==
    /\ audit \in Seq(EgressRequests) /\ appended \in Seq(EgressRequests)
    /\ TailOf(audit, appended)
    /\ Len(audit) <= AuditSize
    /\ Len(audit) >= IF Len(appended) < AuditSize THEN Len(appended) ELSE AuditSize - (AuditSize \div 10)

\* The inductive invariant.
EgressInv == EgressRequestsHold /\ StatsTypes /\ StatsAddUp /\ AuditInv

\* IsSuffix, said of the entries.
LEMMA SuffixIsTail ==
    ASSUME NEW S, NEW s \in Seq(S), NEW t \in Seq(S)
    PROVE  IsSuffix(s, t) <=> TailOf(s, t)
<1> DEFINE rs == Reverse(s)
           rt == Reverse(t)
<1>1. /\ Len(s) \in Nat /\ Len(t) \in Nat /\ rs \in Seq(S) /\ rt \in Seq(S) /\ Len(rs) = Len(s) /\ Len(rt) = Len(t)
      /\ \A i \in 1..Len(s) : rs[i] = s[(Len(s) - i) + 1]
      /\ \A i \in 1..Len(t) : rt[i] = t[(Len(t) - i) + 1]
  BY DEF Reverse
<1> HIDE DEF rs, rt
<1>2. IsSuffix(s, t) <=> IsPrefix(rs, rt)
  BY DEF IsSuffix, rs, rt
<1>3. ASSUME Len(s) <= Len(t) PROVE SubSeq(rs, 1, Len(rs)) = SubSeq(rt, 1, Len(rs)) <=> \A i \in 1..Len(s) : rs[i] = rt[i]
  BY <1>1, <1>3
<1>4. ASSUME Len(s) <= Len(t) PROVE (\A i \in 1..Len(s) : rs[i] = rt[i]) <=> \A i \in 1..Len(s) : s[i] = t[Len(t) - Len(s) + i]
  <2>1. \A i \in 1..Len(s) : (Len(s) - i) + 1 \in 1..Len(s) /\ (Len(s) - ((Len(s) - i) + 1)) + 1 = i
    BY <1>1
  <2>2. \A i \in 1..Len(s) : rt[(Len(s) - i) + 1] = t[Len(t) - Len(s) + i]
    BY <1>1, <1>4
  <2>3. \A i \in 1..Len(s) : rs[(Len(s) - i) + 1] = s[i]
    BY <1>1, <2>1
  <2>4. \A i \in 1..Len(s) : rs[i] = s[(Len(s) - i) + 1] /\ rt[i] = t[Len(t) - Len(s) + ((Len(s) - i) + 1)]
    <3> SUFFICES ASSUME NEW i \in 1..Len(s) PROVE rs[i] = s[(Len(s) - i) + 1] /\ rt[i] = t[Len(t) - Len(s) + ((Len(s) - i) + 1)]
      OBVIOUS
    <3>1. i \in 1..Len(t) /\ Len(t) - Len(s) + ((Len(s) - i) + 1) = (Len(t) - i) + 1
      BY <1>1, <1>4
    <3> QED
      BY <1>1, <3>1
  <2> QED
    BY <2>1, <2>2, <2>3, <2>4
<1> QED
  BY <1>1, <1>2, <1>3, <1>4 DEF IsPrefix, TailOf

\* A pattern that does not stand for itself or for all stands for the hosts that end in it.
LEMMA SuffixWithin ==
    ASSUME NEW d \in Seq(STRING), NEW h \in Seq(STRING), Len(d) > 1
    PROVE  (Len(h) >= Len(d) /\ IsSuffix(Tail(d), h)) <=> \E i \in 2..Len(h) : SubSeq(h, i, Len(h)) = Tail(d)
<1> DEFINE s == Tail(d)
<1>1. s \in Seq(STRING) /\ Len(s) = Len(d) - 1 /\ Len(s) \in Nat /\ Len(h) \in Nat /\ Len(d) \in Nat
  OBVIOUS
<1>2. IsSuffix(s, h) <=> TailOf(s, h)
  BY <1>1, SuffixIsTail
<1> HIDE DEF s
<1>3. ASSUME Len(h) >= Len(d), TailOf(s, h) PROVE \E i \in 2..Len(h) : SubSeq(h, i, Len(h)) = s
  <2> DEFINE i == Len(h) - Len(s) + 1
             u == SubSeq(h, i, Len(h))
  <2>1. i \in 2..Len(h)
    BY <1>1, <1>3
  <2>2. u \in Seq(STRING) /\ Len(u) = Len(s) /\ \A j \in 1..Len(s) : u[j] = h[i + j - 1]
    BY <1>1, <2>1
  <2> HIDE DEF u
  <2>3. \A j \in 1..Len(s) : u[j] = s[j]
    BY <1>1, <1>3, <2>2 DEF TailOf
  <2>4. u = s
    BY <1>1, <2>2, <2>3
  <2> QED
    BY <2>1, <2>4 DEF u
<1>4. ASSUME NEW i \in 2..Len(h), SubSeq(h, i, Len(h)) = s PROVE Len(h) >= Len(d) /\ TailOf(s, h)
  <2> DEFINE u == SubSeq(h, i, Len(h))
  <2>1. Len(u) = Len(h) - i + 1 /\ \A j \in 1..Len(u) : u[j] = h[i + j - 1]
    BY <1>1
  <2> HIDE DEF u
  <2>2. u = s
    BY <1>4 DEF u
  <2>3. Len(s) = Len(h) - i + 1 /\ \A j \in 1..Len(s) : s[j] = h[i + j - 1]
    BY <2>1, <2>2
  <2>4. Len(s) <= Len(h) /\ Len(h) >= Len(d)
    BY <1>1, <2>3
  <2>5. ASSUME NEW j \in 1..Len(s) PROVE s[j] = h[Len(h) - Len(s) + j]
    <3>0. j \in Int /\ i \in Int
      OBVIOUS
    <3>1. Len(h) - Len(s) + j = i + j - 1
      <4>1. Len(s) = Len(h) - i + 1 /\ Len(h) \in Nat
        BY <1>1, <2>3
      <4> QED
        BY <3>0, <4>1
    <3> QED
      BY <2>3, <3>1
  <2> QED
    BY <2>4, <2>5 DEF TailOf
<1> QED
  BY <1>2, <1>3, <1>4 DEF s

\* What matchDomain says is what the pattern means.
LEMMA MatchWithin ==
    ASSUME NEW d \in Seq(STRING) \ {<<>>}, NEW h \in Seq(STRING)
    PROVE  matchDomain(d, h) <=> \/ d = h \/ d = <<"*">>
                                 \/ /\ Head(d) = "*" /\ Len(d) > 1
                                    /\ \E i \in 2..Len(h) : SubSeq(h, i, Len(h)) = Tail(d)
<1>1. Len(d) > 1 => ((Len(h) >= Len(d) /\ IsSuffix(Tail(d), h)) <=> \E i \in 2..Len(h) : SubSeq(h, i, Len(h)) = Tail(d))
  BY SuffixWithin
<1> QED
  BY <1>1, Zenon DEF matchDomain

\* The log keeps the latest entries when one more is appended.
LEMMA AuditGrows ==
    ASSUME AuditInv, NEW e \in EgressRequests, AppendAudit(e)
    PROVE  AuditInv'
<1> DEFINE ten == AuditSize \div 10
           drop == IF ten < 1 THEN 1 ELSE ten
           rest == IF Len(audit) >= AuditSize THEN SubSeq(audit, drop + 1, Len(audit)) ELSE audit
<1>1. ten \in Nat /\ ten < AuditSize /\ AuditSize \in Nat /\ AuditSize > 0
  BY EgressAssumption
<1>2. audit' = Append(rest, e) /\ appended' = Append(appended, e)
  BY DEF AppendAudit
<1>3. drop \in Nat /\ drop >= 1 /\ drop <= AuditSize /\ (drop = 1 \/ drop = ten)
  BY <1>1
<1>4. /\ audit \in Seq(EgressRequests) /\ appended \in Seq(EgressRequests) /\ Len(audit) \in Nat /\ Len(appended) \in Nat
      /\ TailOf(audit, appended) /\ Len(audit) <= AuditSize
      /\ Len(audit) >= IF Len(appended) < AuditSize THEN Len(appended) ELSE AuditSize - ten
  BY DEF AuditInv
<1> HIDE DEF ten, drop
<1>5. /\ rest \in Seq(EgressRequests) /\ Len(rest) < AuditSize /\ TailOf(rest, appended)
      /\ Len(rest) + 1 >= IF Len(appended) + 1 < AuditSize THEN Len(appended) + 1 ELSE AuditSize - ten
  <2>1. CASE Len(audit) >= AuditSize
    <3>0. rest = SubSeq(audit, drop + 1, Len(audit)) /\ Len(audit) <= Len(appended)
      BY <1>4, <2>1 DEF TailOf
    <3>1. Len(audit) = AuditSize /\ rest = SubSeq(audit, drop + 1, Len(audit)) /\ Len(audit) <= Len(appended)
      <4> HIDE DEF rest
      <4>1. Len(audit) = AuditSize
        BY <1>1, <1>4, <2>1
      <4> QED
        BY <3>0, <4>1
    <3>2. rest \in Seq(EgressRequests) /\ Len(rest) = AuditSize - drop /\ \A i \in 1..Len(rest) : rest[i] = audit[drop + i]
      BY <1>1, <1>3, <1>4, <3>1
    <3> HIDE DEF rest
    <3>3. ASSUME NEW i \in 1..Len(rest) PROVE rest[i] = appended[Len(appended) - Len(rest) + i]
      <4>0. Len(rest) = Len(audit) - drop /\ drop \in Nat /\ Len(audit) \in Nat /\ Len(appended) \in Nat
        BY <1>3, <1>4, <3>1, <3>2
      <4>1. drop + i \in 1..Len(audit) /\ Len(appended) - Len(audit) + (drop + i) = Len(appended) - Len(rest) + i
        BY <4>0
      <4>2. rest[i] = audit[drop + i]
        BY <3>2
      <4>3. audit[drop + i] = appended[Len(appended) - Len(audit) + (drop + i)]
        BY <1>4, <4>1 DEF TailOf
      <4> QED
        BY <4>1, <4>2, <4>3
    <3>4. Len(rest) < AuditSize /\ Len(rest) <= Len(appended)
      BY <1>1, <1>3, <1>4, <3>1, <3>2
    <3>5. Len(rest) + 1 >= IF Len(appended) + 1 < AuditSize THEN Len(appended) + 1 ELSE AuditSize - ten
      BY <1>1, <1>3, <1>4, <3>1, <3>2
    <3> QED
      BY <3>2, <3>3, <3>4, <3>5 DEF TailOf
  <2>2. CASE Len(audit) < AuditSize
    <3>1. rest = audit
      BY <1>1, <1>4, <2>2
    <3> HIDE DEF rest
    <3> QED
      BY <1>1, <1>4, <2>2, <3>1
  <2> QED
    BY <1>1, <1>4, <2>1, <2>2
<1> HIDE DEF rest
<1>6. /\ audit' \in Seq(EgressRequests) /\ appended' \in Seq(EgressRequests)
      /\ Len(rest) \in Nat /\ Len(audit') = Len(rest) + 1 /\ Len(appended') = Len(appended) + 1
      /\ audit'[Len(rest) + 1] = e /\ appended'[Len(appended) + 1] = e
      /\ \A i \in 1..Len(rest) : audit'[i] = rest[i]
      /\ \A i \in 1..Len(appended) : appended'[i] = appended[i]
  BY <1>2, <1>4, <1>5
<1>7. TailOf(audit', appended')
  <2>1. ASSUME NEW i \in 1..Len(audit') PROVE audit'[i] = appended'[Len(appended') - Len(audit') + i]
    <3>1. Len(appended') - Len(audit') = Len(appended) - Len(rest) /\ Len(rest) <= Len(appended)
      BY <1>4, <1>5, <1>6 DEF TailOf
    <3>2. CASE i = Len(rest) + 1
      BY <1>4, <1>6, <3>1, <3>2
    <3>3. CASE i \in 1..Len(rest)
      <4>1. Len(appended) - Len(rest) + i \in 1..Len(appended)
        BY <1>4, <1>6, <3>1, <3>3
      <4>2. rest[i] = appended[Len(appended) - Len(rest) + i]
        BY <1>5, <3>3 DEF TailOf
      <4> QED
        BY <1>6, <3>1, <3>3, <4>1, <4>2
    <3> QED
      BY <1>6, <3>2, <3>3
  <2>2. Len(audit') <= Len(appended')
    BY <1>4, <1>5, <1>6 DEF TailOf
  <2> QED
    BY <2>1, <2>2 DEF TailOf
<1>8. Len(audit') <= AuditSize /\ Len(audit') >= IF Len(appended') < AuditSize THEN Len(appended') ELSE AuditSize - ten
  BY <1>1, <1>5, <1>6
<1> QED
  BY <1>6, <1>7, <1>8 DEF AuditInv, ten

\* A request that is counted as one and as neither allowed nor denied.
StillOpen == {"counted", "checks", "proxied"}

\* A request becomes y: the number of open requests changes with it.
LEMMA OpenChanges ==
    ASSUME EgressRequestsHold, NEW r \in EgressRequests, NEW y, request' = [request EXCEPT ![r] = y]
    PROVE  LET o == Cardinality(OpenIn(request))
               p == Cardinality(OpenIn(request'))
           IN  /\ o \in Nat /\ p \in Nat
               /\ (request[r].at \in StillOpen <=> y.at \in StillOpen) => p = o
               /\ request[r].at \notin StillOpen /\ y.at \in StillOpen => p = o + 1
               /\ request[r].at \in StillOpen /\ y.at \notin StillOpen => p = o - 1
<1> DEFINE A == OpenIn(request)
           B == OpenIn(request')
<1>1. request'[r] = y /\ \A q \in EgressRequests : q # r => request'[q] = request[q]
  BY DEF EgressRequestsHold
<1>2. IsFiniteSet(A) /\ IsFiniteSet(B) /\ Cardinality(A) \in Nat /\ Cardinality(B) \in Nat
  BY EgressAssumption, FS_Subset, FS_CardinalityType DEF OpenIn
<1>3. (request[r].at \in StillOpen <=> y.at \in StillOpen) => B = A
  BY <1>1 DEF OpenIn, StillOpen
<1>4. request[r].at \notin StillOpen /\ y.at \in StillOpen => B = A \cup {r} /\ r \notin A
  BY <1>1 DEF OpenIn, StillOpen
<1>5. request[r].at \in StillOpen /\ y.at \notin StillOpen => B = A \ {r} /\ r \in A
  BY <1>1 DEF OpenIn, StillOpen
<1> HIDE DEF A, B
<1>6. Cardinality(A \cup {r}) = IF r \in A THEN Cardinality(A) ELSE Cardinality(A) + 1
  BY <1>2, FS_AddElement
<1>7. Cardinality(A \ {r}) = IF r \in A THEN Cardinality(A) - 1 ELSE Cardinality(A)
  BY <1>2, FS_RemoveElement
<1>8. /\ Cardinality(A) \in Nat /\ Cardinality(B) \in Nat
      /\ (request[r].at \in StillOpen <=> y.at \in StillOpen) => Cardinality(B) = Cardinality(A)
      /\ request[r].at \notin StillOpen /\ y.at \in StillOpen => Cardinality(B) = Cardinality(A) + 1
      /\ request[r].at \in StillOpen /\ y.at \notin StillOpen => Cardinality(B) = Cardinality(A) - 1
  BY <1>2, <1>3, <1>4, <1>5, <1>6, <1>7
<1> QED
  BY <1>8 DEF A, B

\* A request that goes from a to b changes the number that is not decided by as much
\* as the counters go from s to t.
CountMoves(s, t, a, b) ==
    LET d == t.total - (t.allowed + t.denied + t.aborted)
        e == s.total - (s.allowed + s.denied + s.aborted)
    IN  \/ d = e /\ (a \in StillOpen <=> b \in StillOpen)
        \/ d = e + 1 /\ a \notin StillOpen /\ b \in StillOpen
        \/ d = e - 1 /\ a \in StillOpen /\ b \notin StillOpen

\* A request becomes y, and what the statistics lose or gain is what it needs.
LEMMA EgressRequestChanges ==
    ASSUME EgressInv, NEW r \in EgressRequests, NEW y, request' = [request EXCEPT ![r] = y], EgressRequestFor(y),
           policies' = policies, AuditInv', StatsTypes',
           CountMoves(stats, stats', request[r].at, y.at)
    PROVE  EgressInv'
<1>1. EgressRequestsHold'
  BY DEF EgressInv, EgressRequestsHold
<1>2. StatsAddUp <=> stats.total = stats.allowed + stats.denied + stats.aborted + Cardinality(OpenIn(request))
  BY DEF StatsAddUp, OpenIn
<1>3. StatsAddUp' <=> stats'.total = stats'.allowed + stats'.denied + stats'.aborted + Cardinality(OpenIn(request'))
  BY DEF StatsAddUp, OpenIn
<1> DEFINE o == Cardinality(OpenIn(request))
           p == Cardinality(OpenIn(request'))
<1>4. /\ o \in Nat /\ p \in Nat
      /\ (request[r].at \in StillOpen <=> y.at \in StillOpen) => p = o
      /\ request[r].at \notin StillOpen /\ y.at \in StillOpen => p = o + 1
      /\ request[r].at \in StillOpen /\ y.at \notin StillOpen => p = o - 1
  BY OpenChanges DEF EgressInv
<1> HIDE DEF o, p
<1>5. stats.total = stats.allowed + stats.denied + stats.aborted + o
  BY <1>2 DEF EgressInv, o
<1>6. /\ stats.total \in Nat /\ stats.allowed \in Nat /\ stats.denied \in Nat /\ stats.aborted \in Nat
      /\ stats'.total \in Nat /\ stats'.allowed \in Nat /\ stats'.denied \in Nat /\ stats'.aborted \in Nat
  BY DEF EgressInv, StatsTypes
<1>7. stats'.total = stats'.allowed + stats'.denied + stats'.aborted + p
  BY <1>4, <1>5, <1>6 DEF CountMoves
<1>8. StatsAddUp'
  BY <1>3, <1>7 DEF p
<1> QED
  BY <1>1, <1>8 DEF EgressInv

\* What Counts does to the statistics.
LEMMA CountsOne ==
    ASSUME StatsTypes
    PROVE  /\ Counts("total") => StatsTypes' /\ stats'.total = stats.total + 1 /\ stats'.allowed = stats.allowed /\ stats'.denied = stats.denied /\ stats'.aborted = stats.aborted
           /\ Counts("allowed") => StatsTypes' /\ stats'.total = stats.total /\ stats'.allowed = stats.allowed + 1 /\ stats'.denied = stats.denied /\ stats'.aborted = stats.aborted
           /\ Counts("denied") => StatsTypes' /\ stats'.total = stats.total /\ stats'.allowed = stats.allowed /\ stats'.denied = stats.denied + 1 /\ stats'.aborted = stats.aborted
           /\ Counts("aborted") => StatsTypes' /\ stats'.total = stats.total /\ stats'.allowed = stats.allowed /\ stats'.denied = stats.denied /\ stats'.aborted = stats.aborted + 1
<1>1. ASSUME Counts("total") PROVE StatsTypes' /\ stats'.total = stats.total + 1 /\ stats'.allowed = stats.allowed /\ stats'.denied = stats.denied /\ stats'.aborted = stats.aborted
  BY <1>1 DEF Counts, StatsTypes
<1>2. ASSUME Counts("allowed") PROVE StatsTypes' /\ stats'.total = stats.total /\ stats'.allowed = stats.allowed + 1 /\ stats'.denied = stats.denied /\ stats'.aborted = stats.aborted
  BY <1>2 DEF Counts, StatsTypes
<1>3. ASSUME Counts("denied") PROVE StatsTypes' /\ stats'.total = stats.total /\ stats'.allowed = stats.allowed /\ stats'.denied = stats.denied + 1 /\ stats'.aborted = stats.aborted
  BY <1>3 DEF Counts, StatsTypes
<1>4. ASSUME Counts("aborted") PROVE StatsTypes' /\ stats'.total = stats.total /\ stats'.allowed = stats.allowed /\ stats'.denied = stats.denied /\ stats'.aborted = stats.aborted + 1
  BY <1>4 DEF Counts, StatsTypes
<1> QED
  BY <1>1, <1>2, <1>3, <1>4

\* Every step of a request.
LEMMA RequestStep ==
    ASSUME EgressInv, NEW r \in EgressRequests,
           Handle(r) \/ \E b \in EgressBoxes, h \in EgressHosts : Arrive(r, b, h)
    PROVE  EgressInv'
<1> DEFINE x == request[r]
<1>a. /\ EgressRequestFor(x) /\ StatsTypes /\ AuditInv
      /\ stats.total \in Nat /\ stats.allowed \in Nat /\ stats.denied \in Nat /\ stats.aborted \in Nat
      /\ policies \in [EgressBoxes \cup {"default"} -> EgressPolicies \cup {NoPolicy}]
  BY DEF EgressInv, EgressRequestsHold, StatsTypes
<1>b. ASSUME audit' = audit, appended' = appended PROVE AuditInv'
  BY <1>a, <1>b DEF AuditInv
<1>c. ASSUME stats' = stats PROVE StatsTypes'
  BY <1>a, <1>c DEF StatsTypes
<1>1. ASSUME NEW b \in EgressBoxes, NEW h \in EgressHosts, Arrive(r, b, h) PROVE EgressInv'
  <2> DEFINE y == [NoRequestYet EXCEPT !.at = "counted", !.of = b, !.host = h]
  <2>1. /\ x.at = "away" /\ request' = [request EXCEPT ![r] = y] /\ Counts("total") /\ policies' = policies
        /\ audit' = audit /\ appended' = appended
    BY <1>1 DEF Arrive
  <2>2. y.at = "counted" /\ y.of = b /\ y.host = h /\ y.policy = NoPolicy
    BY DEF NoRequestYet
  <2>3. y \in [at : {y.at}, of : {y.of}, host : {h}, policy : {NoPolicy}, creds : {y.creds}]
    BY DEF NoRequestYet
  <2> HIDE DEF y
  <2>4. EgressRequestFor(y)
    BY <2>2, <2>3, EgressAssumption DEF EgressRequestFor
  <2>5. StatsTypes' /\ CountMoves(stats, stats', x.at, y.at)
    BY <1>a, <2>1, <2>2, CountsOne DEF CountMoves, StillOpen
  <2> QED
    BY <1>b, <2>1, <2>4, <2>5, EgressRequestChanges
<1>2. CASE ReadPolicy(r)
  <2> DEFINE p == GetPolicy(x.of)
             y == [x EXCEPT !.at = "checks", !.policy = p]
  <2>1. /\ x.at = "counted" /\ request' = [request EXCEPT ![r] = y] /\ policies' = policies /\ stats' = stats
        /\ audit' = audit /\ appended' = appended
    BY <1>2 DEF ReadPolicy
  <2>2. p \in EgressPolicies \cup {NoPolicy}
    BY <1>a, <2>1 DEF GetPolicy, EgressRequestFor
  <2> HIDE DEF p
  <2>3. EgressRequestFor(y) /\ y.at = "checks"
    BY <1>a, <2>1, <2>2 DEF EgressRequestFor
  <2> HIDE DEF y
  <2>4. CountMoves(stats, stats', x.at, y.at)
    BY <1>a, <2>1, <2>3 DEF CountMoves, StillOpen
  <2> QED
    BY <1>b, <1>c, <2>1, <2>3, <2>4, EgressRequestChanges
<1>3. ASSUME NEW at \in {"denied", "done", "audits"}, request' = [request EXCEPT ![r].at = at],
             policies' = policies, AuditInv', StatsTypes', x.at # "away", at = "audits" => x.at = "proxied",
             stats'.total = stats.total,
             \/ /\ x.at \in StillOpen
                /\ stats'.allowed + stats'.denied + stats'.aborted = stats.allowed + stats.denied + stats.aborted + 1
             \/ /\ x.at \notin StillOpen
                /\ stats'.allowed + stats'.denied + stats'.aborted = stats.allowed + stats.denied + stats.aborted
      PROVE  EgressInv'
  <2> DEFINE y == [x EXCEPT !.at = at]
  <2>1. request' = [request EXCEPT ![r] = y]
    BY <1>3
  <2>a. y.at = at /\ y.policy = x.policy /\ y.creds = x.creds /\ y.host = x.host /\ y.of = x.of
    BY <1>a DEF EgressRequestFor
  <2>b. y \in [at : {y.at}, of : {y.of}, host : Seq(STRING), policy : EgressPolicies \cup {NoPolicy}, creds : {y.creds}]
    BY <1>a DEF EgressRequestFor
  <2> HIDE DEF y
  <2>c. x.at # "away"
    BY <1>3
  <2>2. EgressRequestFor(y) /\ y.at = at
    BY <1>a, <1>3, <2>a, <2>b, <2>c DEF EgressRequestFor
  <2>3. y.at \notin StillOpen
    BY <2>2 DEF StillOpen
  <2>4. /\ stats'.total \in Nat /\ stats'.allowed \in Nat /\ stats'.denied \in Nat /\ stats'.aborted \in Nat
    BY <1>3 DEF StatsTypes
  <2>5. CountMoves(stats, stats', x.at, y.at)
    BY <1>a, <1>3, <2>3, <2>4 DEF CountMoves
  <2> QED
    BY <1>3, <2>1, <2>2, <2>5, EgressRequestChanges
<1>4. CASE denyRequest(r)
  <2>1. /\ x.at = "checks" /\ request' = [request EXCEPT ![r].at = "denied"] /\ Counts("denied") /\ AppendAudit(r) /\ policies' = policies
    BY <1>4 DEF denyRequest
  <2>2. AuditInv'
    BY <1>a, <2>1, AuditGrows
  <2> QED
    BY <1>a, <1>3, <2>1, <2>2, CountsOne DEF StillOpen
<1>5. CASE injectCredentials(r)
  <2> DEFINE p == x.policy
             y == [x EXCEPT !.at = "proxied", !.creds = p]
  <2>1. /\ x.at = "checks" /\ request' = [request EXCEPT ![r] = y] /\ policies' = policies /\ stats' = stats
        /\ audit' = audit /\ appended' = appended /\ Allows(p, x.host)
    BY <1>5 DEF injectCredentials
  <2>2. y.at = "proxied" /\ y.policy = p /\ y.creds = p /\ y.host = x.host /\ y.of = x.of
    BY <1>a DEF EgressRequestFor
  <2>3. y \in [at : {y.at}, of : {y.of}, host : Seq(STRING), policy : EgressPolicies \cup {NoPolicy}, creds : {y.creds}]
    BY <1>a DEF EgressRequestFor
  <2> HIDE DEF y
  <2>4. EgressRequestFor(y)
    BY <1>a, <2>1, <2>2, <2>3 DEF EgressRequestFor
  <2>5. CountMoves(stats, stats', x.at, y.at)
    BY <1>a, <2>1, <2>2 DEF CountMoves, StillOpen
  <2> QED
    BY <1>b, <1>c, <2>1, <2>4, <2>5, EgressRequestChanges
<1>6. CASE ProxyAborts(r)
  BY <1>a, <1>b, <1>3, <1>6, CountsOne DEF ProxyAborts, StillOpen
<1>7. CASE ProxyReturns(r)
  BY <1>a, <1>b, <1>3, <1>7, CountsOne DEF ProxyReturns, StillOpen
<1>8. CASE AuditAllowed(r)
  <2>1. /\ x.at = "audits" /\ request' = [request EXCEPT ![r].at = "done"] /\ stats' = stats /\ policies' = policies
        /\ AppendAudit(r) \/ (audit' = audit /\ appended' = appended)
    BY <1>8 DEF AuditAllowed
  <2>2. AuditInv'
    BY <1>a, <1>b, <2>1, AuditGrows
  <2> QED
    BY <1>a, <1>c, <1>3, <2>1, <2>2 DEF StillOpen
<1> QED
  BY <1>1, <1>2, <1>4, <1>5, <1>6, <1>7, <1>8 DEF Handle

\* A request is judged, counted and logged by one policy.
THEOREM EgressAlwaysSafe == EgressSpec => []EgressSafe
<1>1. EgressInit => EgressInv
  <2> SUFFICES ASSUME EgressInit PROVE EgressInv
    OBVIOUS
  <2>1. EgressRequestsHold
    <3>1. EgressRequestFor(NoRequestYet)
      BY DEF NoRequestYet, EgressRequestFor
    <3> QED
      BY <3>1 DEF EgressInit, EgressRequestsHold
  <2>2. StatsTypes /\ stats.total = 0 /\ stats.allowed = 0 /\ stats.denied = 0 /\ stats.aborted = 0
    BY DEF EgressInit, StatsTypes
  <2>3. {r \in EgressRequests : request[r].at \in {"counted", "checks", "proxied"}} = {}
    BY DEF EgressInit, NoRequestYet
  <2>4. StatsAddUp
    BY <2>2, <2>3, FS_EmptySet DEF StatsAddUp
  <2>5. AuditInv
    BY EgressAssumption DEF EgressInit, AuditInv, TailOf
  <2> QED
    BY <2>1, <2>2, <2>4, <2>5 DEF EgressInv
<1>2. EgressInv /\ [EgressNext]_egressVars => EgressInv'
  <2> SUFFICES ASSUME EgressInv, [EgressNext]_egressVars PROVE EgressInv'
    OBVIOUS
  <2>1. CASE UNCHANGED egressVars \/ GetStats
    <3>1. policies' = policies /\ request' = request /\ stats' = stats /\ audit' = audit /\ appended' = appended
      BY <2>1 DEF egressVars, GetStats
    <3> QED
      BY <3>1 DEF EgressInv, EgressRequestsHold, StatsTypes, StatsAddUp, AuditInv
  <2>2. CASE ServeHTTP
    <3>1. request' = request /\ stats' = stats /\ audit' = audit /\ appended' = appended
      BY <2>2 DEF ServeHTTP, SetPolicy, RemovePolicy
    <3>2. policies' \in [EgressBoxes \cup {"default"} -> EgressPolicies \cup {NoPolicy}]
      BY <2>2 DEF ServeHTTP, SetPolicy, RemovePolicy, EgressInv, EgressRequestsHold
    <3> QED
      BY <3>1, <3>2 DEF EgressInv, EgressRequestsHold, StatsTypes, StatsAddUp, AuditInv
  <2>3. ASSUME NEW r \in EgressRequests, Handle(r) \/ \E b \in EgressBoxes, h \in EgressHosts : Arrive(r, b, h) PROVE EgressInv'
    BY <2>3, RequestStep
  <2> QED
    BY <2>1, <2>2, <2>3 DEF EgressNext
<1>3. EgressInv => EgressSafe
  <2> SUFFICES ASSUME EgressInv PROVE EgressSafe
    OBVIOUS
  <2>1. AuditKeepsLatest
    BY SuffixIsTail DEF EgressInv, AuditInv, AuditKeepsLatest
  <2>2. OnePolicy
    <3> SUFFICES ASSUME NEW r \in EgressRequests, request[r].at \in {"proxied", "audits"}, request[r].creds # NoPolicy
                 PROVE  LET p == request[r].creds
                            h == request[r].host
                            Within(d) == \/ d = h \/ d = <<"*">>
                                         \/ /\ Head(d) = "*" /\ Len(d) > 1
                                            /\ \E i \in 2..Len(h) : SubSeq(h, i, Len(h)) = Tail(d)
                        IN  /\ \A d \in p.denied : ~ Within(d)
                            /\ p.allowed # {} => \E d \in p.allowed : Within(d)
                            /\ p.blockPrivate => h \notin PrivateHosts
      BY Zenon DEF OnePolicy
    <3> DEFINE p == request[r].creds
               h == request[r].host
    <3>1. EgressRequestFor(request[r])
      BY DEF EgressInv, EgressRequestsHold
    <3>2. p = request[r].policy /\ p \in EgressPolicies /\ h \in Seq(STRING) /\ Allows(p, h)
      BY <3>1 DEF EgressRequestFor
    <3> HIDE DEF p, h
    <3>3. \A d \in p.denied \cup p.allowed : d \in Seq(STRING) \ {<<>>}
      BY <3>2, EgressAssumption
    <3>4. /\ \A d \in p.denied : ~ matchDomain(d, h)
          /\ p.allowed # {} => \E d \in p.allowed : matchDomain(d, h)
          /\ p.blockPrivate => h \notin PrivateHosts
      <4>1. p # NoPolicy
        BY DEF p
      <4> QED
        BY <3>2, <4>1, Zenon DEF Allows, isDomainAllowed
    <3>5. \A d \in p.denied \cup p.allowed : matchDomain(d, h) <=>
             \/ d = h \/ d = <<"*">>
             \/ /\ Head(d) = "*" /\ Len(d) > 1
                /\ \E i \in 2..Len(h) : SubSeq(h, i, Len(h)) = Tail(d)
      BY <3>2, <3>3, MatchWithin, Zenon
    <3> QED
      BY <3>4, <3>5, Zenon DEF p, h
  <2> QED
    BY <2>1, <2>2 DEF EgressSafe, EgressInv
<1> QED
  BY <1>1, <1>2, <1>3, PTL DEF EgressSpec

-----------------------------------------------------------------------------
(* The environment of a sandbox *)

\* An environment variable is the request it came from, or one of a template.
EnvVars == ApiRequests \cup Nat

\* A Go slice: a backing array and a length.
Slices == [arr : Nat, len : Nat]

\* What a slice holds, in the arrays A.
EnvIn(A, s) == IF s.arr = 0 THEN <<>> ELSE SubSeq(A[s.arr], 1, s.len)

\* Among the arrays A: a slice that lies in the array it names, is full, and holds
\* what is wanted.
SliceHolds(A, s, want) ==
    /\ s \in Slices /\ s.arr <= Len(A)
    /\ s.arr = 0 <=> s.len = 0
    /\ want \in Seq(EnvVars) /\ Len(want) = s.len /\ EnvIn(A, s) = want

\* A request of the API on its way.
ApiRecords ==
    [at : {"new", "applied", "built", "native", "answered"}, name : SandboxNames \cup {0},
     env : Slices, want : Seq(EnvVars)]

\* A template names an array that is there, with a variable in it.
TemplatesHold ==
    /\ templates \in [TemplateNames -> Nat]
    /\ \A t \in TemplateNames : templates[t] # 0 => templates[t] <= Len(arrays) /\ Len(arrays[templates[t]]) >= 1

\* A request holds the environment that it asked for.
ApiRequestsHold ==
    /\ apiRequests \in [ApiRequests -> ApiRecords]
    /\ \A r \in ApiRequests : SliceHolds(arrays, apiRequests[r].env, apiRequests[r].want)

\* So does a sandbox that the API created.
SandboxesHold == \A s \in apiSandboxes : SliceHolds(arrays, s.env, s.want)

\* The inductive invariant: it says of every slice, not only of a sandbox's,
\* what is in its array.
ApiInv == arrays \in Seq(Seq(EnvVars)) /\ TemplatesHold /\ ApiRequestsHold /\ SandboxesHold

\* The slice without an array.
LEMMA NoEnvHolds ==
    ASSUME NEW A \in Seq(Seq(EnvVars)) PROVE SliceHolds(A, NoEnv, <<>>)
  BY DEF SliceHolds, NoEnv, Slices, EnvIn

\* A new array leaves the slices as they are.
LEMMA SliceKept ==
    ASSUME NEW A \in Seq(Seq(EnvVars)), NEW a \in Seq(EnvVars), NEW B \in {Append(A, a)}
    PROVE  /\ B \in Seq(Seq(EnvVars)) /\ Len(B) = Len(A) + 1 /\ B[Len(A) + 1] = a
           /\ \A i \in 1 .. Len(A) : B[i] = A[i]
           /\ \A s, w : SliceHolds(A, s, w) => SliceHolds(B, s, w)
<1>a. B = Append(A, a)
  OBVIOUS
<1>1. B \in Seq(Seq(EnvVars)) /\ Len(B) = Len(A) + 1 /\ B[Len(A) + 1] = a /\ \A i \in 1 .. Len(A) : B[i] = A[i]
  BY <1>a, AppendProperties
<1>2. ASSUME NEW s, NEW w, SliceHolds(A, s, w) PROVE SliceHolds(B, s, w)
  <2>1. s \in Slices /\ s.arr <= Len(A) /\ Len(A) \in Nat
    BY <1>2 DEF SliceHolds
  <2>2. s.arr \in Nat
    BY <2>1 DEF Slices
  <2>3. s.arr # 0 => B[s.arr] = A[s.arr]
    BY <1>1, <2>1, <2>2
  <2>4. EnvIn(B, s) = EnvIn(A, s)
    BY <2>3 DEF EnvIn
  <2> QED
    BY <1>1, <1>2, <2>1, <2>2, <2>4 DEF SliceHolds
<1> QED
  BY <1>1, <1>2

\* The slice of a whole array that has just been made.
LEMMA WholeSlice ==
    ASSUME NEW A \in Seq(Seq(EnvVars)), NEW a \in Seq(EnvVars), a # <<>>,
           NEW s \in Slices, s.arr = Len(A) + 1, s.len = Len(a)
    PROVE  SliceHolds(Append(A, a), s, a)
<1> DEFINE B == Append(A, a)
<1>1. Len(A) \in Nat /\ Len(a) \in Nat \ {0}
  BY EmptySeq
<1>2. B \in Seq(Seq(EnvVars)) /\ Len(B) = Len(A) + 1 /\ B[Len(A) + 1] = a
  BY AppendProperties
<1>3. SubSeq(a, 1, Len(a)) = a
  BY SubSeqFull
<1> HIDE DEF B
<1>4. EnvIn(B, s) = a
  BY <1>1, <1>2, <1>3 DEF EnvIn
<1>5. SliceHolds(B, s, a)
  BY <1>1, <1>2, <1>4 DEF SliceHolds
<1> QED
  BY <1>5 DEF B

\* The array of a template gives a slice with one variable.
LEMMA TemplateSlice ==
    ASSUME ApiInv, NEW t \in TemplateNames
    PROVE  SliceHolds(arrays, e2bApplyTemplate(t), EnvIn(arrays, e2bApplyTemplate(t)))
<1>1. CASE templates[t] = 0
  BY <1>1, NoEnvHolds DEF ApiInv, e2bApplyTemplate, EnvIn, NoEnv
<1>2. CASE templates[t] # 0
  <2> DEFINE i == templates[t]
             s == [arr |-> i, len |-> 1]
  <2>1. i \in Nat \ {0} /\ i <= Len(arrays) /\ Len(arrays) \in Nat /\ arrays[i] \in Seq(EnvVars) /\ Len(arrays[i]) >= 1
    BY <1>2 DEF ApiInv, TemplatesHold
  <2>2. arrays[i][1] \in EnvVars
    BY <2>1
  <2> HIDE DEF i
  <2>3. SubSeq(arrays[i], 1, 1) \in Seq(EnvVars) /\ Len(SubSeq(arrays[i], 1, 1)) = 1
    BY <2>1, <2>2, SubSeqProperties
  <2>4. s \in Slices /\ s.arr = i /\ s.len = 1
    BY <2>1 DEF Slices
  <2>5. e2bApplyTemplate(t) = s
    BY <1>2 DEF e2bApplyTemplate, i
  <2> HIDE DEF s
  <2>6. SliceHolds(arrays, s, EnvIn(arrays, s))
    BY <2>1, <2>3, <2>4 DEF SliceHolds, EnvIn
  <2> QED
    BY <2>5, <2>6
<1> QED
  BY <1>1, <1>2

\* A new array leaves the templates, the requests and the sandboxes as they are.
LEMMA ArrayMade ==
    ASSUME ApiInv, NEW a \in Seq(EnvVars), arrays' = Append(arrays, a)
    PROVE  /\ arrays' \in Seq(Seq(EnvVars))
           /\ templates' = templates => TemplatesHold'
           /\ \A r \in ApiRequests : SliceHolds(arrays', apiRequests[r].env, apiRequests[r].want)
           /\ apiRequests' = apiRequests => ApiRequestsHold'
           /\ apiSandboxes' = apiSandboxes => SandboxesHold'
<1>a. arrays \in Seq(Seq(EnvVars))
  BY DEF ApiInv
<1>1. /\ arrays' \in Seq(Seq(EnvVars)) /\ Len(arrays') = Len(arrays) + 1
      /\ \A i \in 1 .. Len(arrays) : arrays'[i] = arrays[i]
      /\ \A s, w : SliceHolds(arrays, s, w) => SliceHolds(arrays', s, w)
  <2>1. arrays' \in {Append(arrays, a)}
    OBVIOUS
  <2> QED
    BY <1>a, <2>1, SliceKept
<1>2. Len(arrays) \in Nat
  BY DEF ApiInv
<1>3. templates' = templates => TemplatesHold'
  BY <1>1, <1>2 DEF ApiInv, TemplatesHold
<1> QED
  BY <1>1, <1>3 DEF ApiInv, ApiRequestsHold, SandboxesHold

\* CreateTemplate and UpdateTemplate.
LEMMA TemplateMade ==
    ASSUME ApiInv, NEW t \in TemplateNames, CreateTemplate(t) \/ UpdateTemplate(t)
    PROVE  ApiInv'
<1> DEFINE n == Len(arrays) + 1
           a == <<n>>
<1>1. /\ arrays' = Append(arrays, a) /\ templates' = [templates EXCEPT ![t] = n]
      /\ apiRequests' = apiRequests /\ apiSandboxes' = apiSandboxes
  BY DEF CreateTemplate, UpdateTemplate, Decoded
<1>2. n \in Nat /\ a \in Seq(EnvVars) /\ Len(a) = 1
  BY DEF ApiInv, EnvVars
<1> HIDE DEF a
<1>b. arrays \in Seq(Seq(EnvVars))
  BY DEF ApiInv
<1>3. Len(arrays') = n /\ arrays'[n] = a /\ \A i \in 1 .. Len(arrays) : arrays'[i] = arrays[i]
  <2>1. arrays' \in {Append(arrays, a)}
    BY <1>1
  <2> QED
    BY <1>2, <1>b, <2>1, SliceKept
<1> HIDE DEF n
<1>c. Len(arrays) \in Nat /\ n = Len(arrays) + 1
  BY <1>b DEF n
<1>4. TemplatesHold'
  <2>1. templates' \in [TemplateNames -> Nat]
    BY <1>1, <1>2 DEF ApiInv, TemplatesHold
  <2>2. ASSUME NEW u \in TemplateNames, templates'[u] # 0
        PROVE  templates'[u] <= Len(arrays') /\ Len(arrays'[templates'[u]]) >= 1
    <3>1. CASE u = t
      <4>1. templates'[u] = n
        BY <1>1, <3>1 DEF ApiInv, TemplatesHold
      <4>2. Len(arrays'[n]) = 1
        BY <1>2, <1>3
      <4>3. n <= Len(arrays')
        BY <1>2, <1>3
      <4> QED
        BY <4>1, <4>2, <4>3
    <3>2. CASE u # t
      <4>1. templates'[u] = templates[u] /\ templates[u] \in Nat
        BY <1>1, <3>2 DEF ApiInv, TemplatesHold
      <4>2. templates[u] <= Len(arrays) /\ Len(arrays[templates[u]]) >= 1
        BY <2>2, <4>1 DEF ApiInv, TemplatesHold
      <4> QED
        BY <1>3, <1>c, <2>2, <4>1, <4>2
    <3> QED
      BY <3>1, <3>2
  <2> QED
    BY <2>1, <2>2 DEF TemplatesHold
<1> QED
  BY <1>1, <1>2, <1>4, ArrayMade DEF ApiInv

\* A request that has its slice.
LEMMA RequestMade ==
    ASSUME ApiInv, NEW r \in ApiRequests, NEW x \in ApiRecords,
           apiRequests' = [apiRequests EXCEPT ![r] = x], SliceHolds(arrays', x.env, x.want),
           \A q \in ApiRequests : SliceHolds(arrays', apiRequests[q].env, apiRequests[q].want)
    PROVE  ApiRequestsHold'
<1>1. apiRequests' \in [ApiRequests -> ApiRecords]
  BY DEF ApiInv, ApiRequestsHold
<1>2. apiRequests'[r] = x /\ \A q \in ApiRequests : q # r => apiRequests'[q] = apiRequests[q]
  BY DEF ApiInv, ApiRequestsHold
<1>3. \A q \in ApiRequests : SliceHolds(arrays', apiRequests'[q].env, apiRequests'[q].want)
  <2> TAKE q \in ApiRequests
  <2>1. CASE q = r
    BY <1>2, <2>1
  <2>2. CASE q # r
    BY <1>2, <2>2
  <2> QED
    BY <2>1, <2>2
<1> QED
  BY <1>1, <1>3 DEF ApiRequestsHold

\* The request is answered, and the sandbox has what the request had.
LEMMA AnswerInv ==
    ASSUME ApiInv, NEW r \in ApiRequests, NEW ns, Created(r, ns) \/ CreateRefused(r)
    PROVE  ApiInv'
<1>1. arrays' = arrays /\ templates' = templates /\ apiRequests' = [apiRequests EXCEPT ![r] = ApiAnswered]
  BY DEF Created, CreateRefused
<1>2. ApiAnswered \in ApiRecords /\ ApiAnswered.env = NoEnv /\ ApiAnswered.want = <<>>
  <2>1. NoEnv \in Slices
    BY DEF NoEnv, Slices
  <2>2. <<>> \in Seq(EnvVars)
    OBVIOUS
  <2>3. NewRequest \in ApiRecords /\ NewRequest.env = NoEnv /\ NewRequest.want = <<>>
    BY <2>1, <2>2 DEF NewRequest, ApiRecords
  <2> QED
    BY <2>3 DEF ApiAnswered, ApiRecords
<1>a. SliceHolds(arrays', ApiAnswered.env, ApiAnswered.want)
  BY <1>1, <1>2, NoEnvHolds DEF ApiInv
<1>b. \A q \in ApiRequests : SliceHolds(arrays', apiRequests[q].env, apiRequests[q].want)
  BY <1>1 DEF ApiInv, ApiRequestsHold
<1>3. ApiRequestsHold'
  BY <1>1, <1>2, <1>a, <1>b, RequestMade
<1>4. SandboxesHold'
  BY <1>1 DEF ApiInv, ApiRequestsHold, SandboxesHold, Created, CreateRefused
<1>5. TemplatesHold'
  BY <1>1 DEF ApiInv, TemplatesHold
<1> QED
  BY <1>1, <1>3, <1>4, <1>5 DEF ApiInv

\* append finds no room, and makes a larger copy.
LEMMA AppendInv ==
    ASSUME Spare = 0, ApiInv, NEW r \in ApiRequests, AppendEnv(r)
    PROVE  ApiInv'
<1> DEFINE s == apiRequests[r].env
           w == apiRequests[r].want
           a == Append(w, r)
           e == [arr |-> Len(arrays) + 1, len |-> s.len + 1]
           x == [apiRequests[r] EXCEPT !.at = "built", !.want = a, !.env = e]
<1>1. SliceHolds(arrays, s, w) /\ s \in Slices /\ s.len \in Nat /\ apiRequests[r] \in ApiRecords
  BY DEF ApiInv, ApiRequestsHold, SliceHolds, Slices
<1>2. EnvIn(arrays, s) = w /\ w \in Seq(EnvVars) /\ Len(w) = s.len /\ (s.arr = 0 <=> s.len = 0)
  BY <1>1 DEF SliceHolds
<1>3. Env(s) = w
  BY <1>2 DEF Env, EnvIn
<1>4. ~ (s.arr # 0 /\ s.len < 1 + Spare)
  BY <1>1, <1>2
<1>5. /\ arrays' = Append(arrays, Append(Env(s), r)) /\ templates' = templates /\ apiSandboxes' = apiSandboxes
      /\ apiRequests' = [apiRequests EXCEPT ![r].at = "built", ![r].want = Append(@, r), ![r].env = e]
  BY <1>4, Zenon DEF AppendEnv
<1>6. a \in Seq(EnvVars) /\ Len(a) = s.len + 1 /\ a # <<>>
  BY <1>2, AppendProperties DEF EnvVars
<1>7. Len(arrays) \in Nat /\ e \in Slices /\ e.arr = Len(arrays) + 1 /\ e.len = Len(a)
  BY <1>1, <1>6 DEF ApiInv, Slices
<1>8. apiRequests' = [apiRequests EXCEPT ![r] = x]
  BY <1>5 DEF ApiInv, ApiRequestsHold, ApiRecords
<1> HIDE DEF e, a
<1>9. x \in ApiRecords /\ x.env = e /\ x.want = a
  BY <1>1, <1>6, <1>7 DEF ApiRecords
<1>10. arrays' = Append(arrays, a)
  BY <1>3, <1>5 DEF a
<1>11. SliceHolds(arrays', e, a)
  BY <1>6, <1>7, <1>10, WholeSlice DEF ApiInv
<1> HIDE DEF x, s, w
<1> QED
  BY <1>5, <1>6, <1>8, <1>9, <1>10, <1>11, ArrayMade, RequestMade DEF ApiInv

\* Every request keeps what the slices of all the others hold.
LEMMA ApiStep == ASSUME Spare = 0, ApiInv, [ApiNext]_apiVars PROVE ApiInv'
<1>1. CASE UNCHANGED apiVars
  BY <1>1 DEF apiVars, ApiInv, TemplatesHold, ApiRequestsHold, SandboxesHold
<1>2. ASSUME NEW t \in TemplateNames, DeleteTemplate(t) PROVE ApiInv'
  BY <1>2 DEF DeleteTemplate, ApiInv, TemplatesHold, ApiRequestsHold, SandboxesHold
<1>3. ASSUME NEW r \in ApiRequests, createSandbox(r) PROVE ApiInv'
  <2>1. PICK n \in SandboxNames, e \in {NoEnv} \cup {e2bApplyTemplate(t) : t \in TemplateNames} :
           apiRequests' = [apiRequests EXCEPT ![r] = [at |-> "applied", name |-> n, env |-> e, want |-> Env(e)]]
    BY <1>3 DEF createSandbox
  <2>2. arrays' = arrays /\ templates' = templates /\ apiSandboxes' = apiSandboxes
    BY <1>3 DEF createSandbox
  <2> DEFINE w == EnvIn(arrays, e)
             x == [at |-> "applied", name |-> n, env |-> e, want |-> w]
  <2>3. Env(e) = w
    BY DEF Env, EnvIn
  <2>4. SliceHolds(arrays, e, w)
    <3>1. CASE e = NoEnv
      <4>1. w = <<>>
        BY <3>1 DEF EnvIn, NoEnv
      <4> QED
        BY <3>1, <4>1, NoEnvHolds DEF ApiInv
    <3>2. CASE e # NoEnv
      BY <3>2, TemplateSlice
    <3> QED
      BY <3>1, <3>2
  <2> HIDE DEF w
  <2>5. x \in ApiRecords /\ x.env = e /\ x.want = w
    BY <2>4 DEF SliceHolds, ApiRecords
  <2>6. apiRequests' = [apiRequests EXCEPT ![r] = x]
    BY <2>1, <2>3
  <2> HIDE DEF x
  <2>7. ApiRequestsHold'
    BY <2>2, <2>4, <2>5, <2>6, RequestMade DEF ApiInv, ApiRequestsHold
  <2> QED
    BY <2>2, <2>7 DEF ApiInv, TemplatesHold, SandboxesHold
<1>4. ASSUME NEW r \in ApiRequests, NoEnvVars(r) PROVE ApiInv'
  <2> DEFINE x == [apiRequests[r] EXCEPT !.at = "built"]
  <2>1. apiRequests' = [apiRequests EXCEPT ![r] = x]
    BY <1>4 DEF NoEnvVars, ApiInv, ApiRequestsHold, ApiRecords
  <2>2. x \in ApiRecords /\ x.env = apiRequests[r].env /\ x.want = apiRequests[r].want
    BY DEF ApiInv, ApiRequestsHold, ApiRecords
  <2>3. arrays' = arrays /\ templates' = templates /\ apiSandboxes' = apiSandboxes
    BY <1>4 DEF NoEnvVars
  <2> HIDE DEF x
  <2>4. ApiRequestsHold'
    BY <2>1, <2>2, <2>3, RequestMade DEF ApiInv, ApiRequestsHold
  <2> QED
    BY <2>3, <2>4 DEF ApiInv, TemplatesHold, SandboxesHold
<1>5. ASSUME NEW r \in ApiRequests, NativeDecoded(r) PROVE ApiInv'
  <2>1. PICK n \in SandboxNames : apiRequests' = [apiRequests EXCEPT ![r] =
               [at |-> "native", name |-> n, env |-> [arr |-> Len(arrays) + 1, len |-> 1], want |-> <<r>>]]
    BY <1>5 DEF NativeDecoded
  <2> DEFINE a == <<r>>
             e == [arr |-> Len(arrays) + 1, len |-> 1]
             x == [at |-> "native", name |-> n, env |-> e, want |-> a]
  <2>2. arrays' = Append(arrays, a) /\ templates' = templates /\ apiSandboxes' = apiSandboxes
    BY <1>5 DEF NativeDecoded
  <2>3. a \in Seq(EnvVars) /\ a # <<>> /\ Len(a) = 1
    BY DEF EnvVars
  <2>4. e \in Slices /\ e.arr = Len(arrays) + 1 /\ e.len = 1
    BY DEF ApiInv, Slices
  <2>5. apiRequests' = [apiRequests EXCEPT ![r] = x]
    BY <2>1
  <2> HIDE DEF a, e
  <2>6. x \in ApiRecords /\ x.env = e /\ x.want = a
    BY <2>3, <2>4 DEF ApiRecords
  <2> HIDE DEF x
  <2>7. SliceHolds(arrays', e, a)
    BY <2>2, <2>3, <2>4, WholeSlice DEF ApiInv
  <2> QED
    BY <2>2, <2>3, <2>5, <2>6, <2>7, ArrayMade, RequestMade DEF ApiInv
<1>6. ASSUME arrays' = arrays, templates' = templates, apiRequests' = apiRequests, apiSandboxes' \subseteq apiSandboxes
      PROVE  ApiInv'
  BY <1>6 DEF ApiInv, TemplatesHold, ApiRequestsHold, SandboxesHold
<1>7. ASSUME NEW n \in SandboxNames, killSandbox(n) PROVE ApiInv'
  BY <1>6, <1>7 DEF killSandbox
<1>8. ASSUME NEW n \in SandboxNames, NEW ns, NativeDelete(ns, n) PROVE ApiInv'
  BY <1>6, <1>8 DEF NativeDelete
<1>9. ASSUME NEW r \in ApiRequests, CreateSandbox(r) PROVE ApiInv'
  BY <1>9, AnswerInv, Zenon DEF CreateSandbox
<1>10. ASSUME NEW r \in ApiRequests, NativeCreate(r) PROVE ApiInv'
  BY <1>10, AnswerInv, Zenon DEF NativeCreate
<1> QED
  BY <1>1, <1>2, <1>3, <1>4, <1>5, <1>7, <1>8, <1>9, <1>10, AnswerInv, AppendInv, TemplateMade, Zenon DEF ApiNext

\* For any templates, requests and names, when the list of a template has no room
\* behind it: nothing reaches the variables that a sandbox has.
THEOREM EnvAlwaysKept ==
    ASSUME Spare = 0 PROVE ApiSpec => []EnvKept
<1>1. ApiInit => ApiInv
  <2> SUFFICES ASSUME ApiInit PROVE ApiInv
    OBVIOUS
  <2>1. NewRequest \in ApiRecords /\ NewRequest.env = NoEnv /\ NewRequest.want = <<>>
    BY DEF NewRequest, ApiRecords, NoEnv, Slices
  <2>2. arrays \in Seq(Seq(EnvVars))
    BY DEF ApiInit
  <2>3. ApiRequestsHold
    BY <2>1, <2>2, NoEnvHolds DEF ApiInit, ApiRequestsHold
  <2> QED
    BY <2>2, <2>3 DEF ApiInit, ApiInv, TemplatesHold, SandboxesHold
<1>2. ApiInv => EnvKept
  BY DEF ApiInv, SandboxesHold, EnvKept, SliceHolds, Env, EnvIn
<1>3. ApiInv /\ [ApiNext]_apiVars => ApiInv'
  BY ApiStep
<1> QED
  BY <1>1, <1>2, <1>3, PTL DEF ApiSpec

-----------------------------------------------------------------------------
(* Runtimes *)

\* The parts are inductive together: that a stopped runtime is not in the pool
\* rests on exclusiveness, and that a new handle is not yet known on the typing of
\* the handles by the number made.
PInv == PoolTypeOK /\ Exclusive /\ AvailableReady /\ CreatingCounted

\* What is offered, and who is served, when nothing of it changes.
LEMMA PoolUntouched ==
    ASSUME Exclusive, UNCHANGED <<handles, available, inUse>>
    PROVE  Exclusive'
BY DEF Exclusive, Serves

LEMMA HeldFinite ==
    Cardinality(Held) \in Nat
<1>1. Held \subseteq Keys
  BY DEF Held
<1>2. IsFiniteSet(Held)
  BY <1>1, KeysAssumption, FS_Subset
<1> QED BY <1>2, FS_CardinalityType

LEMMA PoolInitInv == PoolInit => PInv
<1> SUFFICES ASSUME PoolInit PROVE PInv
  OBVIOUS
<1>1. PoolTypeOK
  BY PoolSizeAssumption DEF PoolInit, PoolTypeOK, Handles
<1>2. Len(available) = 0
  BY DEF PoolInit
<1>3. Exclusive
  BY <1>2 DEF PoolInit, Exclusive, Serves
<1> QED BY <1>1, <1>2, <1>3 DEF PInv, AvailableReady, CreatingCounted, PoolInit

LEMMA CreateStep ==
    ASSUME PInv, NEW k \in Keys, CreateRuntime(k)
    PROVE  PInv'
<1> USE DEF PInv, Handles
<1>1. UNCHANGED <<workerVars, startVars, loop, stop>>
  BY DEF CreateRuntime
<1>2. CASE GetFromPool(k) /\ handles' = [handles EXCEPT ![k] = Head(available)] /\ UNCHANGED handleVars
  <2> DEFINE h == Head(available)
  <2>1. /\ available \in Seq(1..made) /\ available # <<>>
        /\ Len(available) \in Nat /\ Len(available) > 0
        /\ h = available[1] /\ h \in 1..made
    BY <1>2 DEF GetFromPool, PoolTypeOK
  <2>2. /\ available' \in Seq(1..made)
        /\ Len(available') = Len(available) - 1
        /\ \A i \in 1..Len(available') : available'[i] = available[i + 1] /\ i + 1 \in 1..Len(available)
    BY <1>2, <2>1 DEF GetFromPool
  <2>3. /\ handles' = [handles EXCEPT ![k] = h] /\ inUse' = [inUse EXCEPT ![k] = h]
        /\ UNCHANGED <<made, ready, creating, targetSize>>
    BY <1>2 DEF GetFromPool, handleVars
  <2> HIDE DEF h
  <2>4. PoolTypeOK'
    BY <1>1, <2>1, <2>2, <2>3 DEF PoolTypeOK, workerVars, startVars
  <2>5. \A i \in 1..Len(available') : available'[i] # h
    <3> SUFFICES ASSUME NEW i \in 1..Len(available'), available'[i] = h PROVE FALSE
      OBVIOUS
    <3>1. available[i + 1] = available[1] /\ i + 1 \in 1..Len(available) /\ 1 \in 1..Len(available)
      BY <2>1, <2>2
    <3>2. i + 1 = 1
      BY <3>1 DEF Exclusive
    <3> QED BY <3>2, <2>2
  <2>6. Serves(k)' = {h}
    BY <2>1, <2>3 DEF Serves, PoolTypeOK
  <2>7. \A l \in Keys : l # k => Serves(l)' = Serves(l)
    BY <2>3 DEF Serves, PoolTypeOK
  <2>8. \A l \in Keys : h \notin Serves(l)
    BY <2>1 DEF Exclusive
  <2>9. \A i, j \in 1..Len(available') : available'[i] = available'[j] => i = j
    <3> SUFFICES ASSUME NEW i \in 1..Len(available'), NEW j \in 1..Len(available'),
                        available'[i] = available'[j]
                 PROVE  i = j
      OBVIOUS
    <3>1. i + 1 = j + 1
      BY <2>2 DEF Exclusive
    <3> QED BY <3>1, <2>2
  <2>10. \A l \in Keys : \A i \in 1..Len(available') : available'[i] \notin Serves(l)'
    BY <2>2, <2>5, <2>6, <2>7 DEF Exclusive
  <2>11. \A l, m \in Keys : l # m => (Serves(l) \cap Serves(m) = {})'
    BY <2>6, <2>7, <2>8 DEF Exclusive
  <2>12. Exclusive'
    BY <2>9, <2>10, <2>11 DEF Exclusive
  <2>13. AvailableReady'
    BY <2>2, <2>3 DEF AvailableReady
  <2> QED BY <1>1, <2>3, <2>4, <2>12, <2>13 DEF CreatingCounted, workerVars
<1>3. CASE /\ available = <<>> /\ Make /\ ready' = ready \cup {made + 1}
           /\ handles' = [handles EXCEPT ![k] = made + 1] /\ UNCHANGED poolVars
  <2>1. made' = made + 1 /\ made \in Nat /\ UNCHANGED <<available, inUse, creating, targetSize>>
    BY <1>3 DEF Make, poolVars, PoolTypeOK
  <2>2. available' = <<>> /\ Len(available') = 0
    BY <1>3, <2>1
  <2>3. PoolTypeOK'
    BY <1>1, <1>3, <2>1, <2>2 DEF PoolTypeOK, workerVars, startVars
  <2>4. Serves(k)' \subseteq {made + 1, inUse[k]} \ {0}
    BY <1>3, <2>1 DEF Serves, PoolTypeOK
  <2>5. \A l \in Keys : l # k => Serves(l)' = Serves(l)
    BY <1>3, <2>1 DEF Serves, PoolTypeOK
  <2>6. \A l \in Keys : made + 1 \notin Serves(l)
    BY <2>1 DEF Serves, PoolTypeOK
  <2>7. \A l \in Keys : inUse[l] # 0 => inUse[l] \in Serves(l)
    BY DEF Serves
  <2>8. \A l \in Keys : l # k => Serves(k)' \cap Serves(l)' = {}
    BY <2>4, <2>5, <2>6, <2>7 DEF Exclusive
  <2>9. \A l, m \in Keys : l # m => (Serves(l) \cap Serves(m) = {})'
    BY <2>5, <2>8 DEF Exclusive
  <2>10. Exclusive'
    BY <2>2, <2>9 DEF Exclusive
  <2> QED BY <1>1, <2>1, <2>2, <2>3, <2>10 DEF AvailableReady, CreatingCounted, workerVars
<1> QED BY <1>2, <1>3 DEF CreateRuntime

LEMMA RuntimeStep ==
    ASSUME PInv, NEW k \in Keys, StartRuntime(k) \/ StopRuntime(k)
    PROVE  PInv'
<1> USE DEF PInv, Handles
<1>1. /\ UNCHANGED <<made, handles, available, inUse, creating, targetSize,
                     spawned, running, finishing, reads, seen, loop, stop>>
      /\ handles[k] # 0
      /\ ready' = ready \cup {handles[k]} \/ ready' = ready \ {handles[k]}
  BY DEF StartRuntime, StopRuntime, poolVars, workerVars, startVars
<1>2. handles[k] \in 1..made /\ handles[k] \in Serves(k)
  BY <1>1 DEF PoolTypeOK, Serves
<1>3. PoolTypeOK'
  BY <1>1, <1>2 DEF PoolTypeOK
<1>4. AvailableReady'
  BY <1>1, <1>2 DEF AvailableReady, Exclusive
<1> QED BY <1>1, <1>3, <1>4, PoolUntouched DEF CreatingCounted

LEMMA RuntimeRemoved ==
    ASSUME PInv, NEW k \in Keys, RemoveRuntime(k)
    PROVE  PInv'
<1> USE DEF PInv, Handles
<1>1. /\ UNCHANGED <<made, ready, available, inUse, creating, targetSize,
                     spawned, running, finishing, reads, seen, loop, stop>>
      /\ handles' = [handles EXCEPT ![k] = 0]
  BY DEF RemoveRuntime, poolVars, workerVars, startVars, handleVars
<1>2. PoolTypeOK'
  BY <1>1 DEF PoolTypeOK
<1>3. \A l \in Keys : Serves(l)' \subseteq Serves(l)
  BY <1>1 DEF Serves, PoolTypeOK
<1>4. Exclusive'
  BY <1>1, <1>3 DEF Exclusive
<1> QED BY <1>1, <1>2, <1>4 DEF CreatingCounted, AvailableReady

LEMMA ReturnStep ==
    ASSUME PInv, NEW k \in Keys, ReturnToPool(k)
    PROVE  PInv'
<1> USE DEF PInv, Handles
<1> DEFINE h == inUse[k]
<1>1. /\ UNCHANGED <<made, handles, creating, targetSize, spawned, running, finishing,
                     reads, seen, loop, stop>>
      /\ h # 0 /\ handles[k] # h
      /\ inUse' = [inUse EXCEPT ![k] = 0]
  BY DEF ReturnToPool, workerVars, startVars
<1>2. h \in 1..made /\ h \in Serves(k)
  BY <1>1 DEF PoolTypeOK, Serves
<1>3. \A l \in Keys : Serves(l)' \subseteq Serves(l) \ {h}
  <2>1. \A l \in Keys : l # k => Serves(l)' = Serves(l)
    BY <1>1 DEF Serves, PoolTypeOK
  <2>2. Serves(k)' \subseteq {handles[k]} \ {0}
    BY <1>1 DEF Serves, PoolTypeOK
  <2>3. \A l \in Keys : l # k => h \notin Serves(l)
    BY <1>2 DEF Exclusive
  <2> QED BY <1>1, <2>1, <2>2, <2>3 DEF Serves
<1>4. \A i \in 1..Len(available) : available[i] # h
  BY <1>2 DEF Exclusive
<1>5. CASE h \in ready /\ available' = Append(available, h) /\ UNCHANGED ready
  <2>1. /\ available' \in Seq(1..made)
        /\ Len(available') = Len(available) + 1 /\ Len(available) \in Nat
        /\ \A i \in 1..Len(available) : available'[i] = available[i]
        /\ available'[Len(available) + 1] = h
    BY <1>2, <1>5 DEF PoolTypeOK
  <2>2. PoolTypeOK'
    BY <1>1, <1>5, <2>1 DEF PoolTypeOK
  <2>3. \A i \in 1..Len(available') : i \in 1..Len(available) \/ i = Len(available) + 1
    BY <2>1
  <2>4. \A i, j \in 1..Len(available') : available'[i] = available'[j] => i = j
    BY <1>4, <2>1, <2>3 DEF Exclusive
  <2>5. \A l \in Keys : \A i \in 1..Len(available') : available'[i] \notin Serves(l)'
    BY <1>3, <2>1, <2>3 DEF Exclusive
  <2>6. \A l, m \in Keys : l # m => (Serves(l) \cap Serves(m) = {})'
    BY <1>3 DEF Exclusive
  <2>7. Exclusive'
    BY <2>4, <2>5, <2>6 DEF Exclusive
  <2>8. AvailableReady'
    BY <1>5, <2>1, <2>3 DEF AvailableReady
  <2> QED BY <1>1, <2>2, <2>7, <2>8 DEF CreatingCounted
<1>6. CASE UNCHANGED available /\ Cleanup({h})
  <2>1. PoolTypeOK'
    BY <1>1, <1>6 DEF PoolTypeOK, Cleanup
  <2>2. Exclusive'
    BY <1>3, <1>6 DEF Exclusive
  <2>3. AvailableReady'
    BY <1>4, <1>6 DEF AvailableReady, Cleanup
  <2> QED BY <1>1, <2>1, <2>2, <2>3 DEF CreatingCounted
<1> QED BY <1>5, <1>6 DEF ReturnToPool

LEMMA SpawnType ==
    ASSUME PoolTypeOK, NEW total \in Nat, Spawn(total)
    PROVE  spawned' \in Nat /\ UNCHANGED <<running, finishing>>
<1> DEFINE needed == IF total < targetSize THEN targetSize - total ELSE 0
<1>1. needed \in Nat
  BY DEF PoolTypeOK
<1> QED BY <1>1 DEF Spawn, PoolTypeOK

LEMMA QuietSteps ==
    ASSUME PInv,
           warmUpRead \/ warmUpPools \/ maintenanceRound \/ replenishPools \/ createStarts
           \/ createFails \/ createEnds \/ StopManager \/ \E n \in Sizes : ResizePool(n)
    PROVE  PInv'
<1> USE DEF PInv, Handles
<1>1. UNCHANGED <<made, ready, handles, available, inUse>>
  BY DEF warmUpRead, warmUpPools, maintenanceRound, replenishPools, createStarts, createFails,
         createEnds, StopManager, ResizePool, poolVars, handleVars
<1>2. Len(available) \in Nat /\ Cardinality(Held) \in Nat /\ creating \in Nat
  BY HeldFinite DEF PoolTypeOK
<1>3. PoolTypeOK' /\ CreatingCounted'
  <2>1. CASE warmUpRead
    <3>1. reads \in 0..2 /\ sizesRead[reads + 1] \in Nat
      BY <1>2, <2>1 DEF warmUpRead, sizesRead, PoolTypeOK
    <3> QED BY <1>1, <2>1, <3>1
            DEF warmUpRead, PoolTypeOK, CreatingCounted, poolVars, workerVars
  <2>2. CASE warmUpPools
    <3>1. spawned' \in Nat /\ UNCHANGED <<running, finishing>>
      BY <2>2, SpawnType DEF warmUpPools, PoolTypeOK
    <3> QED BY <1>1, <2>2, <3>1 DEF warmUpPools, PoolTypeOK, CreatingCounted, poolVars
  <2>3. CASE replenishPools
    <3>1. Total \in Nat
      BY <1>2 DEF Total
    <3>2. spawned' \in Nat /\ UNCHANGED <<running, finishing>>
      BY <2>3, <3>1, SpawnType DEF replenishPools
    <3> QED BY <1>1, <2>3, <3>2
            DEF replenishPools, PoolTypeOK, CreatingCounted, poolVars, startVars
  <2>4. CASE maintenanceRound \/ StopManager
    BY <1>1, <2>4 DEF maintenanceRound, StopManager, PoolTypeOK, CreatingCounted, poolVars, workerVars, startVars
  <2>5. CASE createStarts \/ createFails \/ createEnds
    <3>1. /\ creating' \in Nat /\ spawned' \in Nat /\ running' \in Nat /\ finishing' \in Nat
          /\ creating' = running' + finishing'
      <4>1. /\ creating \in Nat /\ spawned \in Nat /\ running \in Nat /\ finishing \in Nat
            /\ creating = running + finishing
        BY DEF PoolTypeOK, CreatingCounted
      <4>2. CASE createStarts
        BY <4>1, <4>2 DEF createStarts
      <4>3. CASE createFails
        BY <4>1, <4>3 DEF createFails, poolVars
      <4>4. CASE createEnds
        BY <4>1, <4>4 DEF createEnds
      <4> QED BY <2>5, <4>2, <4>3, <4>4
    <3>2. UNCHANGED <<targetSize, reads, seen, loop, stop>>
      BY <2>5 DEF createStarts, createFails, createEnds, poolVars, startVars
    <3> QED BY <1>1, <3>1, <3>2 DEF PoolTypeOK, CreatingCounted
  <2>6. CASE \E n \in Sizes : ResizePool(n)
    BY <1>1, <2>6, SizesAssumption DEF ResizePool, PoolTypeOK, CreatingCounted, workerVars, startVars
  <2> QED BY <2>1, <2>2, <2>3, <2>4, <2>5, <2>6
<1> QED BY <1>1, <1>3, PoolUntouched DEF AvailableReady

LEMMA EvictStep ==
    ASSUME PInv, evictIdleSandboxes
    PROVE  PInv'
<1> USE DEF PInv, Handles
<1> DEFINE keep == IF Len(available) > targetSize THEN targetSize ELSE Len(available)
           over == {available[i] : i \in (keep + 1)..Len(available)}
<1>1. /\ available' = SubSeq(available, 1, keep) /\ ready' = ready \ over /\ loop' = "idle"
      /\ UNCHANGED <<made, inUse, creating, targetSize, handles, spawned, running, finishing,
                     reads, seen, stop>>
  BY DEF evictIdleSandboxes, Cleanup, workerVars, startVars
<1>2. keep \in Nat /\ keep <= Len(available) /\ Len(available) \in Nat
  BY DEF PoolTypeOK
<1> HIDE DEF keep
<1>3. /\ available' \in Seq(1..made) /\ Len(available') = keep
      /\ \A i \in 1..keep : available'[i] = available[i] /\ i \in 1..Len(available)
  <2>1. \A i \in 1..keep : i \in 1..Len(available)
    BY <1>2
  <2>2. \A i \in 1..keep : available[i] \in 1..made
    BY <2>1 DEF PoolTypeOK
  <2>3. /\ SubSeq(available, 1, keep) \in Seq(1..made)
        /\ Len(SubSeq(available, 1, keep)) = keep
        /\ \A i \in 1..keep : SubSeq(available, 1, keep)[i] = available[i]
    BY <1>2, <2>2, SubSeqProperties
  <2> QED BY <1>1, <2>1, <2>3
<1>4. PoolTypeOK'
  BY <1>1, <1>3 DEF PoolTypeOK
<1>5. \A l \in Keys : Serves(l)' = Serves(l)
  BY <1>1 DEF Serves
<1>6. Exclusive'
  BY <1>3, <1>5 DEF Exclusive
<1>7. AvailableReady'
  <2> SUFFICES ASSUME NEW i \in 1..keep PROVE available[i] \in ready \ over
    BY <1>1, <1>3 DEF AvailableReady
  <2>1. \A j \in (keep + 1)..Len(available) : j \in 1..Len(available) /\ i # j
    BY <1>2
  <2>2. available[i] \notin over
    BY <1>3, <2>1 DEF Exclusive
  <2> QED BY <1>3, <2>2 DEF AvailableReady
<1> QED BY <1>1, <1>4, <1>6, <1>7 DEF CreatingCounted

LEMMA StoreStep ==
    ASSUME PInv, createStores
    PROVE  PInv'
<1> USE DEF PInv, Handles
<1>1. /\ UNCHANGED <<spawned, inUse, creating, targetSize, handles, reads, seen, loop, stop>>
      /\ made' = made + 1 /\ made \in Nat
      /\ running > 0 /\ running' = running - 1 /\ finishing' = finishing + 1
  BY DEF createStores, Make, startVars, PoolTypeOK
<1>2. \A l \in Keys : Serves(l)' = Serves(l) /\ made + 1 \notin Serves(l)
  BY <1>1 DEF Serves, PoolTypeOK
<1>3. /\ available \in Seq(1..made) /\ Len(available) \in Nat
      /\ \A i \in 1..Len(available) : available[i] \in 1..made
  BY DEF PoolTypeOK
<1>4. \A i \in 1..Len(available) : available[i] # made + 1
  BY <1>1, <1>3
<1>5. CASE available' = Append(available, made + 1) /\ ready' = ready \cup {made + 1}
  <2>0. available \in Seq(1..(made + 1))
    BY <1>1, <1>3
  <2>1. /\ available' \in Seq(1..(made + 1))
        /\ Len(available') = Len(available) + 1
        /\ \A i \in 1..Len(available) : available'[i] = available[i]
        /\ available'[Len(available) + 1] = made + 1
    BY <1>1, <1>3, <1>5, <2>0
  <2>2. PoolTypeOK'
    BY <1>1, <1>5, <2>1 DEF PoolTypeOK
  <2>3. \A i \in 1..Len(available') : i \in 1..Len(available) \/ i = Len(available) + 1
    BY <1>3, <2>1
  <2>4. \A i, j \in 1..Len(available') : available'[i] = available'[j] => i = j
    BY <1>4, <2>1, <2>3 DEF Exclusive
  <2>5. \A l \in Keys : \A i \in 1..Len(available') : available'[i] \notin Serves(l)'
    BY <1>2, <2>1, <2>3 DEF Exclusive
  <2>6. Exclusive'
    BY <1>2, <2>4, <2>5 DEF Exclusive
  <2>7. AvailableReady'
    BY <1>5, <2>1, <2>3 DEF AvailableReady
  <2> QED BY <1>1, <2>2, <2>6, <2>7 DEF CreatingCounted, PoolTypeOK
<1>6. CASE UNCHANGED <<available, ready>>
  <2>1. available \in Seq(1..(made + 1))
    BY <1>1, <1>3
  <2>2. PoolTypeOK'
    BY <1>1, <1>6, <2>1 DEF PoolTypeOK
  <2> QED BY <1>1, <1>6, <2>2, PoolUntouched DEF CreatingCounted, AvailableReady, PoolTypeOK
<1> QED BY <1>5, <1>6 DEF createStores

LEMMA DrainStep ==
    ASSUME PInv, drainPools
    PROVE  PInv'
<1> USE DEF PInv, Handles
<1>1. /\ UNCHANGED <<made, creating, targetSize, handles, spawned, running, finishing,
                     reads, seen, loop>>
      /\ available' = <<>> /\ inUse' = [k \in Keys |-> 0] /\ stop' = "drained"
      /\ ready' \subseteq ready
  BY DEF drainPools, Cleanup, workerVars, startVars
<1>2. Len(available') = 0
  BY <1>1
<1>3. PoolTypeOK'
  BY <1>1 DEF PoolTypeOK
<1>4. \A l \in Keys : Serves(l)' \subseteq Serves(l)
  BY <1>1 DEF Serves
<1>5. Exclusive'
  BY <1>2, <1>4 DEF Exclusive
<1> QED BY <1>1, <1>2, <1>3, <1>5 DEF AvailableReady, CreatingCounted

\* Every step keeps the inductive invariant: one case per operation.
LEMMA PoolNextInv == PInv /\ [PoolNext]_vars => PInv'
<1> SUFFICES ASSUME PInv, [PoolNext]_vars PROVE PInv'
  OBVIOUS
<1>1. CASE UNCHANGED vars
  <2>1. UNCHANGED <<handles, made, ready, available, inUse, creating, targetSize, spawned,
                    running, finishing, reads, seen, loop, stop>>
    BY <1>1 DEF vars, workerVars, startVars, poolVars, handleVars
  <2> QED BY <2>1, PoolUntouched
          DEF PInv, PoolTypeOK, Handles, AvailableReady, CreatingCounted
<1>2. CASE PoolNext
  BY <1>2, CreateStep, RuntimeStep, RuntimeRemoved, ReturnStep, QuietSteps, EvictStep, StoreStep,
     DrainStep
  DEF PoolNext, Maintenance, Worker
<1> QED BY <1>1, <1>2

\* The four properties together are an invariant of the manager and its pool.
LEMMA PoolInvariant == PoolSpec => []PInv
BY PoolInitInv, PoolNextInv, PTL DEF PoolSpec

\* Type correctness of the runtime manager and its pool.
THEOREM PoolTypes == PoolSpec => []PoolTypeOK
BY PoolInvariant, PTL DEF PInv

\* No handle serves two sandboxes, or a sandbox and the pool, for any number of
\* sandboxes and handles, any sizes and any interleaving of the goroutines.
THEOREM PoolExclusive == PoolSpec => []Exclusive
BY PoolInvariant, PTL DEF PInv

\* What GetFromPool gives out is ready.
THEOREM PoolReady == PoolSpec => []AvailableReady
BY PoolInvariant, PTL DEF PInv

\* Creating counts the goroutines in flight, so failed creations do not make the
\* pool look fuller than it is.
THEOREM PoolCreating == PoolSpec => []CreatingCounted
BY PoolInvariant, PTL DEF PInv

\* The pool is safe, for any number of sandboxes and handles, any sizes and any
\* interleaving of its goroutines.
THEOREM PoolAlwaysSafe == PoolSpec => []PoolSafe
BY PoolTypes, PoolExclusive, PoolReady, PoolCreating, PTL DEF PoolSafe
=============================================================================
