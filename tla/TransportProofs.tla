---------------------------- MODULE TransportProofs ----------------------------
(***************************************************************************)
(* Proofs about PackStream, that it implements GitCall, for requests and    *)
(* plans of any length and channels and pipes of any size; and about        *)
(* ReplyStream, for answers of any length, chunks of any size and a channel *)
(* of any capacity.                                                         *)
(***************************************************************************)
EXTENDS StreamRefinement, ReplyStream, SequenceTheorems, TLAPS

\* Messages in a row: the first of them is the one after message a.
Row(s, a) == s \in Seq(Nat) /\ \A i \in 1 .. Len(s) : s[i] = a + i

LEMMA RowGrows ==
    ASSUME NEW a \in Nat, NEW s, Row(s, a), NEW e, e = a + Len(s) + 1
    PROVE  Row(Append(s, e), a) /\ Len(Append(s, e)) = Len(s) + 1
<1>1. s \in Seq(Nat) /\ \A i \in 1 .. Len(s) : s[i] = a + i
  BY DEF Row
<1>2. /\ Append(s, e) \in Seq(Nat) /\ Len(Append(s, e)) = Len(s) + 1
      /\ \A i \in 1 .. Len(s) : Append(s, e)[i] = s[i]
      /\ Append(s, e)[Len(s) + 1] = e
  BY <1>1
<1> QED BY <1>1, <1>2 DEF Row

LEMMA RowShrinks ==
    ASSUME NEW a \in Nat, NEW s, Row(s, a), s # <<>>
    PROVE  Row(Tail(s), a + 1) /\ Len(Tail(s)) = Len(s) - 1 /\ Len(s) > 0 /\ Head(s) = a + 1
<1>1. s \in Seq(Nat) /\ \A i \in 1 .. Len(s) : s[i] = a + i
  BY DEF Row
<1>2. /\ Tail(s) \in Seq(Nat) /\ Len(Tail(s)) = Len(s) - 1 /\ Len(s) > 0 /\ Head(s) = a + 1
      /\ \A i \in 1 .. Len(s) - 1 : Tail(s)[i] = a + 1 + i
  BY <1>1
<1> QED BY <1>2 DEF Row

LEMMA RowsJoin ==
    ASSUME NEW a \in Nat, NEW s, NEW t, Row(s, a), Row(t, a + Len(s))
    PROVE  Row(s \o t, a) /\ Len(s \o t) = Len(s) + Len(t)
<1>1. /\ s \in Seq(Nat) /\ \A i \in 1 .. Len(s) : s[i] = a + i
      /\ t \in Seq(Nat) /\ \A i \in 1 .. Len(t) : t[i] = a + Len(s) + i
  BY DEF Row
<1>2. /\ s \o t \in Seq(Nat) /\ Len(s \o t) = Len(s) + Len(t)
      /\ \A i \in 1 .. Len(s) + Len(t) : (s \o t)[i] = a + i
  BY <1>1, ConcatProperties
<1> QED BY <1>2 DEF Row

LEMMA RowIsPrefix ==
    ASSUME NEW s, Row(s, 0), NEW n \in Nat, Len(s) <= n
    PROVE  IsPrefix(s, Upto(n)) /\ (Len(s) = n => s = Upto(n))
<1>1. s \in Seq(Nat) /\ \A i \in 1 .. Len(s) : s[i] = i
  BY DEF Row
<1>2. Upto(n) \in [1 .. n -> Nat] /\ \A i \in 1 .. n : Upto(n)[i] = i
  BY DEF Upto
<1>3. PICK t \in Seq(Nat) : t = Upto(n) /\ Len(t) = n /\ \A i \in 1 .. n : t[i] = i
  BY <1>2, SeqDef
<1>4. IsPrefix(s, t)
  BY <1>1, <1>3 DEF IsPrefix
<1>5. Len(s) = n => s = t
  BY <1>1, <1>3, SeqEqual
<1> QED BY <1>3, <1>4, <1>5
-----------------------------------------------------------------------------
Messages == Seq(Nat)
Clients == [sent : Nat, state : {"sending", "listening", "gone"}, got : Messages,
            ended : {"no", "ok", "failed"}]
Gits == [plan : Plans, doing : {"think", "read", "write", "err", "exit"}, read : Messages,
         wrote : Nat, erred : Nat, exit : {"running", "ok", "failed"}]

StreamTypes ==
    /\ client \in Clients /\ git \in Gits
    /\ tasks \in [{"feeder", "writer", "pump"} -> {"on", "off"}]

\* Messages that git has read or has in its pipe, and those that it has or that are
\* on the way to it.
Piped == Len(git.read) + Len(inPipe)
Queued == Piped + Len(inChan)

\* What was sent is in a row through git, the pipe, the channel and the stream, as far as
\* the tasks between them still work.  Once the writer has closed a running git's
\* stdin, all of the request is through, or the client has left.
InputInv ==
    /\ client.sent <= Request
    /\ client.state = "listening" => client.sent = Request
    /\ Row(git.read, 0) /\ Row(inPipe, Len(git.read)) /\ Piped <= client.sent
    /\ tasks["writer"] = "on" => Row(inChan, Piped) /\ Queued <= client.sent
    /\ tasks["writer"] = "on" /\ tasks["feeder"] = "on" =>
           Row(wire, Queued) /\ Queued + Len(wire) = client.sent
    /\ tasks["writer"] = "on" /\ tasks["feeder"] = "off" /\ Here =>
           client.state = "listening" /\ Queued = Request
    /\ tasks["writer"] = "off" /\ Running /\ Here =>
           client.state = "listening" /\ Piped = Request

\* What git wrote is in a row from the client back to git's stdout, and nothing but
\* the failure of git comes after it.
OutputInv ==
    /\ Row(client.got, 0) /\ Len(client.got) <= git.wrote
    /\ ~Here => client.ended = "no"
    /\ client.ended # "no" => tasks["pump"] = "off"
    /\ Here /\ tasks["pump"] = "on" =>
           /\ Row(outChan, Len(client.got)) /\ Row(outPipe, Len(client.got) + Len(outChan))
           /\ Len(client.got) + Len(outChan) + Len(outPipe) = git.wrote
    /\ Here /\ tasks["pump"] = "off" => ~Running
    /\ Here /\ tasks["pump"] = "off" /\ client.ended # "no" =>
           client.ended = git.exit /\ Len(client.got) = git.wrote
    /\ Here /\ tasks["pump"] = "off" /\ client.ended = "no" /\ git.exit = "ok" =>
           Row(outChan, Len(client.got)) /\ Len(client.got) + Len(outChan) = git.wrote
    /\ Here /\ tasks["pump"] = "off" /\ client.ended = "no" /\ git.exit = "failed" =>
           /\ outChan \in Seq(Nat) /\ outChan # <<>> /\ outChan[Len(outChan)] = Failure
           /\ \A i \in 1 .. Len(outChan) - 1 : outChan[i] = Len(client.got) + i
           /\ Len(client.got) + Len(outChan) = git.wrote + 1

StreamInv == StreamTypes /\ InputInv /\ OutputInv
-----------------------------------------------------------------------------
\* What a step looks like to the caller.
Step == [Call!Next]_(Call!vars)

LEMMA RowLen == ASSUME NEW s, NEW a, Row(s, a) PROVE s \in Messages /\ Len(s) \in Nat
<1>1. s \in Seq(Nat)
  BY DEF Row
<1> QED BY <1>1 DEF Messages

LEMMA InputCounts ==
    ASSUME StreamInv
    PROVE  /\ client.sent \in Nat /\ Request \in Nat
           /\ Len(git.read) \in Nat /\ Len(inPipe) \in Nat /\ Piped \in Nat
           /\ tasks["writer"] = "on" => Len(inChan) \in Nat /\ Queued \in Nat
           /\ tasks["writer"] = "on" /\ tasks["feeder"] = "on" => Len(wire) \in Nat
<1>1. client.sent \in Nat /\ Request \in Nat
  BY StreamAssumption DEF StreamInv, StreamTypes, Clients
<1>2. Len(git.read) \in Nat /\ Len(inPipe) \in Nat
  BY RowLen DEF StreamInv, InputInv
<1>3. tasks["writer"] = "on" => Len(inChan) \in Nat
  BY RowLen DEF StreamInv, InputInv
<1>4. tasks["writer"] = "on" /\ tasks["feeder"] = "on" => Len(wire) \in Nat
  BY RowLen DEF StreamInv, InputInv
<1> QED BY <1>1, <1>2, <1>3, <1>4 DEF Piped, Queued

LEMMA OutputCounts ==
    ASSUME StreamInv
    PROVE  /\ git.wrote \in Nat /\ Len(client.got) \in Nat
           /\ Here /\ tasks["pump"] = "on" => Len(outChan) \in Nat /\ Len(outPipe) \in Nat
<1>1. git.wrote \in Nat
  BY DEF StreamInv, StreamTypes, Gits
<1>2. Len(client.got) \in Nat /\ (Here /\ tasks["pump"] = "on" => Len(outChan) \in Nat /\ Len(outPipe) \in Nat)
  BY RowLen DEF StreamInv, OutputInv
<1> QED BY <1>1, <1>2

LEMMA InputStays ==
    ASSUME InputInv, UNCHANGED inVars, client'.sent = client.sent, client'.state = client.state,
           tasks'["feeder"] = tasks["feeder"], tasks'["writer"] = tasks["writer"],
           git'.read = git.read, git'.exit = "running" => git.exit = "running"
    PROVE  InputInv'
BY DEF InputInv, inVars, Piped, Queued, Here, Running

\* git may exit: the pump is on then, or the client is gone.
LEMMA OutputStays ==
    ASSUME StreamInv, UNCHANGED outVars, client'.got = client.got, client'.state = "gone" <=> client.state = "gone",
           client'.ended = client.ended, tasks'["pump"] = tasks["pump"], git'.wrote = git.wrote,
           git'.exit = git.exit \/ (Running /\ git'.exit # "running")
    PROVE  OutputInv'
BY DEF StreamInv, OutputInv, outVars, Here, Running

LEMMA CallStutters ==
    ASSUME client'.sent = client.sent, client'.got = client.got, client'.ended = client.ended,
           client'.state = "gone" <=> client.state = "gone",
           git'.read = git.read, git'.wrote = git.wrote, git'.exit = git.exit
    PROVE  Step
BY DEF Step, Call!vars
-----------------------------------------------------------------------------
\* The client.

LEMMA SendStep == ASSUME StreamInv, SendChunk PROVE StreamInv' /\ Step
<1>1. /\ client' \in Clients /\ client'.sent = client.sent + 1 /\ client'.state = "sending"
      /\ client'.got = client.got /\ client'.ended = client.ended
      /\ client.state = "sending" /\ client.sent < Request
  BY DEF StreamInv, StreamTypes, SendChunk, Clients
<1>2. UNCHANGED <<inChan, inPipe, tasks, git, outVars>>
  BY DEF SendChunk
<1>3. InputInv'
  <2>1. Piped' = Piped /\ Queued' = Queued
    BY <1>2 DEF Piped, Queued
  <2>2. /\ client'.sent <= Request /\ client'.state # "listening"
        /\ Row(git'.read, 0) /\ Row(inPipe', Len(git'.read)) /\ Piped <= client'.sent
        /\ tasks'["writer"] = "on" => Row(inChan', Piped) /\ Queued <= client'.sent
    BY <1>1, <1>2, InputCounts DEF StreamInv, InputInv
  <2>3. ASSUME tasks["writer"] = "on", tasks["feeder"] = "on"
        PROVE  Row(wire', Queued) /\ Queued + Len(wire') = client'.sent
    <3>1. wire' = Append(wire, client.sent + 1)
      BY <2>3 DEF SendChunk
    <3>2. Row(wire, Queued) /\ Queued + Len(wire) = client.sent
      BY <2>3 DEF StreamInv, InputInv
    <3>3. client.sent + 1 = Queued + Len(wire) + 1
      BY <3>2
    <3>4. Row(wire', Queued) /\ Len(wire') = Len(wire) + 1
      BY <2>3, <3>1, <3>2, <3>3, RowGrows, InputCounts
    <3> QED BY <1>1, <2>3, <3>2, <3>4, InputCounts
  <2>4. Here => ~(tasks["writer"] = "on" /\ tasks["feeder"] = "off") /\ ~(tasks["writer"] = "off" /\ Running)
    BY <1>1 DEF StreamInv, InputInv
  <2> QED BY <1>1, <1>2, <2>1, <2>2, <2>3, <2>4 DEF InputInv, Here, Running
<1>4. OutputInv'
  BY <1>1, <1>2, OutputStays DEF outVars
<1>5. Call!Offer
  BY <1>1, <1>2 DEF Call!Offer
<1> QED BY <1>1, <1>2, <1>3, <1>4, <1>5 DEF StreamInv, StreamTypes, Step, Call!Next

LEMMA FinishStep == ASSUME StreamInv, FinishRequest PROVE StreamInv' /\ Step
<1>1. /\ client' \in Clients /\ client'.sent = client.sent /\ client'.state = "listening"
      /\ client'.got = client.got /\ client'.ended = client.ended
      /\ client.state = "sending" /\ client.sent = Request
  BY DEF StreamInv, StreamTypes, FinishRequest, Clients
<1>2. UNCHANGED <<inVars, tasks, git, outVars>>
  BY DEF FinishRequest
<1>3. InputInv'
  BY <1>1, <1>2 DEF StreamInv, InputInv, inVars, Piped, Queued, Here, Running
<1>4. OutputInv' /\ Step
  BY <1>1, <1>2, OutputStays, CallStutters DEF outVars
<1> QED BY <1>1, <1>2, <1>3, <1>4 DEF StreamInv, StreamTypes

LEMMA TakeChunkStep == ASSUME StreamInv, TakeChunk PROVE StreamInv' /\ Step
<1>1. /\ Here /\ client.ended = "no" /\ outChan # <<>> /\ outChan' = Tail(outChan)
      /\ client' = IF Head(outChan) = Failure
                   THEN [client EXCEPT !.ended = "failed"]
                   ELSE [client EXCEPT !.got = Append(@, Head(outChan))]
  BY DEF TakeChunk
<1>2. UNCHANGED <<inVars, tasks, git, outPipe>>
  BY DEF TakeChunk
<1>3. client'.sent = client.sent /\ client'.state = client.state
  BY <1>1 DEF StreamInv, StreamTypes, Clients
<1>4. InputInv'
  BY <1>2, <1>3, InputStays DEF StreamInv, inVars
<1>5. ASSUME Row(outChan, Len(client.got)), Len(client.got) + Len(outChan) <= git.wrote,
             Len(outChan) \in Nat
      PROVE  /\ client' \in Clients /\ client'.ended = "no" /\ Row(client'.got, 0)
             /\ Len(client'.got) = Len(client.got) + 1 /\ Len(outChan') = Len(outChan) - 1
             /\ Row(outChan', Len(client'.got)) /\ Len(client'.got) <= git.wrote
             /\ Call!Get
  <2>1. /\ Row(Tail(outChan), Len(client.got) + 1) /\ Len(Tail(outChan)) = Len(outChan) - 1
        /\ Len(outChan) > 0 /\ Head(outChan) = Len(client.got) + 1
    BY <1>1, <1>5, RowShrinks, OutputCounts
  <2>2. Head(outChan) # Failure
    BY <2>1, OutputCounts DEF Failure
  <2>3. /\ Row(Append(client.got, Head(outChan)), 0)
        /\ Len(Append(client.got, Head(outChan))) = Len(client.got) + 1
    <3>1. Row(client.got, 0) /\ Head(outChan) = 0 + Len(client.got) + 1
      BY <2>1, OutputCounts DEF StreamInv, OutputInv
    <3> QED BY <3>1, RowGrows
  <2>4. client' = [client EXCEPT !.got = Append(client.got, Head(outChan))]
    BY <1>1, <2>2
  <2>5. Append(client.got, Head(outChan)) \in Messages
    BY <2>3, RowLen
  <2>6. /\ client' \in Clients /\ client'.ended = "no" /\ client'.got = Append(client.got, Head(outChan))
    BY <1>1, <2>4, <2>5 DEF StreamInv, StreamTypes, Clients
  <2>7. Len(client.got) < git.wrote
    BY <1>5, <2>1, OutputCounts
  <2>8. Call!Get
    BY <1>1, <1>2, <1>3, <2>1, <2>6, <2>7 DEF Call!Get, Here
  <2> QED BY <1>1, <1>5, <2>1, <2>3, <2>6, <2>7, <2>8, OutputCounts
<1>6. CASE tasks["pump"] = "on"
  <2>1. /\ Row(outChan, Len(client.got)) /\ Row(outPipe, Len(client.got) + Len(outChan))
        /\ Len(client.got) + Len(outChan) + Len(outPipe) = git.wrote
    BY <1>1, <1>6 DEF StreamInv, OutputInv
  <2>2. Len(outChan) \in Nat /\ Len(outPipe) \in Nat /\ Len(client.got) \in Nat /\ git.wrote \in Nat
    BY <1>1, <1>6, OutputCounts
  <2>3. Len(client.got) + Len(outChan) <= git.wrote
    BY <2>1, <2>2
  <2>4. Len(client'.got) + Len(outChan') = Len(client.got) + Len(outChan)
    BY <1>5, <2>1, <2>2, <2>3
  <2>5. OutputInv'
    BY <1>1, <1>2, <1>3, <1>5, <1>6, <2>1, <2>2, <2>3, <2>4 DEF OutputInv, Here
  <2> QED BY <1>2, <1>4, <1>5, <2>1, <2>2, <2>3, <2>5 DEF StreamInv, StreamTypes, Step, Call!Next
<1>7. CASE tasks["pump"] = "off" /\ git.exit = "ok"
  <2>1. Row(outChan, Len(client.got)) /\ Len(client.got) + Len(outChan) = git.wrote
    BY <1>1, <1>7 DEF StreamInv, OutputInv
  <2>2. Len(outChan) \in Nat /\ Len(client.got) \in Nat /\ git.wrote \in Nat
    BY <2>1, RowLen, OutputCounts
  <2>3. Len(client'.got) + Len(outChan') = git.wrote
    BY <1>5, <2>1, <2>2
  <2>4. OutputInv'
    BY <1>1, <1>2, <1>3, <1>5, <1>7, <2>1, <2>2, <2>3 DEF OutputInv, Here, Running
  <2> QED BY <1>2, <1>4, <1>5, <2>1, <2>2, <2>4 DEF StreamInv, StreamTypes, Step, Call!Next
<1>8. CASE tasks["pump"] = "off" /\ git.exit = "failed"
  <2> DEFINE g == Len(client.got)
             n == Len(outChan)
  <2>1. /\ outChan \in Seq(Nat) /\ outChan[n] = Failure
        /\ \A i \in 1 .. n - 1 : outChan[i] = g + i
        /\ g + n = git.wrote + 1 /\ g \in Nat /\ git.wrote \in Nat
    BY <1>1, <1>8, OutputCounts DEF StreamInv, OutputInv
  <2>2. n \in Nat \ {0} /\ Len(outChan') = n - 1 /\ outChan' \in Seq(Nat)
        /\ \A i \in 1 .. n - 1 : outChan'[i] = outChan[i + 1]
    BY <1>1, <2>1
  <2>3. CASE n = 1
    <3>1. Head(outChan) = Failure
      BY <2>1, <2>3
    <3>2. client' = [client EXCEPT !.ended = "failed"] /\ g = git.wrote
      BY <1>1, <2>1, <2>3, <3>1
    <3>3. client' \in Clients /\ client'.ended = "failed" /\ client'.got = client.got
      BY <3>2 DEF StreamInv, StreamTypes, Clients
    <3>4. OutputInv'
      BY <1>1, <1>2, <1>3, <1>8, <3>2, <3>3 DEF StreamInv, OutputInv, Here, Running
    <3>5. Call!Answer
      BY <1>1, <1>2, <1>3, <1>8, <3>2, <3>3 DEF Call!Answer, Here
    <3> QED BY <1>2, <1>4, <3>3, <3>4, <3>5 DEF StreamInv, StreamTypes, Step, Call!Next
  <2>4. CASE n > 1
    <3>1. Head(outChan) = g + 1 /\ g < git.wrote
      <4>1. Head(outChan) = outChan[1]
        BY <2>1, <2>2
      <4>2. 1 \in 1 .. n - 1
        BY <2>2, <2>4
      <4>3. g + n = git.wrote + 1 /\ g \in Nat /\ git.wrote \in Nat /\ n \in Nat
        BY <2>1, <2>2
      <4>4. g < git.wrote
        <5> HIDE DEF g, n
        <5> QED BY <2>4, <4>3
      <4> QED BY <2>1, <4>1, <4>2, <4>4
    <3>2. client' = [client EXCEPT !.got = Append(client.got, g + 1)]
      <4>1. Head(outChan) # Failure
        BY <2>1, <3>1 DEF Failure
      <4> QED BY <1>1, <3>1, <4>1
    <3>3. Row(Append(client.got, g + 1), 0) /\ Len(Append(client.got, g + 1)) = g + 1
      BY <2>1, RowGrows DEF StreamInv, OutputInv
    <3>4. Append(client.got, g + 1) \in Messages
      BY <3>3, RowLen
    <3>5. client' \in Clients /\ client'.ended = "no" /\ client'.got = Append(client.got, g + 1)
      BY <1>1, <3>2, <3>4 DEF StreamInv, StreamTypes, Clients
    <3>6. /\ outChan' # <<>> /\ outChan'[Len(outChan')] = Failure
          /\ \A i \in 1 .. Len(outChan') - 1 : outChan'[i] = g + 1 + i
      <4>1. outChan' # <<>>
        BY <2>2, <2>4
      <4>2. n - 1 \in 1 .. n - 1 /\ outChan'[n - 1] = outChan[n - 1 + 1]
        BY <2>2, <2>4
      <4>3. ASSUME NEW i \in 1 .. n - 1 - 1 PROVE outChan'[i] = g + 1 + i
        <5>1. i \in 1 .. n - 1 /\ i + 1 \in 1 .. n - 1
          BY <2>2, <2>4
        <5> QED BY <2>1, <2>2, <5>1
      <4> QED BY <2>1, <2>2, <4>1, <4>2, <4>3
    <3>7. Len(client'.got) = g + 1 /\ g + 1 <= git.wrote /\ g + 1 + Len(outChan') = git.wrote + 1
      BY <2>1, <2>2, <2>4, <3>1, <3>3, <3>5
    <3>8. OutputInv'
      BY <1>1, <1>2, <1>3, <1>8, <2>2, <3>3, <3>5, <3>6, <3>7 DEF OutputInv, Here, Running
    <3>9. Call!Get
      BY <1>1, <1>2, <1>3, <3>1, <3>5 DEF Call!Get, Here
    <3> QED BY <1>2, <1>4, <3>5, <3>8, <3>9 DEF StreamInv, StreamTypes, Step, Call!Next
  <2> QED BY <2>2, <2>3, <2>4
<1>9. tasks["pump"] = "off" => git.exit = "ok" \/ git.exit = "failed"
  BY <1>1 DEF StreamInv, OutputInv, Running, StreamTypes, Gits
<1>10. tasks["pump"] \in {"on", "off"}
  BY DEF StreamInv, StreamTypes
<1> QED BY <1>6, <1>7, <1>8, <1>9, <1>10

LEMMA TakeEndStep == ASSUME StreamInv, TakeEnd PROVE StreamInv' /\ Step
<1>1. /\ client' \in Clients /\ client'.sent = client.sent /\ client'.state = client.state
      /\ client'.got = client.got /\ client'.ended = "ok" /\ client.ended = "no"
      /\ Here /\ outChan = <<>> /\ tasks["pump"] = "off"
  BY DEF StreamInv, StreamTypes, TakeEnd, Clients
<1>2. UNCHANGED <<inVars, tasks, git, outVars>>
  BY DEF TakeEnd
<1>3. InputInv'
  BY <1>1, <1>2, InputStays DEF StreamInv
<1>4. git.exit = "ok" /\ Len(client.got) = git.wrote
  <2>1. git.exit \in {"ok", "failed"}
    BY <1>1 DEF StreamInv, OutputInv, StreamTypes, Gits, Running
  <2>2. git.exit # "failed"
    BY <1>1 DEF StreamInv, OutputInv
  <2>3. git.exit = "ok" => Len(client.got) + Len(outChan) = git.wrote
    BY <1>1 DEF StreamInv, OutputInv
  <2>4. Len(outChan) = 0
    BY <1>1
  <2> QED BY <2>1, <2>2, <2>3, <2>4, OutputCounts
<1>5. OutputInv'
  BY <1>1, <1>2, <1>4 DEF StreamInv, OutputInv, outVars, Here, Running
<1>6. Call!Answer
  BY <1>1, <1>2, <1>4 DEF Call!Answer, Here
<1> QED BY <1>1, <1>2, <1>3, <1>5, <1>6 DEF StreamInv, StreamTypes, Step, Call!Next

LEMMA LeaveStreamStep == ASSUME StreamInv, LeaveStream PROVE StreamInv' /\ Step
<1>1. /\ client' \in Clients /\ client'.sent = client.sent /\ client'.state = "gone"
      /\ client'.got = client.got /\ client'.ended = client.ended /\ client.ended = "no" /\ Here
  BY DEF StreamInv, StreamTypes, LeaveStream, Clients
<1>2. UNCHANGED <<inVars, tasks, git, outPipe>>
  BY DEF LeaveStream
<1>3. InputInv'
  BY <1>1, <1>2 DEF StreamInv, InputInv, inVars, Piped, Queued, Here, Running
<1>4. OutputInv'
  BY <1>1, <1>2 DEF StreamInv, OutputInv, Here
<1>5. Call!Leave
  BY <1>1, <1>2 DEF Call!Leave, Here
<1> QED BY <1>1, <1>2, <1>3, <1>4, <1>5 DEF StreamInv, StreamTypes, Step, Call!Next
-----------------------------------------------------------------------------
\* The tasks.

LEMMA FeedStep == ASSUME StreamInv, Feed PROVE StreamInv' /\ Step
<1>1. tasks["feeder"] = "on" /\ wire # <<>> /\ wire' = Tail(wire)
      /\ UNCHANGED <<client, inPipe, git, outVars>>
  BY DEF Feed
<1>2. StreamTypes' /\ tasks'["pump"] = tasks["pump"] /\ tasks'["writer"] = tasks["writer"]
  <2>1. tasks' = tasks \/ tasks' = [tasks EXCEPT !["feeder"] = "off"]
    BY DEF Feed, TaskTo
  <2> QED BY <1>1, <2>1 DEF StreamInv, StreamTypes
<1>3. OutputInv' /\ Step
  BY <1>1, <1>2, OutputStays, CallStutters DEF outVars
<1>4. CASE tasks["writer"] = "on"
  <2>1. inChan' = Append(inChan, Head(wire)) /\ tasks' = tasks
    BY <1>4 DEF Feed
  <2>2. /\ Row(inChan, Piped) /\ Row(wire, Queued) /\ Queued + Len(wire) = client.sent
        /\ Queued = Piped + Len(inChan)
        /\ Len(inChan) \in Nat /\ Len(wire) \in Nat /\ Queued \in Nat /\ Piped \in Nat
    BY <1>1, <1>4, InputCounts DEF StreamInv, InputInv, Queued
  <2>3. /\ Row(wire', Queued + 1) /\ Len(wire') = Len(wire) - 1 /\ Len(wire) > 0
        /\ Head(wire) = Piped + Len(inChan) + 1
    BY <1>1, <2>2, RowShrinks
  <2>4. Row(inChan', Piped) /\ Len(inChan') = Len(inChan) + 1
    BY <2>1, <2>2, <2>3, RowGrows
  <2>5. Piped' = Piped /\ Queued' = Queued + 1
    <3>1. Piped' = Piped /\ Queued' = Piped' + Len(inChan')
      BY <1>1 DEF Piped, Queued
    <3> QED BY <2>2, <2>4, <3>1
  <2>6. Queued + 1 <= client.sent /\ Queued + 1 + Len(wire') = client.sent
    BY <2>2, <2>3, InputCounts
  <2>7. InputInv'
    BY <1>1, <1>4, <2>1, <2>3, <2>4, <2>5, <2>6 DEF StreamInv, InputInv, Here, Running
  <2> QED BY <1>2, <1>3, <2>7 DEF StreamInv
<1>5. CASE tasks["writer"] = "off"
  <2>1. UNCHANGED inChan /\ Piped' = Piped
    BY <1>1, <1>5 DEF Feed, Piped
  <2>2. InputInv'
    BY <1>1, <1>2, <1>5, <2>1 DEF StreamInv, InputInv, Here, Running
  <2> QED BY <1>2, <1>3, <2>2 DEF StreamInv
<1> QED BY <1>4, <1>5 DEF StreamInv, StreamTypes

LEMMA FeedEndsStep == ASSUME StreamInv, FeedEnds PROVE StreamInv' /\ Step
<1>1. /\ tasks["feeder"] = "on"
      /\ client.state = "gone" \/ (client.state = "listening" /\ wire = <<>>)
      /\ tasks' = [tasks EXCEPT !["feeder"] = "off"]
      /\ UNCHANGED <<client, inChan, inPipe, git, outVars>>
  BY DEF FeedEnds, TaskTo
<1>2. /\ StreamTypes' /\ tasks'["pump"] = tasks["pump"] /\ tasks'["writer"] = tasks["writer"]
      /\ tasks'["feeder"] = "off"
  BY <1>1 DEF StreamInv, StreamTypes
<1>3. OutputInv' /\ Step
  BY <1>1, <1>2, OutputStays, CallStutters DEF outVars
<1>4. Piped' = Piped /\ Queued' = Queued
  BY <1>1 DEF Piped, Queued
<1>5. ASSUME tasks["writer"] = "on", Here PROVE client.state = "listening" /\ Queued = Request
  <2>1. client.state = "listening" /\ wire = <<>>
    BY <1>1, <1>5 DEF Here
  <2>2. Queued + Len(wire) = client.sent /\ client.sent = Request /\ Len(wire) = 0 /\ Queued \in Nat
    <3>1. Queued + Len(wire) = client.sent /\ client.sent = Request /\ Queued \in Nat
      BY <1>1, <1>5, <2>1, InputCounts DEF StreamInv, InputInv
    <3>2. Len(wire) = 0
      BY <2>1
    <3> QED BY <3>1, <3>2
  <2> QED BY <2>1, <2>2
<1>6. InputInv'
  BY <1>1, <1>2, <1>4, <1>5 DEF StreamInv, InputInv, Here, Running
<1> QED BY <1>2, <1>3, <1>6 DEF StreamInv

LEMMA WriteChunkStep == ASSUME StreamInv, WriteChunk PROVE StreamInv' /\ Step
<1>1. /\ tasks["writer"] = "on" /\ inChan # <<>> /\ inChan' = Tail(inChan)
      /\ UNCHANGED <<client, wire, git, outVars>>
  BY DEF WriteChunk
<1>2. /\ StreamTypes' /\ tasks'["pump"] = tasks["pump"] /\ tasks'["feeder"] = tasks["feeder"]
  <2>1. tasks' = tasks \/ tasks' = [tasks EXCEPT !["writer"] = "off"]
    BY DEF WriteChunk, TaskTo
  <2> QED BY <1>1, <2>1 DEF StreamInv, StreamTypes
<1>3. OutputInv' /\ Step
  BY <1>1, <1>2, OutputStays, CallStutters DEF outVars
<1>4. CASE Running
  <2>1. inPipe' = Append(inPipe, Head(inChan)) /\ tasks' = tasks
    BY <1>4 DEF WriteChunk
  <2>2. /\ Row(inPipe, Len(git.read)) /\ Row(inChan, Piped) /\ Piped = Len(git.read) + Len(inPipe)
        /\ Queued = Piped + Len(inChan) /\ Queued <= client.sent /\ client.sent \in Nat
        /\ Len(inChan) \in Nat /\ Piped \in Nat /\ Len(git.read) \in Nat /\ Len(inPipe) \in Nat
    BY <1>1, InputCounts DEF StreamInv, InputInv, Queued, Piped
  <2>3. /\ Row(inChan', Piped + 1) /\ Len(inChan') = Len(inChan) - 1 /\ Len(inChan) > 0
        /\ Head(inChan) = Len(git.read) + Len(inPipe) + 1
    BY <1>1, <2>2, RowShrinks
  <2>4. Row(inPipe', Len(git.read)) /\ Len(inPipe') = Len(inPipe) + 1
    BY <2>1, <2>2, <2>3, RowGrows
  <2>5. Piped' = Piped + 1 /\ Queued' = Queued /\ Piped + 1 <= client.sent
    <3>1. Piped' = Len(git.read) + Len(inPipe') /\ Queued' = Piped' + Len(inChan')
      BY <1>1 DEF Piped, Queued
    <3>2. Piped' = Piped + 1
      <4> DEFINE r == Len(git.read)
                 p == Len(inPipe)
      <4>1. Piped = r + p /\ Piped' = r + (p + 1) /\ r \in Nat /\ p \in Nat
        BY <2>4, <3>1, InputCounts DEF Piped
      <4> HIDE DEF r, p
      <4> QED BY <4>1
    <3>3. Queued' = Queued
      <4>1. Queued = Piped + Len(inChan) /\ Len(inChan') = Len(inChan) - 1
        BY <2>3 DEF Queued
      <4> QED BY <1>1, <3>1, <3>2, <4>1, InputCounts
    <3>4. Piped + 1 <= client.sent
      <4>1. Piped + Len(inChan) <= client.sent
        BY <2>2
      <4> QED BY <1>1, <2>3, <4>1, InputCounts
    <3> QED BY <3>2, <3>3, <3>4
  <2>6. InputInv'
    BY <1>1, <2>1, <2>3, <2>4, <2>5 DEF StreamInv, InputInv, Here, Running
  <2> QED BY <1>2, <1>3, <2>6 DEF StreamInv
<1>5. CASE ~Running
  <2>1. UNCHANGED inPipe /\ tasks'["writer"] = "off" /\ Piped' = Piped
    BY <1>1, <1>5 DEF WriteChunk, TaskTo, Piped, StreamInv, StreamTypes
  <2>2. InputInv'
    BY <1>1, <1>2, <1>5, <2>1 DEF StreamInv, InputInv, Here, Running
  <2> QED BY <1>2, <1>3, <2>2 DEF StreamInv
<1> QED BY <1>4, <1>5

LEMMA CloseStdinStep == ASSUME StreamInv, CloseStdin PROVE StreamInv' /\ Step
<1>1. /\ tasks["writer"] = "on" /\ inChan = <<>> /\ tasks["feeder"] = "off"
      /\ tasks' = [tasks EXCEPT !["writer"] = "off"] /\ UNCHANGED <<client, inVars, git, outVars>>
  BY DEF CloseStdin, TaskTo
<1>2. /\ StreamTypes' /\ tasks'["pump"] = tasks["pump"] /\ tasks'["writer"] = "off"
  BY <1>1 DEF StreamInv, StreamTypes
<1>3. OutputInv' /\ Step
  BY <1>1, <1>2, OutputStays, CallStutters DEF outVars
<1>4. Queued = Piped
  BY <1>1, InputCounts DEF Queued
<1>5. InputInv'
  BY <1>1, <1>2, <1>4 DEF StreamInv, InputInv, inVars, Piped, Here, Running
<1> QED BY <1>2, <1>3, <1>5 DEF StreamInv

LEMMA PumpChunkStep == ASSUME StreamInv, PumpChunk PROVE StreamInv' /\ Step
<1>1. tasks["pump"] = "on" /\ outPipe # <<>> /\ UNCHANGED <<client, inVars, git>>
  BY DEF PumpChunk
<1>2. StreamTypes' /\ tasks'["writer"] = tasks["writer"] /\ tasks'["feeder"] = tasks["feeder"]
  <2>1. tasks' = tasks \/ tasks' = [tasks EXCEPT !["pump"] = "off"]
    BY DEF PumpChunk, TaskTo
  <2> QED BY <1>1, <2>1 DEF StreamInv, StreamTypes
<1>3. InputInv' /\ Step
  BY <1>1, <1>2, InputStays, CallStutters DEF StreamInv, inVars
<1>4. CASE Here
  <2> DEFINE g == Len(client.got)
             n == Len(outChan)
             k == Len(outPipe)
  <2>1. tasks' = tasks /\ outChan' = Append(outChan, Head(outPipe)) /\ outPipe' = Tail(outPipe)
    BY <1>4 DEF PumpChunk
  <2>2. /\ Row(outChan, g) /\ Row(outPipe, g + n) /\ g + n + k = git.wrote /\ client.ended = "no"
        /\ g \in Nat /\ n \in Nat /\ k \in Nat /\ git.wrote \in Nat
    BY <1>1, <1>4, OutputCounts DEF StreamInv, OutputInv
  <2>3. g + n \in Nat
    BY <2>2
  <2>4. Row(outPipe', g + n + 1) /\ Len(outPipe') = k - 1 /\ Head(outPipe) = g + n + 1
    BY <1>1, <2>1, <2>2, <2>3, RowShrinks
  <2>5. Row(outChan', g) /\ Len(outChan') = n + 1
    BY <2>1, <2>2, <2>4, RowGrows
  <2>6. g + (n + 1) = g + n + 1 /\ g + (n + 1) + (k - 1) = git.wrote
    <3> HIDE DEF g, n, k
    <3> QED BY <2>2
  <2>7. OutputInv'
    BY <1>1, <1>4, <2>1, <2>2, <2>4, <2>5, <2>6 DEF StreamInv, OutputInv, Here
  <2> QED BY <1>2, <1>3, <2>7 DEF StreamInv
<1>5. CASE ~Here
  <2>1. tasks'["pump"] = "off"
    BY <1>5 DEF PumpChunk, TaskTo, StreamInv, StreamTypes
  <2>2. OutputInv'
    BY <1>1, <1>5, <2>1 DEF StreamInv, OutputInv, Here
  <2> QED BY <1>2, <1>3, <2>2 DEF StreamInv
<1> QED BY <1>4, <1>5

LEMMA PumpEndsStep == ASSUME StreamInv, PumpEnds PROVE StreamInv' /\ Step
<1>1. /\ tasks["pump"] = "on" /\ outPipe = <<>> /\ ~Running
      /\ tasks' = [tasks EXCEPT !["pump"] = "off"]
      /\ UNCHANGED <<client, inVars, git, outPipe>>
  BY DEF PumpEnds, TaskTo
<1>2. /\ StreamTypes' /\ tasks'["writer"] = tasks["writer"] /\ tasks'["feeder"] = tasks["feeder"]
      /\ tasks'["pump"] = "off"
  BY <1>1 DEF StreamInv, StreamTypes
<1>3. InputInv' /\ Step
  BY <1>1, <1>2, InputStays, CallStutters DEF StreamInv, inVars
<1>4. CASE ~Here
  BY <1>1, <1>2, <1>3, <1>4 DEF StreamInv, OutputInv, Here
<1>5. CASE Here
  <2> DEFINE g == Len(client.got)
             n == Len(outChan)
  <2>1. Row(outChan, g) /\ g + n = git.wrote /\ client.ended = "no" /\ g \in Nat /\ n \in Nat
    <3>1. Row(outChan, g) /\ g + n + Len(outPipe) = git.wrote /\ client.ended = "no" /\ g \in Nat /\ n \in Nat
      BY <1>1, <1>5, OutputCounts DEF StreamInv, OutputInv
    <3>2. Len(outPipe) = 0
      BY <1>1
    <3> HIDE DEF g, n
    <3> QED BY <3>1, <3>2
  <2>2. git.exit = "ok" \/ git.exit = "failed"
    BY <1>1 DEF StreamInv, StreamTypes, Gits, Running
  <2>3. CASE git.exit = "ok"
    <3>1. outChan' = outChan
      BY <2>3 DEF PumpEnds
    <3> QED BY <1>1, <1>2, <1>3, <1>5, <2>1, <2>3, <3>1 DEF StreamInv, OutputInv, Here, Running
  <2>4. CASE git.exit = "failed"
    <3>1. outChan' = Append(outChan, Failure)
      BY <1>5, <2>4 DEF PumpEnds
    <3>2. outChan \in Seq(Nat) /\ \A i \in 1 .. n : outChan[i] = g + i
      BY <2>1 DEF Row
    <3>3. /\ outChan' \in Seq(Nat) /\ outChan' # <<>> /\ Len(outChan') = n + 1
          /\ \A i \in 1 .. n : outChan'[i] = outChan[i]
          /\ outChan'[n + 1] = Failure
      <4>1. Failure \in Nat
        BY DEF Failure
      <4> QED BY <3>1, <3>2, <4>1, AppendProperties
    <3>4. \A i \in 1 .. Len(outChan') - 1 : outChan'[i] = g + i
      BY <2>1, <3>2, <3>3
    <3>5. g + Len(outChan') = git.wrote + 1
      <4>1. g + (n + 1) = git.wrote + 1
        <5> HIDE DEF g, n
        <5> QED BY <2>1
      <4> QED BY <3>3, <4>1
    <3> QED BY <1>1, <1>2, <1>3, <1>5, <2>1, <2>4, <3>3, <3>4, <3>5 DEF StreamInv, OutputInv, Here, Running
  <2> QED BY <2>2, <2>3, <2>4
<1> QED BY <1>4, <1>5
-----------------------------------------------------------------------------
\* git.

LEMMA DecideStep == ASSUME StreamInv, Decide PROVE StreamInv' /\ Step
<1>1. /\ git' \in Gits /\ git'.read = git.read /\ git'.wrote = git.wrote /\ git'.exit = git.exit
      /\ UNCHANGED <<client, inVars, tasks, outVars>>
  BY DEF StreamInv, StreamTypes, Decide, Gits
<1>2. InputInv'
  BY <1>1, InputStays DEF StreamInv, inVars
<1>3. OutputInv' /\ Step
  BY <1>1, OutputStays, CallStutters DEF outVars
<1> QED BY <1>1, <1>2, <1>3 DEF StreamInv, StreamTypes

\* git takes the next chunk out of its pipe.
LEMMA ReadsChunk ==
    ASSUME StreamInv, Running, inPipe # <<>>, inPipe' = Tail(inPipe),
           NEW doing \in {"think", "read", "write", "err", "exit"},
           git' = [git EXCEPT !.doing = doing, !.read = Append(git.read, Head(inPipe))],
           UNCHANGED <<client, wire, inChan, tasks, outVars>>
    PROVE  StreamInv' /\ Step
<1> DEFINE r == Len(git.read)
           k == Len(inPipe)
<1>1. /\ Row(git.read, 0) /\ Row(inPipe, r) /\ Piped = r + k /\ Piped <= client.sent
      /\ client.sent \in Nat /\ r \in Nat /\ k \in Nat
  BY InputCounts DEF StreamInv, InputInv, Piped
<1>2. /\ Row(inPipe', r + 1) /\ Len(inPipe') = k - 1 /\ k > 0 /\ Head(inPipe) = r + 1
  BY <1>1, RowShrinks
<1>3. Row(Append(git.read, r + 1), 0) /\ Len(Append(git.read, r + 1)) = r + 1
  <2>1. r + 1 = 0 + Len(git.read) + 1
    BY <1>1
  <2> QED BY <1>1, <2>1, RowGrows
<1>4. Append(git.read, r + 1) \in Messages
  BY <1>3, RowLen
<1>5. /\ git' \in Gits /\ git'.read = Append(git.read, r + 1)
      /\ git'.wrote = git.wrote /\ git'.exit = git.exit
  BY <1>2, <1>4 DEF StreamInv, StreamTypes, Gits
<1>6. Piped' = Piped /\ Queued' = Queued
  <2>1. Piped' = (r + 1) + (k - 1)
    BY <1>2, <1>3, <1>5 DEF Piped
  <2>2. Piped' = Piped
    <3> HIDE DEF r, k
    <3> QED BY <1>1, <2>1
  <2> QED BY <2>2 DEF Queued
<1>7. InputInv'
  BY <1>1, <1>2, <1>3, <1>5, <1>6 DEF StreamInv, InputInv, Here, Running
<1>8. OutputInv'
  BY <1>5, OutputStays DEF outVars
<1>9. r < client.sent
  <2> HIDE DEF r, k
  <2> QED BY <1>1, <1>2
<1>10. Call!Receive
  BY <1>5, <1>9 DEF Call!Receive, Running
<1> QED BY <1>5, <1>7, <1>8, <1>10 DEF StreamInv, StreamTypes, Step, Call!Next

LEMMA ReadStdinStep == ASSUME StreamInv, ReadStdin PROVE StreamInv' /\ Step
<1>1. CASE inPipe # <<>>
  <2>1. /\ git' = [git EXCEPT !.doing = "think", !.read = Append(git.read, Head(inPipe))]
        /\ inPipe' = Tail(inPipe) /\ Running /\ UNCHANGED <<client, wire, inChan, tasks, outVars>>
    BY <1>1 DEF ReadStdin
  <2> QED BY <1>1, <2>1, ReadsChunk
<1>2. CASE inPipe = <<>>
  <2>1. /\ git' \in Gits /\ git'.read = git.read /\ git'.wrote = git.wrote /\ git'.exit = git.exit
        /\ UNCHANGED <<client, inVars, tasks, outVars>>
    BY <1>2 DEF StreamInv, StreamTypes, ReadStdin, Gits, inVars
  <2>2. InputInv'
    BY <2>1, InputStays DEF StreamInv, inVars
  <2>3. OutputInv' /\ Step
    BY <2>1, OutputStays, CallStutters DEF outVars
  <2> QED BY <2>1, <2>2, <2>3 DEF StreamInv, StreamTypes
<1> QED BY <1>1, <1>2

\* git exits: what it had written is still in the pipe.
LEMMA Dies ==
    ASSUME StreamInv, Running, git' = Exits("failed"), UNCHANGED <<client, inVars, tasks, outVars>>
    PROVE  StreamInv' /\ Step
<1>1. /\ git' \in Gits /\ git'.read = git.read /\ git'.wrote = git.wrote /\ git'.exit = "failed"
  BY DEF StreamInv, StreamTypes, Exits, Gits
<1>2. InputInv'
  BY <1>1, InputStays DEF StreamInv, inVars
<1>3. OutputInv'
  BY <1>1, OutputStays DEF outVars
<1>4. Call!Fail
  BY <1>1 DEF Call!Fail, Running
<1> QED BY <1>1, <1>2, <1>3, <1>4 DEF StreamInv, StreamTypes, Step, Call!Next

LEMMA WriteStdoutStep == ASSUME StreamInv, WriteStdout PROVE StreamInv' /\ Step
<1>1. CASE tasks["pump"] = "on"
  <2>1. /\ git' \in Gits /\ git'.read = git.read /\ git'.wrote = git.wrote + 1 /\ git'.exit = git.exit
        /\ git.exit = "running" /\ outPipe' = Append(outPipe, git.wrote + 1)
        /\ UNCHANGED <<client, inVars, tasks, outChan>>
    <3>1. /\ git' = [git EXCEPT !.doing = "think", !.wrote = git.wrote + 1] /\ git.exit = "running"
          /\ outPipe' = Append(outPipe, git.wrote + 1) /\ UNCHANGED <<client, inVars, tasks, outChan>>
      BY <1>1 DEF StreamInv, StreamTypes, WriteStdout, Gits, Running
    <3>2. PICK n \in Nat : n = git.wrote + 1
      BY DEF StreamInv, StreamTypes, Gits
    <3>3. git' = [git EXCEPT !.doing = "think", !.wrote = n]
      BY <3>1, <3>2
    <3>4. /\ git' \in Gits /\ git'.read = git.read /\ git'.wrote = n
          /\ git'.exit = git.exit
      BY <3>3 DEF StreamInv, StreamTypes, Gits
    <3> QED BY <3>1, <3>2, <3>4
  <2>2. InputInv'
    BY <2>1, InputStays DEF StreamInv, inVars
  <2>3. Len(client.got) <= git.wrote + 1
    BY OutputCounts DEF StreamInv, OutputInv
  <2>4. ASSUME Here
        PROVE  /\ Row(outPipe', Len(client.got) + Len(outChan))
               /\ Len(client.got) + Len(outChan) + Len(outPipe') = git.wrote + 1
    <3> DEFINE g == Len(client.got)
               n == Len(outChan)
               k == Len(outPipe)
    <3>1. /\ Row(outPipe, g + n) /\ g + n + k = git.wrote
          /\ g \in Nat /\ n \in Nat /\ k \in Nat
      BY <1>1, <2>4, OutputCounts DEF StreamInv, OutputInv
    <3>2. g + n \in Nat /\ git.wrote + 1 = g + n + k + 1
      BY <3>1
    <3>3. Row(outPipe', g + n) /\ Len(outPipe') = k + 1
      BY <2>1, <3>1, <3>2, RowGrows
    <3>4. g + n + (k + 1) = git.wrote + 1
      <4> HIDE DEF g, n, k
      <4> QED BY <3>1
    <3> QED BY <3>3, <3>4
  <2>5. OutputInv'
    BY <1>1, <2>1, <2>3, <2>4 DEF StreamInv, OutputInv, Here
  <2>6. Call!Write
    BY <2>1 DEF Call!Write, inVars
  <2> QED BY <2>1, <2>2, <2>5, <2>6 DEF StreamInv, StreamTypes, Step, Call!Next
<1>2. CASE tasks["pump"] = "off"
  <2>1. Running /\ git' = Exits("failed") /\ UNCHANGED <<client, inVars, tasks, outVars>>
    BY <1>2 DEF WriteStdout, outVars
  <2> QED BY <2>1, Dies
<1> QED BY <1>1, <1>2 DEF StreamInv, StreamTypes

LEMMA WriteStderrStep == ASSUME StreamInv, WriteStderr PROVE StreamInv' /\ Step
<1>1. CASE tasks["pump"] = "on"
  <2>1. /\ git' \in Gits /\ git'.read = git.read /\ git'.wrote = git.wrote /\ git'.exit = git.exit
        /\ UNCHANGED <<client, inVars, tasks, outVars>>
    <3>1. /\ git' = [git EXCEPT !.doing = "think", !.erred = git.erred + 1]
          /\ UNCHANGED <<client, inVars, tasks, outVars>>
      BY <1>1 DEF StreamInv, StreamTypes, WriteStderr, Gits
    <3>2. PICK n \in Nat : n = git.erred + 1
      BY DEF StreamInv, StreamTypes, Gits
    <3>3. git' = [git EXCEPT !.doing = "think", !.erred = n]
      BY <3>1, <3>2
    <3>4. /\ git' \in Gits /\ git'.read = git.read /\ git'.wrote = git.wrote
          /\ git'.exit = git.exit
      BY <3>3 DEF StreamInv, StreamTypes, Gits
    <3> QED BY <3>1, <3>2, <3>4
  <2>2. InputInv'
    BY <2>1, InputStays DEF StreamInv, inVars
  <2>3. OutputInv' /\ Step
    BY <2>1, OutputStays, CallStutters DEF outVars
  <2> QED BY <2>1, <2>2, <2>3 DEF StreamInv, StreamTypes
<1>2. CASE tasks["pump"] = "off"
  <2>1. Running /\ git' = Exits("failed") /\ UNCHANGED <<client, inVars, tasks, outVars>>
    BY <1>2 DEF WriteStderr
  <2> QED BY <2>1, Dies
<1> QED BY <1>1, <1>2 DEF StreamInv, StreamTypes

LEMMA ExitStep == ASSUME StreamInv, Exit PROVE StreamInv' /\ Step
<1>1. Running /\ git.doing = "exit" /\ UNCHANGED <<client, wire, inChan, tasks, outVars>>
  BY DEF Exit
<1>2. CASE git' = Exits("failed") /\ UNCHANGED inPipe
  <2>1. UNCHANGED <<client, inVars, tasks, outVars>>
    BY <1>1, <1>2 DEF inVars
  <2> QED BY <1>1, <1>2, <2>1, Dies
<1>3. CASE inPipe = <<>> /\ tasks["writer"] = "off" /\ git' = Exits("ok") /\ UNCHANGED inPipe
  <2>1. /\ git' \in Gits /\ git'.read = git.read /\ git'.wrote = git.wrote /\ git'.exit = "ok"
    BY <1>3 DEF StreamInv, StreamTypes, Exits, Gits
  <2>2. InputInv'
    BY <1>1, <1>3, <2>1, InputStays DEF StreamInv, inVars
  <2>3. OutputInv'
    BY <1>1, <2>1, OutputStays DEF outVars
  <2>4. Len(git.read) = Request \/ client.state = "gone"
    <3>1. Len(inPipe) = 0
      BY <1>3
    <3>2. Piped = Len(git.read)
      BY <3>1, InputCounts DEF Piped
    <3> QED BY <1>1, <1>3, <3>2 DEF StreamInv, InputInv, Here
  <2>5. Call!Succeed
    BY <1>1, <1>3, <2>1, <2>4 DEF Call!Succeed, Running
  <2> QED BY <1>1, <2>1, <2>2, <2>3, <2>5 DEF StreamInv, StreamTypes, Step, Call!Next
<1>4. CASE inPipe # <<>> /\ git' = [git EXCEPT !.read = Append(@, Head(inPipe))] /\ inPipe' = Tail(inPipe)
  <2>1. git' = [git EXCEPT !.doing = "exit", !.read = Append(git.read, Head(inPipe))]
    BY <1>1, <1>4 DEF StreamInv, StreamTypes, Gits
  <2> QED BY <1>1, <1>4, <2>1, ReadsChunk
<1> QED BY <1>2, <1>3, <1>4 DEF Exit
-----------------------------------------------------------------------------
LEMMA StreamInvInit == StreamInit => StreamInv /\ Call!Init
<1> SUFFICES ASSUME StreamInit PROVE StreamInv /\ Call!Init
  OBVIOUS
<1>1. client = [sent |-> 0, state |-> "sending", got |-> <<>>, ended |-> "no"] /\ <<>> \in Messages
  BY DEF StreamInit, Messages
<1>2. StreamTypes
  <2>1. client \in Clients
    BY <1>1 DEF Clients
  <2>2. git \in Gits
    BY <1>1 DEF StreamInit, Gits
  <2>3. tasks \in [{"feeder", "writer", "pump"} -> {"on", "off"}]
    BY DEF StreamInit
  <2> QED BY <2>1, <2>2, <2>3 DEF StreamTypes
<1>3. /\ git.read = <<>> /\ git.wrote = 0 /\ git.exit = "running"
      /\ tasks["writer"] = "on" /\ tasks["feeder"] = "on" /\ tasks["pump"] = "on"
  BY DEF StreamInit
<1>4. \A a : Row(<<>>, a) /\ Len(<<>>) = 0
  BY DEF Row
<1>5. InputInv
  <2>1. wire = <<>> /\ inChan = <<>> /\ inPipe = <<>> /\ Piped = 0 /\ Queued = 0
    BY <1>3, <1>4 DEF StreamInit, Piped, Queued
  <2> QED BY <1>1, <1>3, <1>4, <2>1, StreamAssumption DEF InputInv
<1>6. OutputInv
  BY <1>1, <1>3, <1>4 DEF StreamInit, OutputInv
<1>7. Call!Init
  BY <1>1, <1>3 DEF Call!Init
<1> QED BY <1>2, <1>5, <1>6, <1>7 DEF StreamInv

LEMMA StreamInvNext == StreamInv /\ [StreamNext]_streamVars => StreamInv' /\ Step
<1> SUFFICES ASSUME StreamInv, [StreamNext]_streamVars PROVE StreamInv' /\ Step
  OBVIOUS
<1>1. CASE UNCHANGED streamVars
  <2>1. UNCHANGED <<client, inVars, tasks, git, outVars>>
    BY <1>1 DEF streamVars, inVars, outVars
  <2>2. InputInv'
    BY <2>1, InputStays DEF StreamInv, inVars
  <2>3. OutputInv' /\ Step
    BY <2>1, OutputStays, CallStutters DEF outVars
  <2> QED BY <2>1, <2>2, <2>3 DEF StreamInv, StreamTypes
<1>2. CASE StreamNext
  <2>1. Die => StreamInv' /\ Step
    BY Dies DEF Die
  <2> QED BY <1>2, <2>1, SendStep, FinishStep, TakeChunkStep, TakeEndStep, LeaveStreamStep, FeedStep,
             FeedEndsStep, WriteChunkStep, CloseStdinStep, PumpChunkStep, PumpEndsStep, DecideStep,
             ReadStdinStep, WriteStdoutStep, WriteStderrStep, ExitStep DEF StreamNext, GitProcess
<1> QED BY <1>1, <1>2

\* What has left one end of a pipe or channel is in it or at its other end, whichever of
\* the tasks, git and the client went away (service.rs:130-208, 1233-1349).
THEOREM StreamInvariant == StreamSpec => []StreamInv
BY StreamInvInit, StreamInvNext, PTL DEF StreamSpec

\* Whatever the capacities, git is never told that its input has ended while a part of
\* a completed request is missing, and reads it in order (service.rs:158-165,
\* service.rs:1313-1322).
THEOREM StreamInputIsWhole == StreamSpec => []InputIsWhole
<1>1. StreamInv => InputIsWhole
  <2> SUFFICES ASSUME StreamInv PROVE InputIsWhole
    OBVIOUS
  <2>1. Row(git.read \o inPipe, 0) /\ Len(git.read \o inPipe) = Piped
    <3>1. Row(git.read, 0) /\ Row(inPipe, 0 + Len(git.read))
      BY InputCounts DEF StreamInv, InputInv
    <3> QED BY <3>1, RowsJoin DEF Piped
  <2>2. Piped <= client.sent /\ client.sent \in Nat /\ Request \in Nat
    BY InputCounts DEF StreamInv, InputInv
  <2>3. IsPrefix(git.read \o inPipe, Upto(client.sent))
    BY <2>1, <2>2, RowIsPrefix
  <2>4. ASSUME Running, tasks["writer"] = "off", client.state = "listening"
        PROVE  git.read \o inPipe = Upto(Request)
    <3>1. Piped = Request
      BY <2>4 DEF StreamInv, InputInv, Here
    <3>2. Len(git.read \o inPipe) = Request /\ Len(git.read \o inPipe) <= Request
      BY <2>1, <2>2, <3>1
    <3> QED BY <2>1, <2>2, <3>2, RowIsPrefix
  <2> QED BY <2>3, <2>4 DEF InputIsWhole
<1> QED BY <1>1, StreamInvariant, PTL

\* A response ends only with git's own status and after all it wrote
\* (service.rs:171-204).
THEOREM StreamErrorsSurface == StreamSpec => []ErrorsSurface
<1>1. StreamInv => ErrorsSurface
  <2> SUFFICES ASSUME StreamInv, client.ended # "no"
               PROVE  (client.ended = "ok" => git.exit = "ok") /\ client.got = Upto(git.wrote)
    BY DEF ErrorsSurface
  <2>1. Here /\ tasks["pump"] = "off" /\ client.ended = git.exit /\ Len(client.got) = git.wrote
    BY DEF StreamInv, OutputInv
  <2>2. client.got = Upto(git.wrote)
    BY <2>1, OutputCounts, RowIsPrefix DEF StreamInv, OutputInv
  <2> QED BY <2>1, <2>2
<1> QED BY <1>1, StreamInvariant, PTL

\* Every step of the transport is one of the caller and git alone, or none at all
\* (service.rs:130-208, 1233-1349).
THEOREM StreamImplementsCall == StreamSpec => CallIsTransparent
<1>1. StreamInv /\ [StreamNext]_streamVars => [Call!Next]_(Call!vars)
  BY StreamInvNext DEF Step
<1> QED BY <1>1, StreamInvInit, StreamInvariant, PTL DEF StreamSpec, CallIsTransparent, Call!Spec
-----------------------------------------------------------------------------
(***************************************************************************)
(* ReplyStream.                                                            *)
(***************************************************************************)
Items == [from : Nat, upto : Nat, last : BOOLEAN]
Lists == Seq(Items)

\* A list whose records follow each other; the one that is marked ends at the size.
InOrder(list, size) ==
    /\ \A i \in 1 .. Len(list) - 1 : list[i].upto = list[i + 1].from
    /\ \A i \in 1 .. Len(list) : list[i].last => list[i].upto = size
    /\ size > 0 => Len(list) > 0 /\ list[Len(list)].last

LEMMA RecordsInOrder ==
    ASSUME NEW n \in Nat
    PROVE  Records(n) \in Lists /\ InOrder(Records(n), 0)
<1>1. Records(n) \in [1 .. n -> Items]
  BY DEF Records, Items
<1>2. PICK list \in Seq(Items) : list = Records(n) /\ Len(list) = n
  BY <1>1, SeqDef
<1>3. \A i \in 1 .. n : list[i] = [from |-> i - 1, upto |-> i, last |-> FALSE]
  BY <1>2 DEF Records
<1>4. \A i \in 1 .. n : list[i].from = i - 1 /\ list[i].upto = i /\ ~list[i].last
  <2> SUFFICES ASSUME NEW i \in 1 .. n
               PROVE  list[i].from = i - 1 /\ list[i].upto = i /\ ~list[i].last
    OBVIOUS
  <2> DEFINE item == [from |-> i - 1, upto |-> i, last |-> FALSE]
  <2>0. list[i] = item
    BY <1>3
  <2>1. list[i].from = i - 1
    BY <2>0
  <2>2. list[i].upto = i
    BY <2>0
  <2>3. ~list[i].last
    BY <2>0
  <2> QED BY <2>1, <2>2, <2>3
<1>5. InOrder(list, 0)
  BY <1>2, <1>4 DEF InOrder
<1> QED BY <1>2, <1>5 DEF Lists

\* As many chunks as it takes, and at least one for at least one byte.
LEMMA HowManyChunks ==
    ASSUME NEW n \in Nat
    PROVE  /\ (n + Chunk - 1) \div Chunk \in Nat
           /\ n > 0 => (n + Chunk - 1) \div Chunk > 0
BY ReplyAssumption

LEMMA ChunksInOrder ==
    ASSUME NEW n \in Nat
    PROVE  Chunks(n) \in Lists /\ InOrder(Chunks(n), n)
<1> DEFINE total == (n + Chunk - 1) \div Chunk
           chunk(i) == [from |-> (i - 1) * Chunk, upto |-> IF i = total THEN n ELSE i * Chunk,
                        last |-> i = total]
<1>1. total \in Nat /\ (n > 0 => total > 0)
  BY HowManyChunks
<1>2. Chunks(n) = [i \in 1 .. total |-> chunk(i)]
  BY DEF Chunks
<1> HIDE DEF total
<1>3. \A i \in 1 .. total : (i - 1) * Chunk \in Nat /\ i * Chunk \in Nat
  BY <1>1, ReplyAssumption
<1>4. \A i \in 1 .. total : chunk(i) \in Items
  BY <1>1, <1>3 DEF Items
<1>5. PICK list \in Seq(Items) : list = Chunks(n) /\ Len(list) = total
  <2>1. Chunks(n) \in [1 .. total -> Items]
    BY <1>2, <1>4
  <2> QED BY <1>1, <2>1, SeqDef
<1>6. \A i \in 1 .. total : /\ list[i].from = (i - 1) * Chunk /\ (list[i].last <=> i = total)
                            /\ list[i].upto = IF i = total THEN n ELSE i * Chunk
  <2> SUFFICES ASSUME NEW i \in 1 .. total
               PROVE  /\ list[i].from = (i - 1) * Chunk /\ (list[i].last <=> i = total)
                      /\ list[i].upto = IF i = total THEN n ELSE i * Chunk
    OBVIOUS
  <2>1. list[i] = chunk(i)
    BY <1>2, <1>5
  <2>2. list[i].from = (i - 1) * Chunk
    BY <2>1
  <2>3. list[i].last <=> i = total
    <3>1. chunk(i).last = (i = total)
      BY Zenon
    <3> QED BY <2>1, <3>1, Zenon
  <2>4. list[i].upto = IF i = total THEN n ELSE i * Chunk
    BY <2>1
  <2> QED BY <2>2, <2>3, <2>4
<1>7. ASSUME NEW i \in 1 .. total - 1 PROVE list[i].upto = list[i + 1].from
  <2>1. i \in 1 .. total /\ i + 1 \in 1 .. total /\ i # total /\ (i + 1) - 1 = i
    BY <1>1
  <2> QED BY <1>6, <2>1
<1>8. InOrder(list, n)
  BY <1>1, <1>5, <1>6, <1>7 DEF InOrder
<1> QED BY <1>5, <1>8 DEF Lists
-----------------------------------------------------------------------------
\* What follows the first a records of the answer.
Part(s, a) ==
    /\ s \in Lists /\ a + Len(s) <= Len(reply.list)
    /\ \A i \in 1 .. Len(s) : s[i] = reply.list[a + i]

ReplyTypes ==
    /\ reply \in [list : Lists, size : Nat] /\ InOrder(reply.list, reply.size)
    /\ sent \in 0 .. Len(reply.list) /\ task \in {"on", "off"}
    /\ reader \in [got : Lists, state : {"reading", "done", "gone"}]

\* The reader has a first part of the answer and the channel what comes next, until
\* one of them is gone; the task ends only when all was sent, or nobody listens.
ReplyInv ==
    /\ ReplyTypes
    /\ Part(reader.got, 0)
    /\ reader.state = "gone" => chan = <<>>
    /\ reader.state # "gone" => Part(chan, Len(reader.got)) /\ Len(reader.got) + Len(chan) = sent
    /\ task = "off" /\ reader.state # "gone" => sent = Len(reply.list)
    /\ reader.state = "done" => chan = <<>> /\ task = "off"

LEMMA PartGrows ==
    ASSUME NEW a \in Nat, NEW s, Part(s, a), reply.list \in Lists, a + Len(s) < Len(reply.list)
    PROVE  /\ Part(Append(s, reply.list[a + Len(s) + 1]), a)
           /\ Len(Append(s, reply.list[a + Len(s) + 1])) = Len(s) + 1
<1> DEFINE e == reply.list[a + Len(s) + 1]
<1>1. s \in Seq(Items) /\ reply.list \in Seq(Items) /\ Len(s) \in Nat /\ Len(reply.list) \in Nat
  BY LenProperties DEF Part, Lists
<1>2. a + Len(s) + 1 \in 1 .. Len(reply.list)
  BY <1>1
<1>3. e \in Items
  BY <1>1, <1>2
<1>4. /\ Append(s, e) \in Seq(Items) /\ Len(Append(s, e)) = Len(s) + 1
      /\ \A i \in 1 .. Len(s) : Append(s, e)[i] = s[i]
      /\ Append(s, e)[Len(s) + 1] = e
  BY <1>1, <1>3, AppendProperties
<1>5. \A i \in 1 .. Len(s) + 1 : Append(s, e)[i] = reply.list[a + i]
  BY <1>1, <1>4 DEF Part
<1>6. a + (Len(s) + 1) <= Len(reply.list)
  BY <1>1
<1> QED BY <1>4, <1>5, <1>6 DEF Part, Lists

LEMMA PartShrinks ==
    ASSUME NEW a \in Nat, NEW s, Part(s, a), s # <<>>
    PROVE  /\ Part(Tail(s), a + 1) /\ Len(Tail(s)) = Len(s) - 1 /\ Len(s) \in Nat \ {0}
           /\ Head(s) = reply.list[a + 1]
<1>1. s \in Seq(Items)
  BY DEF Part, Lists
<1>2. /\ Tail(s) \in Seq(Items) /\ Len(Tail(s)) = Len(s) - 1 /\ Len(s) \in Nat \ {0}
      /\ \A i \in 1 .. Len(s) - 1 : Tail(s)[i] = s[i + 1]
      /\ Head(s) = s[1]
  BY <1>1, HeadTailProperties
<1>3. \A i \in 1 .. Len(s) - 1 : Tail(s)[i] = reply.list[a + 1 + i]
  BY <1>2 DEF Part
<1>4. a + 1 + (Len(s) - 1) <= Len(reply.list) /\ Head(s) = reply.list[a + 1]
  BY <1>2 DEF Part
<1> QED BY <1>2, <1>3, <1>4 DEF Part, Lists

LEMMA Counts ==
    ASSUME ReplyInv
    PROVE  /\ reply.list \in Lists /\ Len(reply.list) \in Nat /\ sent \in Nat
           /\ Len(reader.got) \in Nat /\ (reader.state # "gone" => Len(chan) \in Nat)
<1>1. reply.list \in Lists /\ reader.got \in Lists /\ (reader.state # "gone" => chan \in Lists)
  BY DEF ReplyInv, ReplyTypes, Part
<1>2. \A s \in Lists : Len(s) \in Nat
  BY LenProperties DEF Lists
<1> QED BY <1>1, <1>2 DEF ReplyInv, ReplyTypes
-----------------------------------------------------------------------------
LEMMA ReplyInvInit == ReplyInit => ReplyInv
<1> SUFFICES ASSUME ReplyInit PROVE ReplyInv
  OBVIOUS
<1>1. reply \in [list : Lists, size : Nat] /\ InOrder(reply.list, reply.size)
  <2>1. CASE \E n \in Lengths : reply = [list |-> Records(n), size |-> 0]
    BY <2>1, RecordsInOrder, ReplyAssumption
  <2>2. CASE \E n \in Sizes : reply = [list |-> Chunks(n), size |-> n]
    BY <2>2, ChunksInOrder, ReplyAssumption
  <2> QED BY <2>1, <2>2 DEF ReplyInit
<1>2. Len(reply.list) \in Nat
  BY <1>1, LenProperties DEF Lists
<1>3. <<>> \in Lists /\ Len(<<>>) = 0
  BY DEF Lists
<1>4. reader = [got |-> <<>>, state |-> "reading"] /\ chan = <<>> /\ sent = 0 /\ task = "on"
  BY DEF ReplyInit
<1>5. reader \in [got : Lists, state : {"reading", "done", "gone"}]
  BY <1>3, <1>4
<1>6. Part(<<>>, 0)
  BY <1>2, <1>3 DEF Part
<1> QED BY <1>1, <1>2, <1>3, <1>4, <1>5, <1>6 DEF ReplyInv, ReplyTypes

LEMMA SendItemStep == ASSUME ReplyInv, Send PROVE ReplyInv'
<1>1. task = "on" /\ sent < Len(reply.list) /\ UNCHANGED <<reply, reader>>
  BY DEF Send
<1>2. CASE reader.state = "gone"
  <2>1. task' = "off" /\ UNCHANGED <<chan, sent>>
    BY <1>2 DEF Send
  <2> QED BY <1>1, <1>2, <2>1 DEF ReplyInv, ReplyTypes, Part
<1>3. CASE reader.state # "gone"
  <2> DEFINE g == Len(reader.got)
             k == Len(chan)
  <2>1. chan' = Append(chan, reply.list[sent + 1]) /\ sent' = sent + 1 /\ UNCHANGED task
    BY <1>3 DEF Send
  <2>2. /\ Part(chan, g) /\ g + k = sent /\ g \in Nat /\ k \in Nat
        /\ reply.list \in Lists /\ Len(reply.list) \in Nat /\ sent \in Nat
    BY <1>3, Counts DEF ReplyInv
  <2>3. g + k + 1 = sent + 1 /\ g + k < Len(reply.list)
    BY <1>1, <2>2
  <2>4. Part(chan', g) /\ Len(chan') = k + 1
    BY <2>1, <2>2, <2>3, PartGrows
  <2>5. g + (k + 1) = sent + 1 /\ sent + 1 \in 0 .. Len(reply.list)
    <3> HIDE DEF g, k
    <3> QED BY <1>1, <2>2
  <2>6. reader.state # "done"
    BY <1>1 DEF ReplyInv
  <2>7. ReplyTypes'
    BY <1>1, <2>1, <2>5 DEF ReplyInv, ReplyTypes
  <2>8. Part(reader.got, 0)' /\ Part(chan, g)'
    BY <1>1, <2>4 DEF ReplyInv, Part
  <2> QED BY <1>1, <1>3, <2>1, <2>4, <2>5, <2>6, <2>7, <2>8 DEF ReplyInv
<1> QED BY <1>2, <1>3

LEMMA SendEndsStep == ASSUME ReplyInv, SendEnds PROVE ReplyInv'
BY DEF ReplyInv, ReplyTypes, Part, SendEnds

LEMMA TakeItemStep == ASSUME ReplyInv, TakeItem PROVE ReplyInv'
<1> DEFINE g == Len(reader.got)
           k == Len(chan)
<1>1. /\ reader.state = "reading" /\ chan # <<>> /\ chan' = Tail(chan)
      /\ reader' = [reader EXCEPT !.got = Append(reader.got, Head(chan))]
      /\ UNCHANGED <<reply, sent, task>>
  BY DEF TakeItem, ReplyInv, ReplyTypes
<1>2. /\ Part(reader.got, 0) /\ Part(chan, g) /\ g + k = sent
      /\ g \in Nat /\ k \in Nat /\ reply.list \in Lists /\ Len(reply.list) \in Nat
  BY <1>1, Counts DEF ReplyInv
<1>3. Part(chan', g + 1) /\ Len(chan') = k - 1 /\ k > 0 /\ Head(chan) = reply.list[0 + g + 1]
  <2>1. /\ Part(Tail(chan), g + 1) /\ Len(Tail(chan)) = k - 1 /\ k \in Nat \ {0}
        /\ Head(chan) = reply.list[g + 1]
    BY <1>1, <1>2, PartShrinks
  <2>2. 0 + g + 1 = g + 1 /\ k > 0
    BY <1>2, <2>1
  <2> QED BY <1>1, <2>1, <2>2
<1>4. 0 + g < Len(reply.list)
  BY <1>2, <1>3 DEF Part
<1>5. Part(Append(reader.got, Head(chan)), 0) /\ Len(Append(reader.got, Head(chan))) = g + 1
  BY <1>2, <1>3, <1>4, PartGrows
<1>6. Append(reader.got, Head(chan)) \in Lists
  BY <1>5 DEF Part
<1>7. /\ reader' \in [got : Lists, state : {"reading", "done", "gone"}]
      /\ reader'.got = Append(reader.got, Head(chan)) /\ reader'.state = "reading"
  BY <1>1, <1>6 DEF ReplyInv, ReplyTypes
<1>8. g + 1 + (k - 1) = sent
  <2> HIDE DEF g, k
  <2> QED BY <1>2
<1>9. Part(reader.got, 0)' /\ Part(chan, g)'
  BY <1>1, <1>3, <1>5, <1>7 DEF Part
<1> QED BY <1>1, <1>3, <1>5, <1>7, <1>8, <1>9 DEF ReplyInv, ReplyTypes

LEMMA TakeLastStep == ASSUME ReplyInv, TakeLast PROVE ReplyInv'
<1>1. /\ reader' \in [got : Lists, state : {"reading", "done", "gone"}]
      /\ reader'.got = reader.got /\ reader'.state = "done"
      /\ reader.state = "reading" /\ chan = <<>> /\ task = "off" /\ UNCHANGED <<reply, sent, task, chan>>
  BY DEF TakeLast, ReplyInv, ReplyTypes
<1> QED BY <1>1 DEF ReplyInv, ReplyTypes, Part

LEMMA LeaveStep == ASSUME ReplyInv, Leave PROVE ReplyInv'
<1>1. /\ reader' \in [got : Lists, state : {"reading", "done", "gone"}]
      /\ reader'.got = reader.got /\ reader'.state = "gone" /\ chan' = <<>>
      /\ UNCHANGED <<reply, sent, task>>
  BY DEF Leave, ReplyInv, ReplyTypes
<1> QED BY <1>1 DEF ReplyInv, ReplyTypes, Part

LEMMA ReplyInvNext == ReplyInv /\ [ReplyNext]_replyVars => ReplyInv'
<1> SUFFICES ASSUME ReplyInv, [ReplyNext]_replyVars PROVE ReplyInv'
  OBVIOUS
<1>1. CASE UNCHANGED replyVars
  BY <1>1 DEF replyVars, ReplyInv, ReplyTypes, Part
<1>2. CASE ReplyNext
  BY <1>2, SendItemStep, SendEndsStep, TakeItemStep, TakeLastStep, LeaveStep DEF ReplyNext
<1> QED BY <1>1, <1>2

\* What the task has sent and the reader has not taken is in the channel, in order
\* (service.rs:711-738, 755-775, 839-876).
THEOREM ReplyInvariant == ReplySpec => []ReplyInv
BY ReplyInvInit, ReplyInvNext, PTL DEF ReplySpec

\* A stream that ends without an error was the whole answer, in order, however the task
\* and the reader race and whatever the channel holds (service.rs:725-735).
THEOREM RepliesAreWhole == ReplySpec => []EndMeansAll
<1>1. ReplyInv => EndMeansAll
  <2> SUFFICES ASSUME ReplyInv PROVE EndMeansAll
    OBVIOUS
  <2> DEFINE s == reader.got \o chan
  <2>1. /\ reader.got \in Seq(Items) /\ chan \in Seq(Items) /\ reply.list \in Seq(Items)
        /\ \A i \in 1 .. Len(reader.got) : reader.got[i] = reply.list[i]
    <3>1. chan \in Seq(Items)
      <4>1. reader.state = "gone" => chan = <<>>
        BY DEF ReplyInv
      <4>2. reader.state # "gone" => chan \in Lists
        BY DEF ReplyInv, Part
      <4>3. <<>> \in Seq(Items)
        OBVIOUS
      <4> QED BY <4>1, <4>2, <4>3 DEF Lists
    <3>2. reader.got \in Seq(Items) /\ \A i \in 1 .. Len(reader.got) : reader.got[i] = reply.list[0 + i]
      BY DEF ReplyInv, Part, Lists
    <3>3. \A i \in 1 .. Len(reader.got) : 0 + i = i
      BY Counts
    <3> QED BY <3>1, <3>2, <3>3, Counts DEF Lists
  <2>2. /\ \A i \in 1 .. Len(chan) : chan[i] = reply.list[Len(reader.got) + i]
        /\ Len(reader.got) + Len(chan) <= Len(reply.list)
    BY Counts DEF ReplyInv, Part
  <2>3. /\ s \in Seq(Items) /\ Len(s) <= Len(reply.list)
        /\ \A i \in 1 .. Len(s) : s[i] = reply.list[i]
    <3>1. /\ s \in Seq(Items) /\ Len(s) = Len(reader.got) + Len(chan)
          /\ \A i \in 1 .. Len(reader.got) + Len(chan) : s[i] =
                 IF i <= Len(reader.got) THEN reader.got[i] ELSE chan[i - Len(reader.got)]
      BY <2>1, ConcatProperties
    <3>2. ASSUME NEW i \in 1 .. Len(reader.got) + Len(chan) PROVE s[i] = reply.list[i]
      <4>1. CASE i <= Len(reader.got)
        BY <2>1, <3>1, <4>1
      <4>2. CASE i > Len(reader.got)
        <5>1. /\ i - Len(reader.got) \in 1 .. Len(chan)
              /\ Len(reader.got) + (i - Len(reader.got)) = i
          BY <2>1, <4>2
        <5>2. s[i] = chan[i - Len(reader.got)]
          BY <2>1, <3>1, <4>2
        <5>3. chan[i - Len(reader.got)] = reply.list[Len(reader.got) + (i - Len(reader.got))]
          BY <2>2, <5>1
        <5> QED BY <5>1, <5>2, <5>3
      <4> QED BY <2>1, <4>1, <4>2
    <3> QED BY <2>2, <3>1, <3>2
  <2>4. IsPrefix(s, reply.list)
    BY <2>1, <2>3 DEF IsPrefix
  <2>5. ASSUME reader.state = "done" PROVE reader.got = reply.list
    <3>1. Len(chan) = 0 /\ Len(reader.got) + Len(chan) = Len(reply.list)
      BY <2>5 DEF ReplyInv
    <3>2. Len(reader.got) = Len(reply.list)
      BY <3>1, Counts
    <3> QED BY <2>1, <3>2, SeqEqual
  <2> QED BY <2>4, <2>5 DEF EndMeansAll
<1> QED BY <1>1, ReplyInvariant, PTL

\* The chunk that is marked as the last one ends the blob, no chunk before it leaves a
\* gap, and the reader of a whole blob has it (service.rs:855-872).
THEOREM LastMarkHolds == ReplySpec => []LastMarkIsTrue
<1>1. ReplyInv => LastMarkIsTrue
  <2> SUFFICES ASSUME ReplyInv PROVE LastMarkIsTrue
    OBVIOUS
  <2> DEFINE g == Len(reader.got)
             marked == {i \in DOMAIN reader.got : reader.got[i].last}
  <2>1. /\ reader.got \in Seq(Items) /\ DOMAIN reader.got = 1 .. g /\ g \in Nat
        /\ g <= Len(reply.list) /\ Len(reply.list) \in Nat
    BY Counts, LenProperties DEF ReplyInv, Part, Lists
  <2>2. \A i \in 1 .. g : reader.got[i] = reply.list[i] /\ i \in 1 .. Len(reply.list)
    BY <2>1 DEF ReplyInv, Part
  <2>3. InOrder(reply.list, reply.size)
    BY DEF ReplyInv, ReplyTypes
  <2>4. \A i \in marked : reader.got[i].upto = reply.size
    BY <2>1, <2>2, <2>3 DEF InOrder
  <2>5. ASSUME NEW i \in 1 .. g - 1 PROVE reader.got[i].upto = reader.got[i + 1].from
    <3>1. i \in 1 .. g /\ i + 1 \in 1 .. g /\ i \in 1 .. Len(reply.list) - 1
      BY <2>1
    <3> QED BY <2>2, <2>3, <3>1 DEF InOrder
  <2>6. ASSUME reader.state = "done", reply.size > 0 PROVE marked # {}
    <3>1. Len(chan) = 0 /\ g + Len(chan) = Len(reply.list)
      BY <2>6 DEF ReplyInv
    <3>2. g = Len(reply.list) /\ g > 0 /\ reply.list[g].last
      BY <2>1, <2>3, <2>6, <3>1 DEF InOrder
    <3>3. g \in 1 .. g /\ reader.got[g].last
      BY <2>1, <2>2, <3>2
    <3> QED BY <2>1, <3>3
  <2> QED BY <2>4, <2>5, <2>6 DEF LastMarkIsTrue
<1> QED BY <1>1, ReplyInvariant, PTL
=============================================================================
