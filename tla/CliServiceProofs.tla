-------------------------- MODULE CliServiceProofs --------------------------
(***************************************************************************)
(* Proofs about CliService, for any number of cells, sessions and failures *)
(* and all sizes of packets, outputs and parts.                            *)
(***************************************************************************)
EXTENDS CliService, TLAPS

Statuses == {"idle", "ready", "queued", "processed", "free", "freed"}
OutputType == [of : {"nobody", "user", "ccapi"}, length : Nat]
Contexts ==
  [status : Statuses, required : BOOLEAN, command : 0..MaxLength,
   buffer : {"none", "held", "freed"}, output : OutputType, internal : BOOLEAN, left : Nat,
   error : {"none", "no_cli_support", "insufficient_memory"}]
Pasts == [given : Nat, calls : Nat, announced : Nat \cup {-1}, sent : Nat]
Places == {"acquire", "check", "callback", "update", "clear", "stopped"}
Threads ==
  [status : {"running", "request_stop", "not_started"}, at : Places, lock : Nat,
   held : Cell \cup {Null}, wants : BOOLEAN]
Phases == {"none", "request", "response", "status"}

Types ==
  /\ supported \in BOOLEAN /\ ccfsm \in BOOLEAN /\ lost \in BOOLEAN /\ dangling \in BOOLEAN
  /\ context \in [Cell -> Contexts] /\ past \in [Cell -> Pasts] /\ phase \in [Cell -> Phases]
  /\ svc_cli \in Cell \cup {Null} /\ thread \in Threads
  /\ thread.at \in {"callback", "update"} => thread.held \in Cell
  /\ thread.at = "stopped" <=> thread.status = "not_started"
  /\ \A c \in Cell : /\ phase[c] = "none" <=> context[c].status = "freed"
                     /\ phase[c] = "none" => context[c] = Freed

-----------------------------------------------------------------------------
(* What holds of one session: s is its context, p its history and ph what   *)
(* CCFSM calls next for it.                                                 *)

\* The bytes of the output that are sent in all.
Full(s) ==
  CASE s.output.of = "user" -> Length(s.output)
    [] s.output.of = "ccapi" -> ErrorSize
    [] OTHER -> 0

Command(s, p) ==
  /\ s.error = "none" /\ ~s.internal /\ s.left = 0 /\ p.announced = -1 /\ p.sent = 0
  /\ s.status \in {"idle", "ready", "queued", "processed"} /\ s.buffer = "held"
  /\ s.status \in {"idle", "ready"} => s.output = NoOutput /\ p.calls = 0

\* What was sent and what is left add up to the output, as it was announced.
Sending(s, p, ph) ==
  /\ p.sent + s.left = Full(s)
  /\ p.announced # -1 => p.announced = IF s.internal THEN 0 ELSE Full(s)
  /\ IF ph = "status" THEN s.left = 0 /\ (s.error # "none" => s.internal)
                      ELSE s.internal => p.sent > 0

Answer(s, p, ph) ==
  /\ s.error = "none" => s.buffer = "freed" /\ ~s.internal
  /\ s.error # "none" /\ ~s.internal => s.output = NoOutput
  /\ s.status \in {"idle", "free"}
  /\ ph = "response" => s.required
  /\ s.required => Sending(s, p, ph)

Owed(s) ==
  /\ s.output.of = "user" => s.required /\ ~s.internal /\ s.error = "none"
  /\ s.output.of = "ccapi" => s.internal
  /\ s.output.of = "nobody" => s.output.length = 0

Session(s, p, ph) ==
  /\ ph = "none" => s = Freed /\ p = NoPast
  /\ ph # "none" => s.command = p.given /\ Owed(s)
  /\ ph = "request" => Command(s, p)
  /\ ph \in {"response", "status"} => Answer(s, p, ph)

\* The semaphore counts the session in the slot, unless the thread has taken it.
Token == IF thread.at \in {"check", "callback", "update", "clear"} THEN 1 ELSE 0

Slot ==
  /\ ccfsm /\ supported => thread.status = "running"
  /\ ~supported => /\ svc_cli = Null /\ thread.at = "stopped"
                   /\ \A c \in Cell : phase[c] # "request"
  /\ thread.status = "running" => thread.lock + Token = IF svc_cli = Null THEN 0 ELSE 1
  /\ thread.at \in {"callback", "update"} =>
       /\ thread.held = svc_cli /\ context[svc_cli].status = "queued"
       /\ past[svc_cli].calls = 1
       /\ thread.wants = context[svc_cli].required
  /\ thread.at \in {"acquire", "check"} /\ svc_cli # Null =>
       context[svc_cli].status = "queued" /\ past[svc_cli].calls = 0
  /\ \A c \in Cell : context[c].status = "queued" => c = svc_cli /\ thread.at # "clear"

Sound == ~dangling => /\ Slot /\ ~lost
                      /\ \A c \in Cell : Session(context[c], past[c], phase[c])

CliInv == Types /\ Sound

-----------------------------------------------------------------------------
LEMMA RecordTypes ==
  /\ \A r \in BOOLEAN : New(r) \in Contexts /\ New(r).status = "idle"
  /\ Freed \in Contexts /\ Freed.status = "freed" /\ NoPast \in Pasts
  /\ NoOutput \in OutputType
  /\ Outputs \subseteq OutputType
<1>1. NoOutput \in OutputType
  BY DEF NoOutput, OutputType
<1>2. \A r \in BOOLEAN : New(r) \in Contexts /\ New(r).status = "idle"
  BY <1>1, SizesAreSizes DEF New, Contexts, Statuses
<1>3. Freed \in Contexts /\ Freed.status = "freed"
  BY <1>2 DEF Freed, Contexts, Statuses
<1>4. NoPast \in Pasts
  BY DEF NoPast, Pasts
<1>5. Outputs \subseteq OutputType
  BY SizesAreSizes DEF Outputs, OutputType, NoOutput
<1> QED BY <1>1, <1>2, <1>3, <1>4, <1>5

\* A step of CCFSM that changes one session, which is not the thread's.
LEMMA CellStep ==
  ASSUME CliInv, NEW c \in Cell, NEW k \in Contexts, NEW p \in Pasts, NEW ph \in Phases,
         UNCHANGED <<supported, svc_cli, thread, ccfsm>>,
         context' = [context EXCEPT ![c] = k], past' = [past EXCEPT ![c] = p],
         phase' = [phase EXCEPT ![c] = ph],
         k.status = "freed" <=> ph = "none", ph = "none" => k = Freed,
         lost' \in BOOLEAN, dangling' \in BOOLEAN,
         ~dangling' => /\ ~dangling /\ ~lost' /\ Session(k, p, ph)
                       /\ context[c].status # "queued" /\ k.status # "queued"
                       /\ ph = "request" => supported
  PROVE  CliInv'
<1>1. /\ context'[c] = k /\ past'[c] = p /\ phase'[c] = ph
      /\ \A d \in Cell \ {c} : context'[d] = context[d] /\ past'[d] = past[d] /\ phase'[d] = phase[d]
      /\ context' \in [Cell -> Contexts] /\ past' \in [Cell -> Pasts] /\ phase' \in [Cell -> Phases]
  BY DEF CliInv, Types
<1>2. \A d \in Cell : /\ phase'[d] = "none" <=> context'[d].status = "freed"
                      /\ phase'[d] = "none" => context'[d] = Freed
  BY <1>1 DEF CliInv, Types
<1>3. Types'
  BY <1>1, <1>2 DEF CliInv, Types
<1>4. ASSUME ~dangling'
      PROVE  Slot' /\ \A d \in Cell : Session(context'[d], past'[d], phase'[d])
  <2>1. Slot /\ \A d \in Cell : Session(context[d], past[d], phase[d])
    BY <1>4 DEF CliInv, Sound
  <2>2. Slot'
    <3>1. /\ thread.at \in {"callback", "update"} => svc_cli \in Cell /\ svc_cli # c
          /\ thread.at \in {"acquire", "check"} /\ svc_cli # Null => svc_cli \in Cell /\ svc_cli # c
      BY <1>4, <2>1 DEF Slot, CliInv, Types
    <3>2. \A d \in Cell : context'[d].status = "queued" => context[d].status = "queued"
      BY <1>1, <1>4
    <3>3. \A d \in Cell : phase'[d] = "request" => supported
      BY <1>1, <1>4, <2>1 DEF Slot, CliInv, Types
    <3> QED BY <1>1, <1>4, <2>1, <3>1, <3>2, <3>3 DEF Slot, Token
  <2> QED BY <1>1, <1>4, <2>1, <2>2
<1> QED BY <1>3, <1>4 DEF CliInv, Sound

-----------------------------------------------------------------------------
(* The contexts and histories the actions leave, each proved to be a record  *)
(* of its type that is as the session's next phase wants it.                 *)

Kept(s, n, more) ==
  [s EXCEPT !.command = @ + n, !.buffer = "held", !.status = IF more THEN "idle" ELSE "ready"]
Given(p, n) == [p EXCEPT !.given = @ + n]
Failed(s, error, status) == [s EXCEPT !.error = error, !.status = status]
Done(s) ==
  [s EXCEPT !.buffer = "freed", !.status = "free",
            !.left = IF s.required THEN Length(s.output) ELSE @]
Announced(p, n) == [p EXCEPT !.announced = n]
Rest(s) == [s EXCEPT !.left = @ - Part(s)]
Further(p, n) == [p EXCEPT !.sent = @ + n]
Own(s) ==
  [s EXCEPT !.internal = TRUE, !.left = ErrorSize,
            !.output = [of |-> "ccapi", length |-> ErrorSize]]
NotOwn(s) ==
  [s EXCEPT !.internal = TRUE, !.left = s.output.length,
            !.output.of = "nobody", !.error = "insufficient_memory"]

\* A session of which nothing but packets came.
Starting(s, p) ==
  /\ s.command = p.given /\ s.error = "none" /\ ~s.internal /\ s.left = 0
  /\ s.output = NoOutput /\ p.announced = -1 /\ p.sent = 0 /\ p.calls = 0

LEMMA KeptHolds ==
  ASSUME NEW s \in Contexts, NEW p \in Pasts, NEW n \in PacketSizes, NEW more \in BOOLEAN,
         s.command + n <= MaxLength
  PROVE  /\ Kept(s, n, more) \in Contexts /\ Given(p, n) \in Pasts
         /\ Kept(s, n, more).status \in {"idle", "ready"}
         /\ Starting(s, p) => Session(Kept(s, n, more), Given(p, n), "request")
<1> DEFINE k == Kept(s, n, more)
           q == Given(p, n)
<1>1. n \in Nat BY SizesAreSizes
<1>2. /\ k \in Contexts
      /\ k.command = s.command + n /\ k.buffer = "held" /\ k.status \in {"idle", "ready"}
      /\ k.output = s.output /\ k.internal = s.internal /\ k.left = s.left /\ k.error = s.error
      /\ k.required = s.required
  <2>1. s.command + n \in 0..MaxLength
    BY <1>1, SizesAreSizes DEF Contexts
  <2>2. (IF more THEN "idle" ELSE "ready") \in {"idle", "ready"}
    OBVIOUS
  <2> DEFINE m == s.command + n
             st == IF more THEN "idle" ELSE "ready"
  <2>3. k = [s EXCEPT !.command = m, !.buffer = "held", !.status = st]
    BY DEF Kept, Contexts
  <2>4. k.command = m
    BY DEF Kept, Contexts
  <2> HIDE DEF m, st, k
  <2>5. m \in 0..MaxLength /\ st \in {"idle", "ready"}
    BY <2>1, <2>2 DEF m, st
  <2> QED BY <2>3, <2>4, <2>5 DEF Contexts, Statuses, m
<1>3. /\ q \in Pasts /\ q.given = p.given + n /\ q.calls = p.calls
      /\ q.announced = p.announced /\ q.sent = p.sent
  BY <1>1 DEF Given, Pasts
<1> HIDE DEF k, q
<1>4. Starting(s, p) => Session(k, q, "request")
  BY <1>2, <1>3 DEF Starting, Session, Command, Owed, NoOutput
<1> QED BY <1>2, <1>3, <1>4 DEF k, q

LEMMA FailedHolds ==
  ASSUME NEW s \in Contexts, NEW p \in Pasts,
         NEW e \in {"no_cli_support", "insufficient_memory"}, NEW st \in {"idle", "free"}
  PROVE  /\ Failed(s, e, st) \in Contexts /\ Failed(s, e, st).status = st
         /\ Starting(s, p) => Session(Failed(s, e, st), p, AfterRequest(s.required))
<1> DEFINE k == Failed(s, e, st)
<1>1. /\ k \in Contexts
      /\ k.command = s.command /\ k.status = st /\ k.output = s.output /\ k.internal = s.internal
      /\ k.left = s.left /\ k.error = e /\ k.required = s.required
  BY DEF Failed, Contexts, Statuses
<1> HIDE DEF k
<1>2. s.required \in BOOLEAN BY DEF Contexts
<1>3. ASSUME Starting(s, p)
      PROVE  Session(k, p, AfterRequest(s.required))
  <2>1. Owed(k) /\ k.command = p.given /\ Full(k) = 0
    BY <1>1, <1>3 DEF Starting, Owed, NoOutput, Full
  <2>2. Answer(k, p, AfterRequest(s.required))
    BY <1>1, <1>2, <1>3, <2>1 DEF Starting, Answer, Sending, AfterRequest
  <2> QED BY <2>1, <2>2, <1>2 DEF Session, AfterRequest
<1> QED BY <1>1, <1>3 DEF k

LEMMA StartingSessions ==
  /\ \A r \in BOOLEAN : Starting(New(r), NoPast)
  /\ \A s, p : Session(s, p, "request") /\ s.status \in {"idle", "ready"} => Starting(s, p)
<1>1. \A r \in BOOLEAN : Starting(New(r), NoPast)
  BY DEF Starting, New, NoPast
<1>2. \A s, p : Session(s, p, "request") /\ s.status \in {"idle", "ready"} => Starting(s, p)
  BY DEF Session, Command, Starting
<1> QED BY <1>1, <1>2


LEMMA DoneHolds ==
  ASSUME NEW s \in Contexts, NEW p \in Pasts
  PROVE  /\ Done(s) \in Contexts /\ Done(s).status = "free"
         /\ Session(s, p, "request") /\ s.status = "processed" =>
              Session(Done(s), p, AfterRequest(s.required))
<1> DEFINE k == Done(s)
           left == IF s.required THEN Length(s.output) ELSE s.left
<1>1. left \in Nat
  BY DEF Contexts, OutputType, Length
<1>2. k = [s EXCEPT !.buffer = "freed", !.status = "free", !.left = left]
  BY DEF Done, Contexts
<1> HIDE DEF k, left
<1>3. /\ k \in Contexts
      /\ k.command = s.command /\ k.status = "free" /\ k.output = s.output
      /\ k.internal = s.internal /\ k.left = left /\ k.error = s.error
      /\ k.required = s.required /\ k.buffer = "freed"
  BY <1>1, <1>2 DEF Contexts, Statuses
<1>4. s.required \in BOOLEAN /\ s.output \in OutputType
  BY DEF Contexts
<1>5. ASSUME Session(s, p, "request"), s.status = "processed"
      PROVE  Session(k, p, AfterRequest(s.required))
  <2>1. Owed(k) /\ k.command = p.given /\ Command(s, p)
    BY <1>3, <1>5 DEF Session, Owed
  <2>2. s.required => left = Full(k)
    BY <1>3, <1>4, <2>1 DEF left, Full, Length, Owed, Command, OutputType
  <2>3. Answer(k, p, AfterRequest(s.required))
    BY <1>1, <1>3, <1>4, <2>1, <2>2 DEF Answer, Sending, AfterRequest, Command
  <2> QED BY <2>1, <2>3, <1>4 DEF Session, AfterRequest
<1> QED BY <1>3, <1>5 DEF k

LEMMA AnnouncedHolds ==
  ASSUME NEW s \in Contexts, NEW p \in Pasts, p.sent = 0
  PROVE  /\ Announced(p, s.left) \in Pasts
         /\ Session(s, p, "response") => Session(s, Announced(p, s.left), "response")
<1> DEFINE q == Announced(p, s.left)
<1>1. s.left \in Nat BY DEF Contexts
<1>2. /\ q \in Pasts /\ q.given = p.given /\ q.calls = p.calls
      /\ q.announced = s.left /\ q.sent = p.sent
  BY <1>1 DEF Announced, Pasts
<1> HIDE DEF q
<1>3. ASSUME Session(s, p, "response")
      PROVE  Session(s, q, "response")
  <2>1. Sending(s, p, "response") /\ s.required
    BY <1>3 DEF Session, Answer
  <2>2. ~s.internal /\ s.left = Full(s)
    BY <2>1, <1>1 DEF Sending
  <2>3. Sending(s, q, "response")
    BY <1>2, <2>1, <2>2 DEF Sending
  <2> QED BY <1>2, <1>3, <2>3 DEF Session, Answer
<1> QED BY <1>2, <1>3 DEF q

\* A session whose output, of the application or CCAPI's own, is being sent.
Partly(s, p) ==
  /\ s.required /\ Owed(s) /\ s.status \in {"idle", "free"} /\ s.command = p.given
  /\ s.error = "none" => s.buffer = "freed" /\ ~s.internal
  /\ s.error # "none" => s.internal
  /\ p.sent + s.left = Full(s)
  /\ p.announced # -1 => p.announced = IF s.internal THEN 0 ELSE Full(s)

AfterPart(s) == IF s.left > Part(s) THEN "response" ELSE "status"

LEMMA RestHolds ==
  ASSUME NEW s \in Contexts, NEW p \in Pasts
  PROVE  /\ Rest(s) \in Contexts /\ Rest(s).status = s.status
         /\ Further(p, Part(s)) \in Pasts
         /\ Partly(s, p) => Session(Rest(s), Further(p, Part(s)), AfterPart(s))
<1> DEFINE k == Rest(s)
           n == Part(s)
           q == Further(p, n)
<1>1. s.left \in Nat /\ BytesAvailable \in Nat \ {0}
  BY SizesAreSizes DEF Contexts
<1>2. /\ n \in Nat /\ n <= s.left /\ s.left - n \in Nat
      /\ s.left > n => n > 0
      /\ ~(s.left > n) => s.left - n = 0
  BY <1>1 DEF Part
<1>3. k = [s EXCEPT !.left = s.left - n]
  BY DEF Rest, Contexts
<1> HIDE DEF k, n
<1>4. /\ k \in Contexts
      /\ k.command = s.command /\ k.status = s.status /\ k.output = s.output
      /\ k.internal = s.internal /\ k.left = s.left - n /\ k.error = s.error
      /\ k.required = s.required /\ k.buffer = s.buffer
  BY <1>2, <1>3 DEF Contexts, Statuses
<1>5. /\ q \in Pasts /\ q.given = p.given /\ q.calls = p.calls
      /\ q.announced = p.announced /\ q.sent = p.sent + n
  BY <1>2 DEF Further, Pasts
<1> HIDE DEF q
<1>6. ASSUME Partly(s, p)
      PROVE  Session(k, q, AfterPart(s))
  <2>1. Owed(k) /\ Full(k) = Full(s)
    BY <1>4, <1>6 DEF Partly, Owed, Full
  <2>2. p.sent \in Nat
    BY DEF Pasts
  <2>3. q.sent + k.left = Full(k)
    BY <1>1, <1>2, <1>4, <1>5, <1>6, <2>1, <2>2 DEF Partly
  <2>4. AfterPart(s) = "response" => q.sent > 0
    BY <1>1, <1>2, <1>5, <2>2 DEF AfterPart, n
  <2>5. AfterPart(s) = "status" => k.left = 0
    BY <1>2, <1>4 DEF AfterPart, n
  <2>6. AfterPart(s) \in {"response", "status"}
    BY DEF AfterPart
  <2>7. Sending(k, q, AfterPart(s))
    BY <1>4, <1>5, <1>6, <2>1, <2>3, <2>4, <2>5, <2>6 DEF Sending, Partly
  <2> QED BY <1>4, <1>5, <1>6, <2>1, <2>6, <2>7 DEF Session, Answer, Partly
<1> QED BY <1>4, <1>5, <1>6 DEF k, n, q

\* The three contexts a part is sent from.
LEMMA SourceHolds ==
  ASSUME NEW s \in Contexts, NEW p \in Pasts
  PROVE  /\ Own(s) \in Contexts /\ Own(s).status = s.status
         /\ NotOwn(s) \in Contexts /\ NotOwn(s).status = s.status
         /\ Session(s, p, "response") =>
              IF s.error # "none" /\ ~s.internal THEN Partly(Own(s), p) /\ Partly(NotOwn(s), p)
                                                 ELSE Partly(s, p)
<1> DEFINE k == Own(s)
           j == NotOwn(s)
<1>1. ErrorSize \in Nat BY SizesAreSizes
<1>2. /\ k \in Contexts
      /\ k.command = s.command /\ k.status = s.status /\ k.internal = TRUE /\ k.left = ErrorSize
      /\ k.output.of = "ccapi" /\ k.error = s.error /\ k.required = s.required
      /\ k.buffer = s.buffer
  BY <1>1 DEF Own, Contexts, Statuses, OutputType
<1>3. s.output \in OutputType /\ s.output.length \in Nat
  BY DEF Contexts, OutputType
<1> DEFINE o == [s.output EXCEPT !.of = "nobody"]
           m == s.output.length
<1>4. o \in OutputType /\ o.of = "nobody" /\ o.length = m
  BY <1>3 DEF OutputType
<1>5. j = [s EXCEPT !.internal = TRUE, !.left = m, !.output = o, !.error = "insufficient_memory"]
  BY DEF NotOwn, Contexts
<1> HIDE DEF k, j, o, m
<1>6. /\ j \in Contexts
      /\ j.command = s.command /\ j.status = s.status /\ j.internal = TRUE /\ j.left = m
      /\ j.output = o /\ j.error = "insufficient_memory" /\ j.required = s.required
      /\ j.buffer = s.buffer
  BY <1>3, <1>4, <1>5 DEF Contexts, Statuses, m
<1>7. ASSUME Session(s, p, "response")
      PROVE  IF s.error # "none" /\ ~s.internal THEN Partly(k, p) /\ Partly(j, p) ELSE Partly(s, p)
  <2>1. /\ s.required /\ Owed(s) /\ s.command = p.given /\ s.status \in {"idle", "free"}
        /\ s.error = "none" => s.buffer = "freed" /\ ~s.internal
        /\ s.error # "none" /\ ~s.internal => s.output = NoOutput
        /\ Sending(s, p, "response")
    BY <1>7 DEF Session, Answer
  <2>2. CASE s.error # "none" /\ ~s.internal
    <3>1. m = 0 /\ Full(s) = 0
      BY <2>1, <2>2 DEF NoOutput, Full, m
    <3>2. p.sent = 0 /\ (p.announced # -1 => p.announced = 0)
      BY <2>1, <2>2, <3>1 DEF Sending, Contexts, Pasts
    <3>3. Full(k) = ErrorSize /\ Full(j) = 0
      BY <1>2, <1>4, <1>6 DEF Full
    <3>4. Partly(k, p)
      BY <1>1, <1>2, <2>1, <2>2, <3>2, <3>3 DEF Partly, Owed
    <3>5. Partly(j, p)
      BY <1>4, <1>6, <2>1, <2>2, <3>1, <3>2, <3>3 DEF Partly, Owed
    <3> QED BY <2>2, <3>4, <3>5
  <2>3. CASE ~(s.error # "none" /\ ~s.internal)
    BY <2>1, <2>3 DEF Partly, Sending
  <2> QED BY <2>2, <2>3
<1> QED BY <1>2, <1>6, <1>7 DEF k, j


-----------------------------------------------------------------------------
(* The steps. *)

LEMMA CliInit == Init => CliInv
<1> SUFFICES ASSUME Init PROVE CliInv
  OBVIOUS
<1>1. /\ context \in [Cell -> Contexts] /\ past \in [Cell -> Pasts] /\ phase \in [Cell -> Phases]
      /\ \A c \in Cell : context[c] = Freed /\ past[c] = NoPast /\ phase[c] = "none"
  BY RecordTypes DEF Init, Phases
<1>2. thread \in Threads
  BY DEF Init, Threads, Places
<1>3. Types
  BY <1>1, <1>2, RecordTypes DEF Init, Types
<1>4. \A c \in Cell : Session(context[c], past[c], phase[c])
  BY <1>1 DEF Session
<1>5. Slot
  BY <1>1, RecordTypes DEF Init, Slot, Token
<1> QED BY <1>3, <1>4, <1>5 DEF CliInv, Sound, Init

LEMMA AfterRequestIs ==
  \A r : AfterRequest(r) \in {"response", "status"} /\ AfterRequest(r) \in Phases
BY DEF AfterRequest, Phases

LEMMA StoredStep ==
  ASSUME CliInv, NEW c \in Cell, NEW s \in Contexts, NEW n \in PacketSizes, NEW more \in BOOLEAN,
         UNCHANGED <<supported, svc_cli, thread, ccfsm, lost, dangling>>,
         Stored(c, s, n, more), context[c].status # "queued",
         ~dangling => Starting(s, past[c])
  PROVE  CliInv'
<1> DEFINE k == Kept(s, n, more)
           q == Given(past[c], n)
<1>0. past[c] \in Pasts /\ past \in [Cell -> Pasts]
  BY DEF CliInv, Types
<1>1. /\ context' = [context EXCEPT ![c] = k] /\ phase' = [phase EXCEPT ![c] = "request"]
      /\ past' = [past EXCEPT ![c] = q]
  BY <1>0 DEF Stored, Kept, Given
<1>2. /\ k \in Contexts /\ q \in Pasts /\ k.status \in {"idle", "ready"}
      /\ ~dangling => Session(k, q, "request")
  BY <1>0, KeptHolds DEF Stored
<1>3. supported /\ lost \in BOOLEAN /\ dangling \in BOOLEAN /\ (~dangling => ~lost)
  BY DEF Stored, CliInv, Types, Sound
<1> HIDE DEF k, q
<1> QED BY <1>1, <1>2, <1>3, CellStep DEF Phases

\* A step of CCFSM to the answer of a session.
LEMMA AnswerStep ==
  ASSUME CliInv, NEW c \in Cell, NEW k \in Contexts, NEW q \in Pasts, NEW ph \in Phases,
         UNCHANGED <<supported, svc_cli, thread, ccfsm, lost, dangling>>,
         context' = [context EXCEPT ![c] = k], past' = [past EXCEPT ![c] = q],
         phase' = [phase EXCEPT ![c] = ph], ph \in {"response", "status"},
         context[c].status # "queued", k.status \in {"idle", "free"},
         ~dangling => Session(k, q, ph)
  PROVE  CliInv'
<1>1. lost \in BOOLEAN /\ dangling \in BOOLEAN /\ (~dangling => ~lost)
  BY DEF CliInv, Types, Sound
<1>2. /\ k.status = "freed" <=> ph = "none"
      /\ ph # "none" /\ ph # "request" /\ k.status # "queued"
  OBVIOUS
<1> QED BY <1>1, <1>2, CellStep

LEMMA RequestFirstStep ==
  ASSUME CliInv, NEW c \in Cell, NEW r \in BOOLEAN, NEW n \in PacketSizes, NEW more \in BOOLEAN,
         RequestFirst(c, r, n, more)
  PROVE  CliInv'
<1> DEFINE s == New(r)
<1>1. /\ s \in Contexts /\ s.status = "idle"
      /\ context[c].status = "freed"
      /\ ~dangling => Starting(s, past[c])
  BY RecordTypes, StartingSessions DEF RequestFirst, Alive, CliInv, Sound, Session, Types
<1>2. [s EXCEPT !.error = "no_cli_support"] = Failed(s, "no_cli_support", "idle")
  <2> HIDE DEF s
  <2> QED BY <1>1 DEF Failed, Contexts
<1>3. [s EXCEPT !.error = "insufficient_memory", !.status = "free"]
        = Failed(s, "insufficient_memory", "free")
  BY DEF New, Failed
<1>4. UNCHANGED <<supported, svc_cli, thread, ccfsm, lost, dangling>>
  BY DEF RequestFirst
<1>5. \/ Refused(c, s) \/ Stored(c, s, n, more) \/ NoMemory(c, s)
      \/ UNCHANGED <<context, phase, past>>
  BY DEF RequestFirst
<1> HIDE DEF s
<1>0. past = [past EXCEPT ![c] = past[c]]
  BY DEF CliInv, Types
<1>6. CASE Refused(c, s)
  <2> DEFINE k == Failed(s, "no_cli_support", "idle")
             q == past[c]
             ph == AfterRequest(s.required)
  <2>1. /\ context' = [context EXCEPT ![c] = k] /\ past' = [past EXCEPT ![c] = q]
        /\ phase' = [phase EXCEPT ![c] = ph]
    BY <1>0, <1>2, <1>6 DEF Refused
  <2>2. q \in Pasts
    BY DEF CliInv, Types
  <2>3. k \in Contexts /\ k.status \in {"idle", "free"} /\ (~dangling => Session(k, q, ph))
    BY <1>1, <2>2, FailedHolds
  <2>4. ph \in Phases /\ ph \in {"response", "status"}
    BY AfterRequestIs
  <2>5. context[c].status # "queued"
    BY <1>1
  <2> HIDE DEF k, q, ph
  <2> QED BY <2>1, <2>2, <2>3, <2>4, <2>5, <1>4, AnswerStep
<1>7. CASE Stored(c, s, n, more)
  BY <1>1, <1>4, <1>7, StoredStep
<1>8. CASE NoMemory(c, s)
  <2> DEFINE k == Failed(s, "insufficient_memory", "free")
             q == past[c]
             ph == AfterRequest(s.required)
  <2>1. /\ context' = [context EXCEPT ![c] = k] /\ past' = [past EXCEPT ![c] = q]
        /\ phase' = [phase EXCEPT ![c] = ph]
    BY <1>0, <1>3, <1>8 DEF NoMemory
  <2>2. q \in Pasts
    BY DEF CliInv, Types
  <2>3. k \in Contexts /\ k.status \in {"idle", "free"} /\ (~dangling => Session(k, q, ph))
    BY <1>1, <2>2, FailedHolds
  <2>4. ph \in Phases /\ ph \in {"response", "status"}
    BY AfterRequestIs
  <2>5. context[c].status # "queued"
    BY <1>1
  <2> HIDE DEF k, q, ph
  <2> QED BY <2>1, <2>2, <2>3, <2>4, <2>5, <1>4, AnswerStep
<1>9. CASE UNCHANGED <<context, phase, past>>
  BY <1>4, <1>9 DEF CliInv, Types, Sound, Slot, Token
<1> QED BY <1>5, <1>6, <1>7, <1>8, <1>9

LEMMA RequestNextStep ==
  ASSUME CliInv, NEW c \in Cell, NEW n \in PacketSizes, NEW more \in BOOLEAN,
         RequestNext(c, n, more)
  PROVE  CliInv'
<1> DEFINE s == context[c]
<1>1. /\ s \in Contexts /\ s.status = "idle" /\ phase[c] = "request"
      /\ ~dangling => Starting(s, past[c])
  BY StartingSessions DEF RequestNext, Serves, CliInv, Types, Sound
<1>2. [s EXCEPT !.error = "insufficient_memory", !.status = "free"]
        = Failed(s, "insufficient_memory", "free")
  BY DEF Failed
<1>3. UNCHANGED <<supported, svc_cli, thread, ccfsm, lost, dangling>>
  BY DEF RequestNext
<1>4. Stored(c, s, n, more) \/ NoMemory(c, s)
  BY DEF RequestNext
<1>5. CASE Stored(c, s, n, more)
  BY <1>1, <1>3, <1>5, StoredStep
<1>6. CASE NoMemory(c, s)
  <2> DEFINE k == Failed(s, "insufficient_memory", "free")
             q == past[c]
             ph == AfterRequest(s.required)
  <2>1. /\ context' = [context EXCEPT ![c] = k] /\ past' = [past EXCEPT ![c] = q]
        /\ phase' = [phase EXCEPT ![c] = ph]
    BY <1>2, <1>6 DEF NoMemory, CliInv, Types
  <2>2. q \in Pasts
    BY DEF CliInv, Types
  <2>3. k \in Contexts /\ k.status \in {"idle", "free"} /\ (~dangling => Session(k, q, ph))
    BY <1>1, <2>2, FailedHolds
  <2>4. ph \in Phases /\ ph \in {"response", "status"}
    BY AfterRequestIs
  <2>5. context[c].status # "queued"
    BY <1>1
  <2> HIDE DEF k, q, ph
  <2> QED BY <2>1, <2>2, <2>3, <2>4, <2>5, <1>3, AnswerStep
<1> QED BY <1>4, <1>5, <1>6

LEMMA RequestProcessedStep ==
  ASSUME CliInv, NEW c \in Cell, RequestProcessed(c)
  PROVE  CliInv'
<1> DEFINE s == context[c]
           k == Done(s)
           ph == AfterRequest(s.required)
<1>1. s \in Contexts /\ past[c] \in Pasts /\ past' = [past EXCEPT ![c] = past[c]]
  BY DEF CliInv, Types, RequestProcessed
<1>2. s.status = "processed" /\ (~dangling => Session(s, past[c], "request"))
  BY DEF RequestProcessed, Serves, CliInv, Sound
<1>3. k \in Contexts /\ k.status = "free" /\ (~dangling => Session(k, past[c], ph))
  BY <1>1, <1>2, DoneHolds
<1>4. ph \in Phases /\ ph \in {"response", "status"}
  BY AfterRequestIs
<1>5. /\ context' = [context EXCEPT ![c] = k] /\ phase' = [phase EXCEPT ![c] = ph]
      /\ UNCHANGED <<supported, svc_cli, thread, ccfsm, lost, dangling>>
  BY DEF RequestProcessed, Done
<1> HIDE DEF k, ph
<1> QED BY <1>1, <1>2, <1>3, <1>4, <1>5, AnswerStep


LEMMA ResponseLengthStep ==
  ASSUME CliInv, NEW c \in Cell, ResponseLength(c)
  PROVE  CliInv'
<1> DEFINE k == context[c]
           q == Announced(past[c], k.left)
<1>1. /\ k \in Contexts /\ past[c] \in Pasts /\ past[c].sent = 0
      /\ phase[c] = "response" /\ k.status # "freed"
  BY DEF ResponseLength, CliInv, Types
<1>2. /\ q \in Pasts
      /\ ~dangling => Session(k, q, "response")
  BY <1>1, AnnouncedHolds DEF CliInv, Sound
<1>3. /\ context' = [context EXCEPT ![c] = k] /\ past' = [past EXCEPT ![c] = q]
      /\ phase' = [phase EXCEPT ![c] = "response"]
      /\ UNCHANGED <<supported, svc_cli, thread, ccfsm, lost, dangling>>
  BY <1>1 DEF ResponseLength, Announced, CliInv, Types
<1>4. ~dangling => k.status # "queued"
  BY <1>2 DEF Session, Answer
<1>5. lost \in BOOLEAN /\ dangling \in BOOLEAN /\ (~dangling => ~lost)
  BY DEF CliInv, Types, Sound
<1>6. context[c].status # "queued" <=> k.status # "queued"
  OBVIOUS
<1> HIDE DEF k, q
<1> QED BY <1>1, <1>2, <1>3, <1>4, <1>5, <1>6, CellStep DEF Phases

\* A part is sent from a context that is partly sent.
LEMMA PartStep ==
  ASSUME CliInv, NEW c \in Cell, NEW s \in Contexts, phase[c] = "response",
         UNCHANGED <<supported, svc_cli, thread, ccfsm, lost, dangling>>,
         SendPart(c, s), s.status = context[c].status, ~dangling => Partly(s, past[c])
  PROVE  CliInv'
<1> DEFINE k == Rest(s)
           q == Further(past[c], Part(s))
           ph == AfterPart(s)
<1>1. past[c] \in Pasts /\ context[c].status # "freed"
  BY DEF CliInv, Types
<1>2. /\ k \in Contexts /\ q \in Pasts /\ k.status = context[c].status
      /\ ~dangling => Session(k, q, ph)
  BY <1>1, RestHolds
<1>3. /\ context' = [context EXCEPT ![c] = k] /\ past' = [past EXCEPT ![c] = q]
      /\ phase' = [phase EXCEPT ![c] = ph]
  BY DEF SendPart, Rest, Further, AfterPart, CliInv, Types
<1>4. ph \in Phases /\ ph # "none" /\ ph # "request"
  BY DEF AfterPart, Phases
<1>5. ~dangling => context[c].status # "queued"
  BY DEF Partly
<1>6. lost \in BOOLEAN /\ dangling \in BOOLEAN /\ (~dangling => ~lost)
  BY DEF CliInv, Types, Sound
<1>7. /\ k.status = "freed" <=> ph = "none"
      /\ ph = "none" => k = Freed
      /\ ~dangling => k.status # "queued"
  BY <1>1, <1>2, <1>4, <1>5
<1> HIDE DEF k, q, ph
<1> QED BY <1>2, <1>3, <1>4, <1>5, <1>6, <1>7, CellStep

LEMMA ResponseStep ==
  ASSUME CliInv, NEW c \in Cell, Response(c)
  PROVE  CliInv'
<1> DEFINE s == context[c]
<1>1. /\ s \in Contexts /\ past[c] \in Pasts /\ phase[c] = "response"
      /\ ~dangling => Session(s, past[c], "response")
  BY DEF Response, CliInv, Types, Sound
<1>2. UNCHANGED <<supported, svc_cli, thread, ccfsm, lost, dangling>>
  BY DEF Response
<1>3. /\ Own(s) \in Contexts /\ Own(s).status = s.status
      /\ NotOwn(s) \in Contexts /\ NotOwn(s).status = s.status
      /\ ~dangling => IF AnswersItself(c) THEN Partly(Own(s), past[c]) /\ Partly(NotOwn(s), past[c])
                                          ELSE Partly(s, past[c])
  BY <1>1, SourceHolds DEF AnswersItself
<1>4. \/ ~AnswersItself(c) /\ SendPart(c, s)
      \/ AnswersItself(c) /\ SendPart(c, Own(s))
      \/ AnswersItself(c) /\ SendPart(c, NotOwn(s))
  BY DEF Response, Filled, NotFilled, Own, NotOwn
<1>5. CASE ~AnswersItself(c) /\ SendPart(c, s)
  BY <1>1, <1>2, <1>3, <1>5, PartStep
<1>6. CASE AnswersItself(c) /\ SendPart(c, Own(s))
  BY <1>1, <1>2, <1>3, <1>6, PartStep
<1>7. CASE AnswersItself(c) /\ SendPart(c, NotOwn(s))
  BY <1>1, <1>2, <1>3, <1>7, PartStep
<1> QED BY <1>4, <1>5, <1>6, <1>7

LEMMA StatusStep ==
  ASSUME CliInv, NEW c \in Cell, NEW st, Status(c, st)
  PROVE  CliInv'
<1>1. /\ context' = [context EXCEPT ![c] = Freed] /\ past' = [past EXCEPT ![c] = NoPast]
      /\ phase' = [phase EXCEPT ![c] = "none"]
      /\ UNCHANGED <<supported, svc_cli, thread, ccfsm>>
  BY DEF Status
<1>2. /\ lost' = (lost \/ (context[c].output.of = "user" /\ ~GivenBack(c)))
      /\ dangling' = (dangling \/ UnderThread(c)) /\ phase[c] # "none"
  BY DEF Status
<1>3. lost' \in BOOLEAN /\ dangling' \in BOOLEAN
  BY <1>2 DEF CliInv, Types
<1>4. ASSUME ~dangling'
      PROVE  ~dangling /\ ~lost' /\ context[c].status # "queued"
  <2>1. /\ ~dangling /\ ~UnderThread(c)
        /\ Slot /\ ~lost /\ Session(context[c], past[c], phase[c])
    BY <1>2, <1>4 DEF CliInv, Sound
  <2>2. context[c].status # "queued"
    BY <2>1 DEF Slot, UnderThread
  <2>3. context[c].output.of = "user" => GivenBack(c)
    BY <1>2, <2>1 DEF Session, Owed, GivenBack
  <2> QED BY <1>2, <2>1, <2>2, <2>3
<1>5. Session(Freed, NoPast, "none")
  BY DEF Session
<1> QED BY <1>1, <1>3, <1>4, <1>5, RecordTypes, CellStep DEF Phases


LEMMA RequestQueuedStep ==
  ASSUME CliInv, NEW c \in Cell, RequestQueued(c)
  PROVE  CliInv'
<1> DEFINE k == [context[c] EXCEPT !.status = "queued"]
<1>1. /\ phase[c] = "request" /\ context[c].status = "ready" /\ svc_cli = Null /\ ccfsm
      /\ context' = [context EXCEPT ![c] = k] /\ svc_cli' = c
      /\ thread' = [thread EXCEPT !.lock = @ + 1]
      /\ UNCHANGED <<supported, phase, ccfsm, past, lost, dangling>>
  BY DEF RequestQueued, Serves, NobodyQueued
<1>2. /\ context[c] \in Contexts /\ past[c] \in Pasts
      /\ thread \in Threads /\ context \in [Cell -> Contexts]
  BY DEF CliInv, Types
<1>3. /\ k \in Contexts /\ k.status = "queued" /\ k.command = context[c].command
      /\ k.required = context[c].required /\ k.buffer = context[c].buffer
      /\ k.output = context[c].output /\ k.internal = context[c].internal
      /\ k.left = context[c].left /\ k.error = context[c].error
  BY <1>2 DEF Contexts, Statuses
<1>4. /\ thread' \in Threads /\ thread'.lock = thread.lock + 1 /\ thread'.at = thread.at
      /\ thread'.status = thread.status /\ thread'.held = thread.held
      /\ thread'.wants = thread.wants /\ thread.lock \in Nat /\ thread.at \in Places
  BY <1>1, <1>2 DEF Threads
<1> HIDE DEF k
<1>5. /\ context' \in [Cell -> Contexts] /\ context'[c] = k
      /\ \A d \in Cell \ {c} : context'[d] = context[d]
  BY <1>1, <1>2, <1>3
<1>6. Types'
  BY <1>1, <1>3, <1>4, <1>5 DEF CliInv, Types
<1>7. ASSUME ~dangling
      PROVE  Slot' /\ \A d \in Cell : Session(context'[d], past[d], phase[d])
  <2>1. /\ Slot /\ \A d \in Cell : Session(context[d], past[d], phase[d])
    BY <1>7 DEF CliInv, Sound
  <2>2. Command(context[c], past[c]) /\ past[c].calls = 0
    BY <1>1, <2>1 DEF Session, Command
  <2>3. Session(k, past[c], phase[c])
    BY <1>1, <1>3, <2>1, <2>2 DEF Session, Command, Owed
  <2>4. supported /\ thread.status = "running" /\ thread.lock + Token = 0
    BY <1>1, <2>1 DEF Slot
  <2>5. thread.lock = 0 /\ thread.at \in {"acquire", "stopped"}
    BY <2>4, <1>4 DEF Token, Places
  <2>6. \A d \in Cell : context'[d].status = "queued" => d = c
    BY <1>1, <1>5, <2>1, NullIsNoCell DEF Slot
  <2>7. Slot'
    BY <1>1, <1>3, <1>4, <1>5, <2>1, <2>2, <2>4, <2>5, <2>6, NullIsNoCell DEF Slot, Token
  <2> QED BY <1>1, <1>5, <2>1, <2>3, <2>7
<1> QED BY <1>1, <1>6, <1>7 DEF CliInv, Sound

\* Steps that change the thread and nothing of a session.
LEMMA ThreadStep ==
  ASSUME CliInv, thread' \in Threads, svc_cli' \in {svc_cli, Null},
         UNCHANGED <<supported, context, phase, past, lost, dangling>>, ccfsm' \in BOOLEAN,
         thread'.at \in {"callback", "update"} => thread'.held \in Cell,
         thread'.at = "stopped" <=> thread'.status = "not_started",
         ~dangling => Slot'
  PROVE  CliInv'
<1>1. Types'
  BY DEF CliInv, Types
<1> QED BY <1>1 DEF CliInv, Sound

LEMMA ThreadAcquireStep ==
  ASSUME CliInv, ThreadAcquire
  PROVE  CliInv'
<1>1. /\ thread.at = "acquire" /\ thread.lock > 0 /\ thread \in Threads /\ thread.lock \in Nat
      /\ thread' = [thread EXCEPT !.lock = @ - 1, !.at = "check"]
      /\ UNCHANGED <<supported, context, svc_cli, phase, ccfsm, past, lost, dangling>>
  BY DEF ThreadAcquire, At, CliInv, Types, Threads
<1>2. /\ thread' \in Threads /\ thread'.at = "check" /\ thread'.lock = thread.lock - 1
      /\ thread'.status = thread.status /\ thread'.held = thread.held
  <2> DEFINE n == thread.lock - 1
  <2>1. n \in Nat BY <1>1
  <2>2. thread' = [thread EXCEPT !.lock = n, !.at = "check"]
    BY <1>1 DEF Threads
  <2> HIDE DEF n
  <2>3. /\ thread' \in Threads /\ thread'.at = "check" /\ thread'.lock = n
        /\ thread'.status = thread.status /\ thread'.held = thread.held
    BY <1>1, <2>1, <2>2 DEF Threads, Places
  <2> QED BY <2>3 DEF n
<1>3. ASSUME ~dangling PROVE Slot'
  <2>1. Slot BY <1>3 DEF CliInv, Sound
  <2>2. svc_cli # Null => context[svc_cli].status = "queued" /\ past[svc_cli].calls = 0
    BY <1>1, <2>1 DEF Slot
  <2> QED BY <1>1, <1>2, <2>1, <2>2 DEF Slot, Token
<1>4. ccfsm' \in BOOLEAN /\ thread.status # "not_started"
  BY <1>1 DEF CliInv, Types
<1> QED BY <1>1, <1>2, <1>3, <1>4, ThreadStep

LEMMA ThreadEndsStep ==
  ASSUME CliInv, ThreadEnds
  PROVE  CliInv'
<1>1. /\ thread.at = "check" /\ (thread.status = "request_stop" \/ ~CommandQueued)
      /\ thread \in Threads /\ thread.lock \in Nat
      /\ thread' = [thread EXCEPT !.status = "not_started", !.at = "stopped"]
      /\ UNCHANGED <<supported, context, svc_cli, phase, ccfsm, past, lost, dangling>>
  BY DEF ThreadEnds, At, CliInv, Types, Threads
<1>2. /\ thread' \in Threads /\ thread'.at = "stopped" /\ thread'.status = "not_started"
  BY <1>1 DEF Threads, Places
<1>3. ASSUME ~dangling PROVE Slot'
  <2>1. Slot BY <1>3 DEF CliInv, Sound
  <2>2. thread.status # "running"
    BY <1>1, <2>1 DEF Slot, Token, CommandQueued
  <2> QED BY <1>1, <1>2, <2>1, <2>2 DEF Slot, Token
<1>4. ccfsm' \in BOOLEAN BY <1>1 DEF CliInv, Types
<1> QED BY <1>1, <1>2, <1>3, <1>4, ThreadStep

LEMMA ThreadClearsStep ==
  ASSUME CliInv, ThreadClears
  PROVE  CliInv'
<1>1. /\ thread.at = "clear" /\ thread \in Threads /\ thread.lock \in Nat /\ svc_cli' = Null
      /\ thread' = IF thread.status = "running" THEN [thread EXCEPT !.at = "acquire"]
                   ELSE [thread EXCEPT !.status = "not_started", !.at = "stopped"]
      /\ UNCHANGED <<supported, context, phase, ccfsm, past, lost, dangling>>
  BY DEF ThreadClears, At, SlotAfter, CliInv, Types, Threads
<1>2. /\ thread' \in Threads /\ thread'.lock = thread.lock
      /\ IF thread.status = "running" THEN thread'.status = "running" /\ thread'.at = "acquire"
         ELSE thread'.status = "not_started" /\ thread'.at = "stopped"
  BY <1>1 DEF Threads, Places
<1>3. ASSUME ~dangling PROVE Slot'
  <2>1. Slot BY <1>3 DEF CliInv, Sound
  <2>2. \A c \in Cell : context[c].status # "queued"
    BY <1>1, <2>1 DEF Slot
  <2>3. thread.status = "running" => thread.lock = 0
    BY <1>1, <2>1 DEF Slot, Token
  <2> QED BY <1>1, <1>2, <2>1, <2>2, <2>3 DEF Slot, Token
<1>4. ccfsm' \in BOOLEAN BY <1>1 DEF CliInv, Types
<1> QED BY <1>1, <1>2, <1>3, <1>4, ThreadStep

LEMMA StopThreadStep ==
  ASSUME CliInv, StopThread
  PROVE  CliInv'
<1>1. /\ supported /\ thread \in Threads /\ thread.lock \in Nat /\ ccfsm' = FALSE
      /\ thread' = [thread EXCEPT !.lock = @ + 1,
                      !.status = IF @ = "running" THEN "request_stop" ELSE @]
      /\ UNCHANGED <<supported, context, svc_cli, phase, past, lost, dangling>>
  BY DEF StopThread, CliInv, Types, Threads
<1>2. /\ thread' \in Threads /\ thread'.at = thread.at /\ thread'.status # "running"
      /\ thread'.status = "not_started" <=> thread.status = "not_started"
      /\ thread'.held = thread.held /\ thread'.wants = thread.wants
  <2> DEFINE n == thread.lock + 1
             st == IF thread.status = "running" THEN "request_stop" ELSE thread.status
  <2>1. /\ n \in Nat /\ st \in {"request_stop", "not_started"}
        /\ st = "not_started" <=> thread.status = "not_started"
    BY <1>1 DEF Threads
  <2>2. thread' = [thread EXCEPT !.lock = n, !.status = st]
    BY <1>1 DEF Threads
  <2> HIDE DEF n, st
  <2> QED BY <1>1, <2>1, <2>2 DEF Threads
<1>3. ASSUME ~dangling PROVE Slot'
  <2>1. Slot BY <1>3 DEF CliInv, Sound
  <2> QED BY <1>1, <1>2, <2>1 DEF Slot, Token
<1>4. /\ thread'.at \in {"callback", "update"} => thread'.held \in Cell
      /\ thread'.at = "stopped" <=> thread'.status = "not_started"
  BY <1>2 DEF CliInv, Types
<1> QED BY <1>1, <1>2, <1>3, <1>4, ThreadStep


LEMMA ThreadCallsStep ==
  ASSUME CliInv, ThreadCalls
  PROVE  CliInv'
<1>1. /\ thread.at = "check" /\ svc_cli \in Cell /\ thread \in Threads
      /\ context \in [Cell -> Contexts] /\ past \in [Cell -> Pasts]
      /\ UNCHANGED <<supported, context, svc_cli, phase, ccfsm, lost, dangling>>
  BY DEF ThreadCalls, At, CliInv, Types
<1>2. PICK wants \in IF Alive(svc_cli) THEN {context[svc_cli].required} ELSE BOOLEAN :
        thread' = [thread EXCEPT !.at = "callback", !.held = svc_cli, !.wants = wants]
  BY DEF ThreadCalls
<1>3. past' = IF Alive(svc_cli) THEN [past EXCEPT ![svc_cli].calls = @ + 1] ELSE past
  BY DEF ThreadCalls
<1>4. wants \in BOOLEAN
  BY <1>1 DEF Contexts
<1>5. /\ thread' \in Threads /\ thread'.at = "callback" /\ thread'.held = svc_cli
      /\ thread'.wants = wants /\ thread'.lock = thread.lock /\ thread'.status = thread.status
  BY <1>1, <1>2, <1>4 DEF Threads, Places
<1> DEFINE q == [past[svc_cli] EXCEPT !.calls = @ + 1]
<1>6. /\ q \in Pasts /\ q.given = past[svc_cli].given /\ q.calls = past[svc_cli].calls + 1
      /\ q.announced = past[svc_cli].announced /\ q.sent = past[svc_cli].sent
  BY <1>1 DEF Pasts
<1>7. past' = IF Alive(svc_cli) THEN [past EXCEPT ![svc_cli] = q] ELSE past
  BY <1>1, <1>3
<1> HIDE DEF q
<1>8. past' \in [Cell -> Pasts]
  BY <1>1, <1>6, <1>7
<1>9. Types'
  BY <1>1, <1>5, <1>8 DEF CliInv, Types
<1>10. ASSUME ~dangling
       PROVE  Slot' /\ \A d \in Cell : Session(context[d], past'[d], phase[d])
  <2>1. /\ Slot /\ \A d \in Cell : Session(context[d], past[d], phase[d])
    BY <1>10 DEF CliInv, Sound
  <2>2. /\ context[svc_cli].status = "queued" /\ past[svc_cli].calls = 0
    BY <1>1, <2>1, NullIsNoCell DEF Slot
  <2>3. Alive(svc_cli) /\ wants = context[svc_cli].required
    BY <2>2, RecordTypes DEF Alive
  <2>4. /\ past'[svc_cli] = q /\ q.calls = 1
        /\ \A d \in Cell \ {svc_cli} : past'[d] = past[d]
    BY <1>1, <1>6, <1>7, <2>2, <2>3
  <2>5. phase[svc_cli] = "request"
    BY <1>1, <2>1, <2>2, RecordTypes DEF Session, Answer, CliInv, Types, Phases
  <2>6. Session(context[svc_cli], q, phase[svc_cli])
    BY <1>1, <1>6, <2>1, <2>2, <2>5 DEF Session, Command
  <2>7. Slot'
    BY <1>1, <1>5, <2>1, <2>2, <2>3, <2>4 DEF Slot, Token
  <2> QED BY <1>1, <2>1, <2>4, <2>6, <2>7
<1> QED BY <1>1, <1>9, <1>10 DEF CliInv, Sound

LEMMA ThreadReturnsStep ==
  ASSUME CliInv, NEW output \in Outputs, ThreadReturns(output)
  PROVE  CliInv'
<1> DEFINE h == thread.held
           k == [context[h] EXCEPT !.output = output]
<1>1. /\ thread.at = "callback" /\ h \in Cell /\ thread \in Threads
      /\ context \in [Cell -> Contexts] /\ output \in OutputType
      /\ output # NoOutput => thread.wants
      /\ thread' = [thread EXCEPT !.at = "update"]
      /\ UNCHANGED <<supported, svc_cli, phase, ccfsm, past, dangling>>
  BY RecordTypes DEF ThreadReturns, At, CliInv, Types
<1>2. IF Alive(h)
      THEN /\ context' = IF thread.wants THEN [context EXCEPT ![h] = k] ELSE context
           /\ lost' = lost
      ELSE lost' = (lost \/ output # NoOutput) /\ context' = context
  BY DEF ThreadReturns
<1>3. /\ thread' \in Threads /\ thread'.at = "update" /\ thread'.held = h
      /\ thread'.wants = thread.wants /\ thread'.lock = thread.lock
      /\ thread'.status = thread.status
  BY <1>1 DEF Threads, Places
<1>4. /\ k \in Contexts /\ k.status = context[h].status /\ k.command = context[h].command
      /\ k.required = context[h].required /\ k.buffer = context[h].buffer
      /\ k.output = output /\ k.internal = context[h].internal
      /\ k.left = context[h].left /\ k.error = context[h].error
  BY <1>1 DEF Contexts
<1>5. output.of \in {"user", "nobody"} /\ (output.of = "nobody" => output.length = 0)
  BY DEF Outputs, NoOutput
<1> HIDE DEF h, k
<1>6. lost' \in BOOLEAN
  BY <1>2 DEF CliInv, Types
<1>7. /\ context' \in [Cell -> Contexts]
      /\ \A d \in Cell \ {h} : context'[d] = context[d]
      /\ context'[h] = context[h] \/ context'[h] = k
  BY <1>1, <1>2, <1>4
<1>8. \A d \in Cell : /\ phase[d] = "none" <=> context'[d].status = "freed"
                      /\ phase[d] = "none" => context'[d] = Freed
  <2>1. \A d \in Cell : /\ phase[d] = "none" <=> context[d].status = "freed"
                        /\ phase[d] = "none" => context[d] = Freed
    BY DEF CliInv, Types
  <2>2. Alive(h) => phase[h] # "none"
    BY <1>1, <2>1 DEF Alive
  <2> QED BY <1>1, <1>2, <1>4, <1>7, <2>1, <2>2
<1>9. Types'
  BY <1>1, <1>3, <1>6, <1>7, <1>8 DEF CliInv, Types, h
<1>10. ASSUME ~dangling
       PROVE  Slot' /\ ~lost' /\ \A d \in Cell : Session(context'[d], past[d], phase[d])
  <2>1. /\ Slot /\ ~lost /\ \A d \in Cell : Session(context[d], past[d], phase[d])
    BY <1>10 DEF CliInv, Sound
  <2>2. /\ h = svc_cli /\ context[h].status = "queued" /\ past[h].calls = 1
        /\ thread.wants = context[h].required
    BY <1>1, <2>1 DEF Slot, h
  <2>3. Alive(h) /\ lost' = lost
    BY <1>2, <2>2, RecordTypes DEF Alive
  <2>4. phase[h] = "request"
    BY <1>1, <2>1, <2>2, RecordTypes DEF Session, Answer, CliInv, Types, Phases
  <2>5. ASSUME context'[h] = k, thread.wants
        PROVE  Session(k, past[h], phase[h])
    <3>1. Command(context[h], past[h]) /\ context[h].command = past[h].given
      BY <1>1, <2>1, <2>4 DEF Session
    <3> QED BY <1>4, <1>5, <2>2, <2>4, <2>5, <3>1 DEF Session, Command, Owed
  <2>6. context'[h] = context[h] \/ (context'[h] = k /\ thread.wants)
    BY <1>1, <1>2, <1>7, <2>3
  <2>7. /\ context'[h].status = "queued" /\ context'[h].required = context[h].required
        /\ \A d \in Cell : context'[d].status = "queued" => context[d].status = "queued"
    BY <1>1, <1>4, <1>7, <2>2
  <2>8. Slot'
    BY <1>1, <1>3, <2>1, <2>2, <2>7 DEF Slot, Token, h
  <2> QED BY <1>1, <1>7, <2>1, <2>3, <2>5, <2>6, <2>8
<1> QED BY <1>1, <1>9, <1>10 DEF CliInv, Sound

LEMMA ThreadUpdatesStep ==
  ASSUME CliInv, ThreadUpdates
  PROVE  CliInv'
<1> DEFINE h == thread.held
           k == [context[h] EXCEPT !.status = "processed"]
<1>1. /\ thread.at = "update" /\ h \in Cell /\ thread \in Threads
      /\ context \in [Cell -> Contexts]
      /\ thread' = [thread EXCEPT !.at = "clear"]
      /\ UNCHANGED <<supported, svc_cli, phase, ccfsm, past, lost, dangling>>
  BY DEF ThreadUpdates, At, CliInv, Types
<1>2. context' = IF Alive(h) /\ context[h].status = "queued" THEN [context EXCEPT ![h] = k]
                 ELSE context
  BY DEF ThreadUpdates
<1>3. /\ thread' \in Threads /\ thread'.at = "clear" /\ thread'.held = h
      /\ thread'.lock = thread.lock /\ thread'.status = thread.status
  BY <1>1 DEF Threads, Places
<1>4. /\ k \in Contexts /\ k.status = "processed" /\ k.command = context[h].command
      /\ k.required = context[h].required /\ k.buffer = context[h].buffer
      /\ k.output = context[h].output /\ k.internal = context[h].internal
      /\ k.left = context[h].left /\ k.error = context[h].error
  BY <1>1 DEF Contexts, Statuses
<1> HIDE DEF h, k
<1>5. /\ context' \in [Cell -> Contexts]
      /\ \A d \in Cell \ {h} : context'[d] = context[d]
      /\ context'[h] = IF Alive(h) /\ context[h].status = "queued" THEN k ELSE context[h]
  BY <1>1, <1>2, <1>4
<1>6. Types'
  BY <1>1, <1>3, <1>4, <1>5, RecordTypes DEF CliInv, Types
<1>7. ASSUME ~dangling
      PROVE  Slot' /\ \A d \in Cell : Session(context'[d], past[d], phase[d])
  <2>1. /\ Slot /\ \A d \in Cell : Session(context[d], past[d], phase[d])
    BY <1>7 DEF CliInv, Sound
  <2>2. h = svc_cli /\ context[h].status = "queued"
    BY <1>1, <2>1 DEF Slot, h
  <2>3. context'[h] = k
    BY <1>5, <2>2, RecordTypes DEF Alive
  <2>4. phase[h] = "request"
    BY <1>1, <2>1, <2>2, RecordTypes DEF Session, Answer, CliInv, Types, Phases
  <2>5. Session(k, past[h], phase[h])
    <3>1. Command(context[h], past[h]) /\ context[h].command = past[h].given /\ Owed(context[h])
      BY <1>1, <2>1, <2>4 DEF Session
    <3> QED BY <1>4, <2>2, <2>4, <3>1 DEF Session, Command, Owed
  <2>6. \A d \in Cell : context'[d].status # "queued"
    BY <1>4, <1>5, <2>1, <2>2, <2>3 DEF Slot
  <2>7. Slot'
    BY <1>1, <1>3, <2>1, <2>6 DEF Slot, Token
  <2> QED BY <1>1, <1>5, <2>1, <2>3, <2>5, <2>7
<1> QED BY <1>1, <1>6, <1>7 DEF CliInv, Sound

LEMMA CliNext == CliInv /\ [Next]_vars => CliInv'
<1> SUFFICES ASSUME CliInv, [Next]_vars PROVE CliInv'
  OBVIOUS
<1>1. ASSUME NEW c \in Cell, NEW n \in PacketSizes, NEW more \in BOOLEAN,
             RequestNext(c, n, more) \/ \E required \in BOOLEAN : RequestFirst(c, required, n, more)
      PROVE  CliInv'
  BY <1>1, RequestNextStep, RequestFirstStep
<1>2. ASSUME NEW c \in Cell,
             RequestQueued(c) \/ RequestProcessed(c) \/ ResponseLength(c) \/ Response(c)
      PROVE  CliInv'
  BY <1>2, RequestQueuedStep, RequestProcessedStep, ResponseLengthStep, ResponseStep
<1>3. ASSUME NEW c \in Cell, NEW st \in {"success", "cancel", "error"}, Status(c, st)
      PROVE  CliInv'
  BY <1>3, StatusStep
<1>4. CASE ThreadNext
  BY <1>4, ThreadAcquireStep, ThreadEndsStep, ThreadCallsStep, ThreadUpdatesStep,
     ThreadClearsStep, ThreadReturnsStep DEF ThreadNext
<1>5. CASE StopThread
  BY <1>5, StopThreadStep
<1>6. CASE UNCHANGED vars
  BY <1>6 DEF vars, CliInv, Types, Sound, Slot, Token
<1> QED BY <1>1, <1>2, <1>3, <1>4, <1>5, <1>6 DEF Next

-----------------------------------------------------------------------------
(* The properties. *)

LEMMA SessionFollows == CliInv => SessionHolds
<1> SUFFICES ASSUME CliInv PROVE SessionHolds
  OBVIOUS
<1>1. TypeOK
  <2>1. ASSUME NEW c \in Cell
        PROVE  /\ context[c].status \in Statuses
               /\ context[c].required \in BOOLEAN /\ context[c].internal \in BOOLEAN
               /\ context[c].command \in 0..MaxLength
               /\ context[c].buffer \in {"none", "held", "freed"}
               /\ context[c].output.of \in {"nobody", "user", "ccapi"}
               /\ context[c].output.length \in Nat /\ context[c].left \in Nat
               /\ context[c].error \in {"none", "no_cli_support", "insufficient_memory"}
               /\ Alive(c) <=> phase[c] # "none"
    <3>1. context[c] \in Contexts BY DEF CliInv, Types
    <3>2. Alive(c) <=> phase[c] # "none"
      BY RecordTypes DEF Alive, CliInv, Types
    <3> QED BY <3>1, <3>2 DEF Contexts, OutputType
  <2>2. /\ thread.status \in {"running", "request_stop", "not_started"} /\ thread.lock \in Nat
        /\ thread.at \in Places /\ thread.held \in Cell \cup {Null} /\ thread.wants \in BOOLEAN
    BY DEF CliInv, Types, Threads
  <2>3. svc_cli \in Cell \cup {Null} /\ phase \in [Cell -> Phases]
    BY DEF CliInv, Types
  <2> QED BY <2>1, <2>2, <2>3 DEF TypeOK, Statuses, Places, Phases
<1>2. SlotIsQueued
  BY DEF SlotIsQueued, At, CommandQueued, CliInv, Types, Sound, Slot, Token, Threads
<1>3. CommandIsWhole
  <2> SUFFICES ASSUME ~dangling, thread.at = "callback"
               PROVE  /\ context[thread.held].status = "queued"
                      /\ context[thread.held].buffer = "held"
                      /\ context[thread.held].command = past[thread.held].given
                      /\ past[thread.held].calls = 1
    BY DEF CommandIsWhole, At
  <2> DEFINE h == thread.held
  <2>1. h \in Cell /\ context[h].status = "queued" /\ past[h].calls = 1
    BY DEF CliInv, Types, Sound, Slot
  <2>2. Session(context[h], past[h], phase[h]) /\ phase[h] \in Phases
    BY <2>1 DEF CliInv, Types, Sound
  <2>3. phase[h] = "request"
    BY <2>1, <2>2, RecordTypes DEF Session, Answer, Phases
  <2> QED BY <2>1, <2>2, <2>3 DEF Session, Command
<1> QED BY <1>1, <1>2, <1>3 DEF SessionHolds

LEMMA AnswerFollows == CliInv => AnswerHolds
<1> SUFFICES ASSUME CliInv PROVE AnswerHolds
  OBVIOUS
<1>1. ASSUME NEW c \in Cell, ~dangling, phase[c] \in {"response", "status"}
      PROVE  Answer(context[c], past[c], phase[c])
  BY <1>1 DEF CliInv, Sound, Session
<1>2. ASSUME NEW c \in Cell, ~dangling, phase[c] = "status", context[c].required
      PROVE  /\ past[c].sent = Full(context[c])
             /\ past[c].announced # -1 =>
                  past[c].announced = IF context[c].internal THEN 0 ELSE past[c].sent
  <2>1. Sending(context[c], past[c], "status")
    BY <1>1, <1>2 DEF Answer
  <2>2. past[c].sent \in Nat
    BY DEF CliInv, Types, Pasts
  <2> QED BY <2>1, <2>2 DEF Sending
<1>3. OutputIsWhole
  BY <1>2 DEF OutputIsWhole, Full
<1>4. OutputComesBack
  BY DEF OutputComesBack, CliInv, Sound
<1>5. CommandIsFreed
  BY <1>1 DEF CommandIsFreed, Answer
<1> QED BY <1>3, <1>4, <1>5 DEF AnswerHolds

\* Whatever CCFSM, the thread and the application do, the session in the slot
\* is queued when the thread looks, and the application is called once with the
\* whole command, as long as no context is freed under the thread
\* (ccapi_sm_handler.c:46-52).
THEOREM SessionCorrect == Spec => []SessionHolds
<1>1. Init => CliInv BY CliInit
<1>2. CliInv /\ [Next]_vars => CliInv' BY CliNext
<1>3. CliInv => SessionHolds BY SessionFollows
<1> QED BY <1>1, <1>2, <1>3, PTL DEF Spec

\* The output is sent once and whole with its null, and the command and the
\* output go back to who allocated them, for all sizes of parts and outputs
\* (ccapi_sm_handler.c:205, :286-304, :339).
THEOREM AnswerCorrect == Spec => []AnswerHolds
<1>1. Init => CliInv BY CliInit
<1>2. CliInv /\ [Next]_vars => CliInv' BY CliNext
<1>3. CliInv => AnswerHolds BY AnswerFollows
<1> QED BY <1>1, <1>2, <1>3, PTL DEF Spec
=============================================================================
