-------------------------- MODULE BuildReviewProofs --------------------------
(* Proofs about BuildLease and BuildReview: the worker protocol by itself,   *)
(* then with the finalization of a review running inside it, for any number  *)
(* of workers, builds, handlers, reviewers and kinds of approval and any     *)
(* bound on time, claims and uploads.                                        *)
(*                                                                           *)
(* A handler writes long after it read.  What makes its write sound is that  *)
(* the lease token names one attempt of one build: no token in flight is     *)
(* newer than the last one issued, and a row that still carries a handler's  *)
(* token is still in the attempt the handler read.  LeaseInv says so.        *)
(*                                                                           *)
(* The handlers of a review write none of the worker protocol's state but    *)
(* rows that are cancelled or failed, the status of the request and the      *)
(* approvals; so what the first part shows of the protocol alone holds of    *)
(* the composition too, and on it rests what the rows say of the request.    *)
EXTENDS BuildReview, TLAPS

(* The row still carries the token of the call c, and is leased. *)
StillHolds(c) ==
    /\ builds[c.build].token = c.token
    /\ builds[c.build].status = "leased"

(* What a handler in flight may rely on when it writes: no token is newer    *)
(* than the last one issued and no clock reading lies in the future; an      *)
(* upload whose token is still on the row was started in its attempt and     *)
(* filed its bytes under it; a success saw an artifact in its attempt.       *)
CallBound(c) ==
    c # Idle =>
        /\ c.token <= issued
        /\ c.ts <= now
        /\ c.at \in {"put", "record"} /\ StillHolds(c) =>
             c.attempt = builds[c.build].attempt
        /\ c.at = "record" =>
             /\ c.key \in Keys
             /\ c.key.build = c.build
             /\ c.key.attempt = c.attempt
        /\ /\ c.at \in {"verify", "finish"}
           /\ c.status = "succeeded"
           /\ StillHolds(c)
           => builds[c.build].artifact # NoKey

CallsBound == \A h \in Handlers : CallBound(calls[h])

TokensIssued ==
    /\ \A b \in Builds : builds[b].token <= issued
    /\ \A l \in held : l.token <= issued

SucceededHasArtifact ==
    \A b \in Builds :
        builds[b].status = "succeeded" => builds[b].artifact # NoKey

RowsInv ==
    /\ SucceededHasArtifact
    /\ LeasedByActiveWorker
    /\ ArtifactOfItsAttempt
    /\ AckedSuccessDurable

LeaseInv == TypeOK /\ TokensIssued /\ CallsBound /\ RowsInv

-----------------------------------------------------------------------------
(* A call in flight is a full record, told from Idle by its stage. *)
LEMMA CallTyped ==
    ASSUME TypeOK, NEW h \in Handlers, calls[h].at \in Stages
    PROVE  calls[h] \in Calls /\ calls[h] # Idle
<1>1. calls[h] \in Calls \cup {Idle}
    BY DEF TypeOK
<1>2. calls[h] # Idle
    BY DEF Idle, Stages
<1> QED BY <1>1, <1>2

(* The initial state satisfies the invariant. *)
LEMMA InitLeaseInv == Init => LeaseInv
<1> SUFFICES ASSUME Init PROVE LeaseInv
    OBVIOUS
<1> USE DEF Init
<1>1. TypeOK
    BY LeaseAssumption DEF TypeOK, Rows, BuildStatus, RequestStatus
<1>2. TokensIssued
    BY DEF TokensIssued
<1>3. CallsBound
    BY DEF CallsBound, CallBound
<1>4. RowsInv
    BY DEF RowsInv, SucceededHasArtifact, LeasedByActiveWorker,
           ArtifactOfItsAttempt, AckedSuccessDurable
<1> QED BY <1>1, <1>2, <1>3, <1>4 DEF LeaseInv

(* A handler that only moves on in its own call, and leaves every row alone, *)
(* keeps the invariant if the call it moves to is bound.                     *)
LEMMA CallStep ==
    ASSUME LeaseInv, NEW h \in Handlers,
           NEW c \in Calls \cup {Idle}, Set(h, c), CallBound(c),
           UNCHANGED <<now, rowVars, issued, acked>>,
           held' \subseteq Leases, \A l \in held' : l.token <= issued,
           store' \subseteq Keys, uploads' \in Nat
    PROVE  LeaseInv'
<1> USE DEF LeaseInv, rowVars, Set
<1>1. TypeOK'
    BY DEF TypeOK
<1>2. TokensIssued'
    BY DEF TokensIssued
<1>3. CallsBound'
    <2> SUFFICES ASSUME NEW g \in Handlers
                 PROVE  CallBound(calls[g])'
        BY DEF CallsBound
    <2>1. calls'[g] = IF g = h THEN c ELSE calls[g]
        BY DEF TypeOK
    <2>2. CallBound(calls'[g])
        BY <2>1 DEF CallsBound
    <2> QED BY <2>2 DEF CallBound, StillHolds
<1>4. RowsInv'
    BY DEF RowsInv, SucceededHasArtifact, LeasedByActiveWorker,
           ArtifactOfItsAttempt, AckedSuccessDurable
<1> QED BY <1>1, <1>2, <1>3, <1>4

-----------------------------------------------------------------------------
(* Starting a call: its clock reading is the present, its attempt the row's. *)
LEMMA StartKeeps ==
    ASSUME LeaseInv, NEW h \in Handlers, Start(h)
    PROVE  LeaseInv'
<1> USE DEF LeaseInv
<1>1. ASSUME NEW w \in Workers, ClaimRead(h, w) PROVE LeaseInv'
    <2> DEFINE c == CallUnder([worker |-> w, build |-> ArchOf[w],
                               token |-> 0], "claim")
    <2>1. c \in Calls
        BY <1>1, ArchAssumption
        DEF CallUnder, Calls, Stages, TypeOK, Rows
    <2>2. CallBound(c)
        BY <1>1 DEF CallBound, CallUnder, TypeOK
    <2> QED BY <1>1, <2>1, <2>2, CallStep DEF ClaimRead, TypeOK, TokensIssued
<1>2. ASSUME NEW l \in held, NEW stage \in {"heartbeat", "put"},
             LiveLease(l)
      PROVE  /\ CallUnder(l, stage) \in Calls
             /\ CallBound(CallUnder(l, stage))
    <2>1. l \in Leases
        BY DEF TypeOK
    <2>2. builds[l.build] \in Rows
        BY <2>1 DEF TypeOK, Leases
    <2>3. CallUnder(l, stage) \in Calls
        BY <2>1, <2>2 DEF CallUnder, Calls, Stages, Leases, TypeOK, Rows
    <2>4. CallBound(CallUnder(l, stage))
        BY <2>1, <2>2
        DEF CallBound, CallUnder, TypeOK, TokensIssued, Leases
    <2> QED BY <2>3, <2>4
<1>3. ASSUME NEW l \in held, HeartbeatRead(h, l) PROVE LeaseInv'
    BY <1>2, <1>3, CallStep DEF HeartbeatRead, TypeOK, TokensIssued
<1>4. ASSUME NEW l \in held, UploadRead(h, l) PROVE LeaseInv'
    BY <1>2, <1>4, CallStep DEF UploadRead, TypeOK, TokensIssued
<1>5. ASSUME NEW l \in held, NEW s \in {"succeeded", "failed"},
             CompleteRead(h, l, s)
      PROVE  LeaseInv'
    <2> DEFINE c == [CallUnder(l, "verify") EXCEPT
                       !.status = s, !.key = builds[l.build].artifact]
    <2>1. l \in Leases /\ l.token <= issued
        BY DEF TypeOK, TokensIssued
    <2>2. builds[l.build] \in Rows
        BY <2>1 DEF TypeOK, Leases
    <2>3. c \in Calls
        BY <2>1, <2>2 DEF CallUnder, Calls, Stages, Leases, TypeOK, Rows
    <2>4. CallBound(c)
        BY <1>5, <2>1, <2>2
        DEF CompleteRead, CallBound, CallUnder, TypeOK, Leases
    <2> QED BY <1>5, <2>3, <2>4, CallStep DEF CompleteRead, TypeOK, TokensIssued
<1> QED BY <1>1, <1>3, <1>4, <1>5 DEF Start

(* The steps of a handler in flight that write no row. *)
LEMMA QuietStepKeeps ==
    ASSUME LeaseInv, NEW h \in Handlers,
           \/ ClaimLost(h) \/ ClaimReply(h) \/ UploadPut(h)
           \/ UploadRecheck(h) \/ CompleteVerify(h) \/ Crash(h)
    PROVE  LeaseInv'
<1> USE DEF LeaseInv
<1>1. CallBound(Idle) /\ CallBound(calls[h])
    BY DEF CallBound, CallsBound
<1>2. CASE ClaimLost(h) \/ Crash(h)
    BY <1>1, <1>2, CallStep DEF ClaimLost, Crash, End, TypeOK, TokensIssued
<1>3. CASE ClaimReply(h)
    <2> DEFINE c == calls[h]
    <2>1. c \in Calls /\ c # Idle
        BY <1>3, CallTyped DEF ClaimReply, At, Stages
    <2>2. [worker |-> c.worker, build |-> c.build, token |-> c.token]
            \in Leases
        BY <2>1 DEF Calls, Leases
    <2>3. held' \subseteq Leases /\ \A l \in held' : l.token <= issued
        BY <1>1, <1>3, <2>1, <2>2
        DEF ClaimReply, TypeOK, TokensIssued, CallBound
    <2> QED BY <1>1, <1>3, <2>3, CallStep DEF ClaimReply, End, TypeOK
<1>4. CASE UploadPut(h)
    <2> DEFINE c == calls[h]
               key == [build |-> c.build, attempt |-> c.attempt,
                       id |-> uploads + 1]
               d == [c EXCEPT !.at = "record", !.key = key, !.ts = now]
    <2>1. c \in Calls /\ c # Idle
        BY <1>4, CallTyped DEF UploadPut, At, Stages
    <2>2. key \in Keys
        BY <2>1 DEF Calls, Keys, TypeOK
    <2>3. d \in Calls
        BY <2>1, <2>2 DEF Calls, Stages, TypeOK
    <2>4. CallBound(d)
        BY <1>1, <1>4, <2>1, <2>2
        DEF UploadPut, At, CallBound, StillHolds, TypeOK, Calls
    <2> QED BY <1>4, <2>2, <2>3, <2>4, CallStep
            DEF UploadPut, TypeOK, TokensIssued
<1>5. CASE UploadRecheck(h)
    BY <1>1, <1>5, CallStep DEF UploadRecheck, End, TypeOK, TokensIssued
<1>6. CASE CompleteVerify(h)
    <2> DEFINE c == calls[h]
               d == [c EXCEPT !.at = "finish", !.ts = now]
    <2>1. c \in Calls /\ c # Idle
        BY <1>6, CallTyped DEF CompleteVerify, At, Stages
    <2>2. d \in Calls
        BY <2>1 DEF Calls, Stages, TypeOK
    <2>3. CallBound(d)
        BY <1>1, <1>6, <2>1
        DEF CompleteVerify, At, CallBound, StillHolds, TypeOK, Calls
    <2> QED BY <1>6, <2>2, <2>3, CallStep
            DEF CompleteVerify, TypeOK, TokensIssued
<1> QED BY <1>2, <1>3, <1>4, <1>5, <1>6

-----------------------------------------------------------------------------
(* A claim draws a token no one has seen, so no other call still holds the   *)
(* row, and finds its worker active.                                         *)
LEMMA ClaimWriteKeeps ==
    ASSUME LeaseInv, NEW h \in Handlers, ClaimWrite(h)
    PROVE  LeaseInv'
<1> USE DEF LeaseInv
<1> DEFINE c == calls[h]
           d == [c EXCEPT !.at = "claimed", !.token = issued + 1]
           row == [status |-> "leased", worker |-> c.worker,
                   token |-> issued + 1, expires |-> c.ts + LeaseSeconds,
                   attempt |-> builds[c.build].attempt + 1,
                   artifact |-> NoKey]
<1>1. c \in Calls /\ c # Idle /\ c.at = "claim"
    BY CallTyped DEF ClaimWrite, At, Stages
<1>2. /\ builds' = [builds EXCEPT ![c.build] = row]
      /\ calls' = [calls EXCEPT ![h] = d]
      /\ request' = "building" /\ issued' = issued + 1
      /\ UNCHANGED <<now, workers, approvals, store, held, acked, uploads>>
    BY DEF ClaimWrite, Set
<1>3. row \in Rows /\ d \in Calls
    <2>1. c.worker \in Workers /\ c.build \in Builds /\ c.ts \in Nat
        BY <1>1 DEF Calls
    <2>2. builds[c.build].attempt + 1 \in Nat
        BY <2>1 DEF TypeOK, Rows
    <2>3. issued + 1 \in Nat /\ c.ts + LeaseSeconds \in Nat
        BY <2>1, LeaseAssumption DEF TypeOK
    <2>4. row \in Rows
        BY <2>1, <2>2, <2>3 DEF Rows, BuildStatus
    <2>5. d \in Calls
        BY <1>1, <2>3 DEF Calls, Stages
    <2> QED BY <2>4, <2>5
<1>4. TypeOK'
    BY <1>1, <1>2, <1>3 DEF TypeOK, Calls, RequestStatus
<1>5. TokensIssued'
    BY <1>1, <1>2, <1>3 DEF TokensIssued, TypeOK, Rows, Leases, Calls
<1>6. CallsBound'
    <2> SUFFICES ASSUME NEW g \in Handlers, calls'[g] # Idle
                 PROVE  CallBound(calls[g])'
        BY DEF CallsBound, CallBound
    <2>1. CASE g = h
        BY <1>1, <1>2, <2>1 DEF CallBound, CallsBound, TypeOK, Calls
    <2>2. CASE g # h
        <3>1. calls'[g] = calls[g] /\ calls[g] # Idle
            BY <1>2, <2>2 DEF TypeOK
        <3>2. calls[g] \in Calls /\ CallBound(calls[g])
            BY <3>1 DEF TypeOK, CallsBound
        <3>3. calls[g].token < issued'
            BY <1>2, <3>1, <3>2 DEF CallBound, TypeOK, Calls
        <3>4. CASE calls[g].build = c.build
            <4>1. builds'[calls[g].build].token # calls[g].token
                BY <1>1, <1>2, <3>2, <3>3, <3>4 DEF TypeOK, Calls
            <4> QED BY <1>2, <3>1, <3>2, <3>3, <4>1
                    DEF CallBound, StillHolds, TypeOK, Calls
        <3>5. CASE calls[g].build # c.build
            <4>1. builds'[calls[g].build] = builds[calls[g].build]
                BY <1>2, <3>2, <3>5 DEF TypeOK, Calls
            <4> QED BY <1>2, <3>1, <3>2, <3>3, <4>1
                    DEF CallBound, StillHolds, TypeOK, Calls
        <3> QED BY <3>4, <3>5
    <2> QED BY <2>1, <2>2
<1>7. builds[c.build].status \in Active
    BY DEF ClaimWrite, Claimable, Takeable, Active
<1>8. \A b \in Builds : b # c.build => builds'[b] = builds[b]
    BY <1>2 DEF TypeOK
<1>9. builds'[c.build] = row
    BY <1>1, <1>2 DEF TypeOK, Calls
<1>10. workers[c.worker].status = "active" /\ c.worker \in Workers
    BY <1>1 DEF ClaimWrite, Claimable, Calls
<1>11. SucceededHasArtifact' /\ ArtifactOfItsAttempt'
    BY <1>8, <1>9 DEF RowsInv, SucceededHasArtifact, ArtifactOfItsAttempt
<1>12. LeasedByActiveWorker'
    BY <1>2, <1>8, <1>9, <1>10 DEF RowsInv, LeasedByActiveWorker
<1>13. AckedSuccessDurable'
    BY <1>2, <1>7, <1>8 DEF RowsInv, AckedSuccessDurable, Active
<1> QED BY <1>4, <1>5, <1>6, <1>11, <1>12, <1>13 DEF RowsInv

(* A handler whose UPDATE repeats the token and the lease checks rewrites at *)
(* most the row it still holds; the token, the attempt and the worker of     *)
(* that row stay.                                                            *)
LEMMA OwnedWrite ==
    ASSUME LeaseInv, NEW h \in Handlers, calls[h] \in Calls, calls[h] # Idle,
           NEW row \in Rows, NEW c \in Calls \cup {Idle}, Set(h, c),
           OwnedLease(calls[h]),
           builds' = [builds EXCEPT ![calls[h].build] = row],
           row.status \in {"leased", "succeeded", "failed"},
           /\ row.token = builds[calls[h].build].token
           /\ row.attempt = builds[calls[h].build].attempt
           /\ row.worker = builds[calls[h].build].worker,
           row.artifact = NoKey => builds[calls[h].build].artifact = NoKey,
           row.artifact = NoKey => row.status # "succeeded",
           row.artifact # NoKey =>
             /\ row.artifact.build = calls[h].build
             /\ row.artifact.attempt = row.attempt,
           c # Idle => /\ c.token <= issued /\ c.ts <= now
                       /\ c.at \in {"recheck", "settle"},
           request' \in RequestStatus,
           UNCHANGED <<now, workers, approvals, store, held, acked, issued,
                       uploads>>
    PROVE  LeaseInv'
<1> USE DEF LeaseInv, Set
<1> DEFINE b0 == calls[h].build
<1>1. b0 \in Builds /\ builds[b0] \in Rows /\ builds[b0].status = "leased"
    BY DEF Calls, TypeOK, OwnedLease
<1>2. builds'[b0] = row /\ \A b \in Builds \ {b0} : builds'[b] = builds[b]
    BY <1>1 DEF TypeOK
<1>3. TypeOK'
    BY <1>1 DEF TypeOK
<1>4. TokensIssued'
    BY <1>1, <1>2 DEF TokensIssued
<1>5. CallsBound'
    <2> SUFFICES ASSUME NEW g \in Handlers, calls'[g] # Idle
                 PROVE  CallBound(calls[g])'
        BY DEF CallsBound, CallBound
    <2>1. CASE g = h
        <3>1. calls'[g] = c /\ c # Idle
            BY <2>1 DEF TypeOK
        <3>2. c.at \notin {"put", "record", "verify", "finish"}
            BY <3>1
        <3> QED BY <3>1, <3>2 DEF CallBound
    <2>2. CASE g # h
        <3>1. calls'[g] = calls[g] /\ calls[g] # Idle
            BY <2>2 DEF TypeOK
        <3>2. calls[g] \in Calls /\ CallBound(calls[g])
            BY <3>1 DEF TypeOK, CallsBound
        <3>3. CASE calls[g].build = b0
            BY <1>1, <1>2, <3>1, <3>2, <3>3 DEF CallBound, StillHolds
        <3>4. CASE calls[g].build # b0
            <4>1. builds'[calls[g].build] = builds[calls[g].build]
                BY <1>2, <3>2, <3>4 DEF Calls
            <4> QED BY <3>1, <3>2, <4>1 DEF CallBound, StillHolds
        <3> QED BY <3>3, <3>4
    <2> QED BY <2>1, <2>2
<1>6. SucceededHasArtifact' /\ ArtifactOfItsAttempt'
    BY <1>1, <1>2 DEF RowsInv, SucceededHasArtifact, ArtifactOfItsAttempt
<1>7. LeasedByActiveWorker'
    BY <1>1, <1>2 DEF RowsInv, LeasedByActiveWorker
<1>8. AckedSuccessDurable'
    BY <1>1, <1>2 DEF RowsInv, AckedSuccessDurable
<1> QED BY <1>3, <1>4, <1>5, <1>6, <1>7, <1>8 DEF RowsInv

(* Nothing but its own call moves when the UPDATE of a handler *)
(* matches no row.                                                           *)
LEMMA MissedWrite ==
    ASSUME LeaseInv, NEW h \in Handlers,
           NEW c \in Calls \cup {Idle}, Set(h, c), builds' = builds,
           c # Idle => /\ c.token <= issued /\ c.ts <= now
                       /\ c.at \in {"recheck", "settle"},
           request' \in RequestStatus,
           UNCHANGED <<now, workers, approvals, store, held, acked, issued,
                       uploads>>
    PROVE  LeaseInv'
<1> USE DEF LeaseInv, Set
<1>1. TypeOK'
    BY DEF TypeOK
<1>2. TokensIssued'
    BY DEF TokensIssued
<1>3. CallsBound'
    <2> SUFFICES ASSUME NEW g \in Handlers PROVE CallBound(calls[g])'
        BY DEF CallsBound
    <2>1. calls'[g] = IF g = h THEN c ELSE calls[g]
        BY DEF TypeOK
    <2>2. CallBound(calls'[g])
        BY <2>1 DEF CallsBound, CallBound
    <2> QED BY <2>2 DEF CallBound, StillHolds
<1>4. RowsInv'
    BY DEF RowsInv, SucceededHasArtifact, LeasedByActiveWorker,
           ArtifactOfItsAttempt, AckedSuccessDurable
<1> QED BY <1>1, <1>2, <1>3, <1>4

(* heartbeatJob renews the lease it owns, or matches no row. *)
LEMMA HeartbeatWriteKeeps ==
    ASSUME LeaseInv, NEW h \in Handlers, HeartbeatWrite(h)
    PROVE  LeaseInv'
<1> USE DEF LeaseInv
<1> DEFINE c == calls[h]
           row == [builds[c.build] EXCEPT !.expires = c.ts + LeaseSeconds]
<1>1. c \in Calls /\ c # Idle
    BY CallTyped DEF HeartbeatWrite, At, Stages
<1>2. c.ts + LeaseSeconds \in Nat /\ c.token \in Nat /\ c.build \in Builds
    BY <1>1, LeaseAssumption DEF Calls
<1>3. builds[c.build] \in Rows /\ row \in Rows
    BY <1>2 DEF TypeOK, Rows
<1>4. /\ Set(h, Idle)
      /\ request' \in RequestStatus
      /\ UNCHANGED <<now, workers, approvals, store, held, acked, issued,
                     uploads>>
    BY <1>2 DEF HeartbeatWrite, End, TypeOK
<1>5. CASE OwnedLease(c)
    <2>1. builds' = [builds EXCEPT ![c.build] = row]
        BY <1>5 DEF HeartbeatWrite
    <2>2. builds[c.build].status = "leased"
        BY <1>5 DEF OwnedLease
    <2>3. /\ row.status = "leased"
          /\ row.token = builds[c.build].token
          /\ row.attempt = builds[c.build].attempt
          /\ row.worker = builds[c.build].worker
          /\ row.artifact = builds[c.build].artifact
        BY <1>3, <2>2 DEF Rows
    <2>4. row.artifact # NoKey => /\ row.artifact.build = c.build
                                  /\ row.artifact.attempt = row.attempt
        BY <1>2, <2>2, <2>3 DEF RowsInv, ArtifactOfItsAttempt
    <2> QED BY <1>1, <1>3, <1>4, <1>5, <2>1, <2>3, <2>4, OwnedWrite
<1>6. CASE ~OwnedLease(c)
    <2>1. builds' = builds
        BY <1>6 DEF HeartbeatWrite
    <2> QED BY <1>4, <2>1, MissedWrite
<1> QED BY <1>5, <1>6

(* The UPDATE files the bytes only in the attempt the handler read: another  *)
(* attempt has another token.                                                *)
LEMMA UploadWriteKeeps ==
    ASSUME LeaseInv, NEW h \in Handlers, UploadWrite(h)
    PROVE  LeaseInv'
<1> USE DEF LeaseInv
<1> DEFINE c == calls[h]
           d == [c EXCEPT !.at = "recheck"]
           row == [builds[c.build] EXCEPT !.artifact = c.key]
<1>1. c \in Calls /\ c # Idle /\ c.at = "record"
    BY CallTyped DEF UploadWrite, At, Stages
<1>2. CallBound(c)
    BY DEF CallsBound
<1>3. d \in Calls /\ d.at = "recheck" /\ d.token <= issued /\ d.ts <= now
    BY <1>1, <1>2 DEF Calls, Stages, CallBound
<1>4. c.key \in Keys /\ c.build \in Builds /\ c.key # NoKey
    BY <1>1, <1>2, NullAssumption DEF CallBound, Keys, Calls
<1>5. builds[c.build] \in Rows /\ row \in Rows
    BY <1>4 DEF TypeOK, Rows
<1>6. /\ Set(h, d)
      /\ request' \in RequestStatus
      /\ UNCHANGED <<now, workers, approvals, store, held, acked, issued,
                     uploads>>
    BY DEF UploadWrite, TypeOK
<1>7. CASE OwnedLease(c) /\ builds[c.build].artifact = NoKey
    <2>1. builds' = [builds EXCEPT ![c.build] = row]
        BY <1>7 DEF UploadWrite
    <2>2. StillHolds(c)
        BY <1>7 DEF OwnedLease, StillHolds
    <2>3. /\ c.key.build = c.build
          /\ c.key.attempt = builds[c.build].attempt
        BY <1>1, <1>2, <2>2 DEF CallBound
    <2>4. /\ row.status = "leased"
          /\ row.token = builds[c.build].token
          /\ row.attempt = builds[c.build].attempt
          /\ row.worker = builds[c.build].worker
          /\ row.artifact = c.key
        BY <1>5, <2>2 DEF Rows, StillHolds
    <2> QED BY <1>1, <1>3, <1>4, <1>5, <1>6, <1>7, <2>1, <2>3, <2>4, OwnedWrite
<1>8. CASE ~(OwnedLease(c) /\ builds[c.build].artifact = NoKey)
    <2>1. builds' = builds
        BY <1>8 DEF UploadWrite
    <2> QED BY <1>3, <1>6, <2>1, MissedWrite
<1> QED BY <1>7, <1>8

(* completeJob ends the attempt it owns, or matches no row. *)
LEMMA CompleteWriteKeeps ==
    ASSUME LeaseInv, NEW h \in Handlers, CompleteWrite(h)
    PROVE  LeaseInv'
<1> USE DEF LeaseInv
<1> DEFINE c == calls[h]
           d == [c EXCEPT !.at = "settle"]
           row == [builds[c.build] EXCEPT !.status = c.status,
                                          !.expires = c.ts]
<1>1. c \in Calls /\ c # Idle /\ c.at = "finish"
    BY CallTyped DEF CompleteWrite, Completed, At, Stages
<1>2. CallBound(c)
    BY DEF CallsBound
<1>3. d \in Calls /\ d.at = "settle" /\ d.token <= issued /\ d.ts <= now
    BY <1>1, <1>2 DEF Calls, Stages, CallBound
<1>4. /\ c.build \in Builds /\ c.ts \in Nat
      /\ c.status \in {"succeeded", "failed"}
    BY <1>1 DEF Calls
<1>5. builds[c.build] \in Rows /\ row \in Rows
    <2>1. builds[c.build] \in Rows
        BY <1>4 DEF TypeOK
    <2> HIDE DEF c
    <2>2. row \in Rows
        BY <1>4, <2>1 DEF Rows, BuildStatus
    <2> QED
        BY <2>1, <2>2
<1>6. request' \in RequestStatus
    BY DEF CompleteWrite, RequestAfterCompletion, TypeOK, RequestStatus
<1>7. /\ Set(h, d)
      /\ UNCHANGED <<now, workers, approvals, store, held, acked, issued,
                     uploads>>
    BY DEF CompleteWrite, Completed
<1>8. CASE OwnedLease(c)
    <2>1. builds' = [builds EXCEPT ![c.build] = row]
        <3>1. builds' = [builds EXCEPT ![c.build].status = c.status,
                                       ![c.build].expires = c.ts]
            BY <1>8 DEF CompleteWrite, Completed
        <3> QED BY <1>4, <3>1 DEF TypeOK
    <2>2. StillHolds(c)
        BY <1>8 DEF OwnedLease, StillHolds
    <2>3. /\ row.status = c.status
          /\ row.token = builds[c.build].token
          /\ row.attempt = builds[c.build].attempt
          /\ row.worker = builds[c.build].worker
          /\ row.artifact = builds[c.build].artifact
        BY <1>5 DEF Rows
    <2>4. row.artifact # NoKey => /\ row.artifact.build = c.build
                                  /\ row.artifact.attempt = row.attempt
        BY <1>4, <2>2, <2>3 DEF StillHolds, RowsInv, ArtifactOfItsAttempt
    <2>5. row.artifact = NoKey => row.status # "succeeded"
        BY <1>1, <1>2, <2>2, <2>3 DEF CallBound
    <2> QED BY <1>1, <1>3, <1>4, <1>5, <1>6, <1>7, <1>8, <2>1, <2>3, <2>4,
               <2>5, OwnedWrite
<1>9. CASE ~OwnedLease(c)
    <2>1. builds' = builds
        BY <1>9 DEF CompleteWrite, Completed
    <2> QED BY <1>3, <1>6, <1>7, <2>1, MissedWrite
<1> QED BY <1>8, <1>9

(* Attempts are ended or given up: rows that were queued or leased.          *)
Ended(b) ==
    /\ builds'[b].token = builds[b].token
    /\ builds'[b].artifact = builds[b].artifact
    /\ \/ /\ builds[b].status = "leased"
          /\ builds'[b].status \in {"failed", "cancelled"}
       \/ builds[b].status = "queued" /\ builds'[b].status = "cancelled"

(* What the batch of a completion with dependency blockers does to the rows. *)
LEMMA BlockedRows ==
    ASSUME LeaseInv, NEW h \in Handlers, CompleteBlocked(h)
    PROVE  /\ builds' \in [Builds -> Rows]
           /\ \A b \in Builds : builds'[b] = builds[b] \/ Ended(b)
           /\ Completed(calls[h]) \in [Builds -> Rows]
<1> DEFINE c == calls[h]
           mid == Completed(c)
<1>1. /\ c.build \in Builds /\ c.ts \in Nat /\ c.status = "failed"
      /\ builds \in [Builds -> Rows]
    BY CallTyped DEF CompleteBlocked, At, Stages, LeaseInv, TypeOK, Calls
<1>2. /\ mid \in [Builds -> Rows]
      /\ \A b \in Builds :
           \/ mid[b] = builds[b]
           \/ /\ builds[b].status = "leased" /\ mid[b].status = "failed"
              /\ mid[b].token = builds[b].token
              /\ mid[b].artifact = builds[b].artifact
    <2>1. CASE OwnedLease(c)
        <3> DEFINE row == [builds[c.build] EXCEPT !.status = c.status,
                                                  !.expires = c.ts]
        <3>1. mid = [builds EXCEPT ![c.build] = row]
            BY <1>1, <2>1 DEF Completed
        <3>2. /\ row \in Rows /\ row.status = "failed"
              /\ row.token = builds[c.build].token
              /\ row.artifact = builds[c.build].artifact
            <4>1. builds[c.build] \in Rows
                BY <1>1
            <4> HIDE DEF c
            <4> QED BY <1>1, <4>1 DEF Rows, BuildStatus
        <3>3. builds[c.build].status = "leased"
            BY <2>1 DEF OwnedLease
        <3> HIDE DEF c, mid, row
        <3>4. mid \in [Builds -> Rows]
            BY <1>1, <3>1, <3>2
        <3>5. \A b \in Builds : mid[b] = IF b = c.build THEN row ELSE builds[b]
            BY <1>1, <3>1
        <3> QED BY <3>2, <3>3, <3>4, <3>5
    <2>2. CASE ~OwnedLease(c)
        BY <1>1, <2>2 DEF Completed
    <2> QED BY <2>1, <2>2
<1>3. builds' = mid \/ builds' = CancelActive(mid, c.ts)
    BY DEF CompleteBlocked
<1>4. Completed(calls[h]) \in [Builds -> Rows]
    BY <1>2
<1> HIDE DEF mid
<1> DEFINE Kept == /\ builds' \in [Builds -> Rows]
                   /\ \A b \in Builds : builds'[b] = builds[b] \/ Ended(b)
<1>5. ASSUME builds' = mid PROVE Kept
    BY <1>2, <1>5 DEF Ended
<1>6. ASSUME builds' = CancelActive(mid, c.ts) PROVE Kept
    <2>1. ASSUME NEW row \in Rows
          PROVE  LET r == [row EXCEPT !.status = "cancelled", !.expires = c.ts]
                 IN /\ r \in Rows /\ r.status = "cancelled"
                    /\ r.token = row.token /\ r.artifact = row.artifact
        BY <1>1, <2>1 DEF Rows, BuildStatus
    <2> HIDE DEF c
    <2>2. \A b \in Builds :
            /\ builds'[b] \in Rows
            /\ \/ builds'[b] = mid[b]
               \/ /\ mid[b].status \in Active
                  /\ builds'[b].status = "cancelled"
                  /\ builds'[b].token = mid[b].token
                  /\ builds'[b].artifact = mid[b].artifact
        BY <1>2, <1>6, <2>1 DEF CancelActive
    <2>3. builds' \in [Builds -> Rows]
        BY <1>6, <2>2 DEF CancelActive
    <2>4. ASSUME NEW b \in Builds PROVE builds'[b] = builds[b] \/ Ended(b)
        BY <1>2, <2>2, <2>4 DEF Ended, Active
    <2> QED BY <2>3, <2>4
<1> QED BY <1>3, <1>4, <1>5, <1>6

(* A handler that ends attempts takes them from every call in flight.        *)
LEMMA CompleteBlockedKeeps ==
    ASSUME LeaseInv, NEW h \in Handlers, CompleteBlocked(h)
    PROVE  LeaseInv'
<1> USE DEF LeaseInv
<1> DEFINE c == calls[h]
           d == [c EXCEPT !.at = "settle"]
<1>1. c \in Calls /\ c # Idle /\ CallBound(c)
    BY CallTyped DEF CompleteBlocked, At, Stages, CallsBound
<1>2. d \in Calls /\ d.at = "settle" /\ d.token <= issued /\ d.ts <= now
    BY <1>1 DEF Calls, Stages, CallBound
<1>3. /\ calls' = [calls EXCEPT ![h] = d]
      /\ UNCHANGED <<now, workers, approvals, store, held, acked, issued, uploads>>
    BY DEF CompleteBlocked, Set
<1>4. request' \in RequestStatus
    BY DEF CompleteBlocked, RequestAfterCompletion, TypeOK, RequestStatus
<1>5. /\ builds' \in [Builds -> Rows]
      /\ \A b \in Builds : builds'[b] = builds[b] \/ Ended(b)
    BY BlockedRows
<1> HIDE DEF c, d
<1>6. TypeOK'
    BY <1>2, <1>3, <1>4, <1>5 DEF TypeOK
<1>7. TokensIssued'
    BY <1>3, <1>5 DEF TokensIssued, Ended
<1>8. CallsBound'
    <2> SUFFICES ASSUME NEW g \in Handlers, calls'[g] # Idle
                 PROVE  CallBound(calls[g])'
        BY DEF CallsBound, CallBound
    <2>1. CASE g = h
        <3>1. calls'[g] = d
            BY <1>3, <2>1 DEF TypeOK
        <3> QED BY <1>2, <1>3, <3>1 DEF CallBound
    <2>2. CASE g # h
        <3>1. calls'[g] = calls[g] /\ calls[g] # Idle
            BY <1>3, <2>2 DEF TypeOK
        <3>2. calls[g].build \in Builds /\ CallBound(calls[g])
            BY <3>1 DEF TypeOK, CallsBound, Calls
        <3>3. CASE builds'[calls[g].build] = builds[calls[g].build]
            BY <1>3, <3>1, <3>2, <3>3 DEF CallBound, StillHolds
        <3>4. CASE Ended(calls[g].build)
            <4>1. ~StillHolds(calls[g])'
                BY <3>1, <3>4 DEF Ended, StillHolds
            <4> QED BY <1>3, <3>1, <3>2, <4>1 DEF CallBound, StillHolds
        <3> QED BY <1>5, <3>2, <3>3, <3>4
    <2> QED BY <2>1, <2>2
<1>9. SucceededHasArtifact' /\ ArtifactOfItsAttempt'
    BY <1>5 DEF RowsInv, SucceededHasArtifact, ArtifactOfItsAttempt, Ended
<1>10. LeasedByActiveWorker'
    BY <1>3, <1>5 DEF RowsInv, LeasedByActiveWorker, Ended
<1>11. AckedSuccessDurable'
    BY <1>3, <1>5 DEF RowsInv, AckedSuccessDurable, Ended
<1> QED BY <1>6, <1>7, <1>8, <1>9, <1>10, <1>11 DEF RowsInv

-----------------------------------------------------------------------------
(* Administration and time leave the calls alone: a call still holds a row   *)
(* afterwards only if the row is untouched.                                  *)
LEMMA FencingStep ==
    ASSUME LeaseInv, builds' \in [Builds -> Rows],
           \A b \in Builds : \/ builds'[b] = builds[b]
                            \/ /\ builds[b].status \in {"leased", "queued", "failed"}
                               /\ builds'[b].status \in {"queued", "cancelled"}
                               /\ builds'[b].token = 0,
           workers' \in [Workers -> [status : {"active", "revoked", "archived"},
                                     accepting : BOOLEAN]],
           \A b \in Builds : builds'[b].status = "leased" =>
               workers'[builds[b].worker].status
                 = workers[builds[b].worker].status,
           request' \in RequestStatus,
           approvals' \subseteq Reviewers,
           now' \in Nat, now <= now',
           UNCHANGED <<store, calls, held, acked, issued, uploads>>
    PROVE  LeaseInv'
<1> USE DEF LeaseInv
<1>1. TypeOK'
    BY DEF TypeOK
<1>2. TokensIssued'
    BY DEF TokensIssued, TypeOK
<1>3. CallsBound'
    <2> SUFFICES ASSUME NEW g \in Handlers, calls[g] # Idle
                 PROVE  CallBound(calls[g])'
        BY DEF CallsBound, CallBound
    <2>1. calls[g] \in Calls /\ CallBound(calls[g])
        BY DEF TypeOK, CallsBound
    <2>2. calls[g].ts <= now'
        BY <2>1 DEF CallBound, TypeOK, Calls
    <2>3. calls[g].build \in Builds
        BY <2>1 DEF Calls
    <2>4. CASE builds'[calls[g].build] = builds[calls[g].build]
        BY <2>1, <2>2, <2>4 DEF CallBound, StillHolds
    <2>5. CASE builds'[calls[g].build] # builds[calls[g].build]
        BY <2>1, <2>2, <2>3, <2>5 DEF CallBound, StillHolds
    <2> QED BY <2>4, <2>5
<1>4. SucceededHasArtifact' /\ ArtifactOfItsAttempt'
    BY DEF RowsInv, SucceededHasArtifact, ArtifactOfItsAttempt
<1>5. LeasedByActiveWorker'
    BY DEF RowsInv, LeasedByActiveWorker
<1>6. AckedSuccessDurable'
    BY DEF RowsInv, AckedSuccessDurable
<1> QED BY <1>1, <1>2, <1>3, <1>4, <1>5, <1>6 DEF RowsInv

(* A fenced row is a row. *)
LEMMA ClearedTyped ==
    ASSUME NEW row \in Rows, NEW status \in BuildStatus
    PROVE  /\ Cleared(row, status) \in Rows
           /\ Cleared(row, status).status = status
           /\ Cleared(row, status).token = 0
BY DEF Cleared, Rows

(* The clock moves alone. *)
LEMMA TickKeeps ==
    ASSUME LeaseInv, Tick
    PROVE  LeaseInv'
<1>1. now' \in Nat /\ now <= now'
    BY DEF LeaseInv, TypeOK, Tick
<1> QED BY <1>1, FencingStep DEF LeaseInv, TypeOK, Tick, rowVars

(* What maintainers do: fences, revocations, pauses, retries. *)
LEMMA AdministerKeeps ==
    ASSUME LeaseInv, Administer
    PROVE  LeaseInv'
<1> USE DEF LeaseInv
<1>1. now \in Nat /\ now <= now
    BY DEF TypeOK
<1>2. ASSUME NEW w \in Workers, RevokeWorker(w) PROVE LeaseInv'
    <2>1. \A b \in Builds :
            IF builds[b].worker = w /\ builds[b].status = "leased"
            THEN builds'[b] = Cleared(builds[b], "queued")
            ELSE builds'[b] = builds[b]
        BY <1>2 DEF RevokeWorker
    <2>2. \A b \in Builds : builds[b] \in Rows
        BY DEF TypeOK
    <2>3. builds' \in [Builds -> Rows]
        BY <1>2, <2>2, ClearedTyped DEF RevokeWorker, BuildStatus
    <2>4. \A b \in Builds :
            \/ builds'[b] = builds[b]
            \/ /\ builds[b].status \in {"leased", "queued", "failed"}
               /\ builds'[b].status \in {"queued", "cancelled"}
               /\ builds'[b].token = 0
        BY <2>1, <2>2, ClearedTyped DEF BuildStatus
    <2>5. workers' \in [Workers -> [status : {"active", "revoked", "archived"},
                                    accepting : BOOLEAN]]
        BY <1>2 DEF RevokeWorker, TypeOK
    <2>6. ASSUME NEW b \in Builds, builds'[b].status = "leased"
          PROVE  workers'[builds[b].worker].status
                   = workers[builds[b].worker].status
        <3>1. builds'[b] = builds[b] /\ builds[b].worker # w
            BY <2>1, <2>2, <2>6, ClearedTyped DEF BuildStatus
        <3>2. builds[b].worker \in Workers
            BY <2>6, <3>1 DEF RowsInv, LeasedByActiveWorker
        <3> QED BY <1>2, <3>1, <3>2 DEF RevokeWorker, TypeOK
    <2> QED BY <1>1, <1>2, <2>3, <2>4, <2>5, <2>6, FencingStep
            DEF RevokeWorker, TypeOK
<1>3. ASSUME NEW w \in Workers, NEW from \in BOOLEAN, Accept(w, from)
      PROVE  LeaseInv'
    <2>1. /\ workers' \in [Workers ->
                            [status : {"active", "revoked", "archived"},
                             accepting : BOOLEAN]]
          /\ \A v \in Workers : workers'[v].status = workers[v].status
        BY <1>3 DEF Accept, TypeOK
    <2>2. \A b \in Builds : builds[b].status = "leased" =>
            builds[b].worker \in Workers
        BY DEF RowsInv, LeasedByActiveWorker
    <2> QED BY <1>1, <1>3, <2>1, <2>2, FencingStep DEF Accept, TypeOK
<1>4. ASSUME NEW w \in Workers, ArchiveWorker(w) PROVE LeaseInv'
    <2>1. workers' \in [Workers -> [status : {"active", "revoked", "archived"},
                                    accepting : BOOLEAN]]
        BY <1>4 DEF ArchiveWorker, TypeOK
    <2>2. \A b \in Builds : builds[b].status = "leased" =>
            /\ builds[b].worker \in Workers
            /\ builds[b].worker # w
        BY <1>4 DEF ArchiveWorker, RowsInv, LeasedByActiveWorker
    <2>3. \A v \in Workers \ {w} : workers'[v] = workers[v]
        BY <1>4 DEF ArchiveWorker, TypeOK
    <2> QED BY <1>1, <1>4, <2>1, <2>2, <2>3, FencingStep
            DEF ArchiveWorker, TypeOK
<1>5. ASSUME NEW b0 \in Builds, RetryBuild(b0) PROVE LeaseInv'
    <2>1. /\ builds[b0] \in Rows /\ builds[b0].status = "failed"
          /\ builds' = [builds EXCEPT ![b0] = Cleared(builds[b0], "queued")]
        BY <1>5 DEF RetryBuild, TypeOK
    <2>2. /\ Cleared(builds[b0], "queued") \in Rows
          /\ Cleared(builds[b0], "queued").status = "queued"
          /\ Cleared(builds[b0], "queued").token = 0
        BY <2>1, ClearedTyped DEF BuildStatus
    <2>3. builds' \in [Builds -> Rows]
        BY <2>1, <2>2 DEF TypeOK
    <2>4. \A b \in Builds : \/ builds'[b] = builds[b]
                            \/ b = b0 /\ builds'[b] = Cleared(builds[b0], "queued")
        BY <2>1 DEF TypeOK
    <2> QED BY <1>1, <1>5, <2>1, <2>2, <2>3, <2>4, FencingStep
            DEF RetryBuild, TypeOK, RequestStatus
<1>6. ASSUME NEW r \in Reviewers, FenceReviewer(r) PROVE LeaseInv'
    <2> DEFINE Fenced(row) == [Cleared(row, "cancelled") EXCEPT
                                 !.artifact = row.artifact]
    <2>1. \A row \in Rows : /\ Fenced(row) \in Rows
                            /\ Fenced(row).status = "cancelled"
                            /\ Fenced(row).token = 0
        BY DEF Cleared, Rows, BuildStatus
    <2>2. \A b \in Builds : builds[b] \in Rows
        BY DEF TypeOK
    <2>3. builds' = [b \in Builds |-> IF builds[b].status \in Active
                                      THEN Fenced(builds[b])
                                      ELSE builds[b]]
        BY <1>6 DEF FenceReviewer
    <2> HIDE DEF Fenced
    <2>4. builds' \in [Builds -> Rows]
        BY <2>1, <2>2, <2>3
    <2>5. \A b \in Builds :
            \/ builds'[b] = builds[b]
            \/ /\ builds[b].status \in {"leased", "queued", "failed"}
               /\ builds'[b].status \in {"queued", "cancelled"}
               /\ builds'[b].token = 0
        BY <2>1, <2>2, <2>3 DEF Active
    <2> QED BY <1>1, <1>6, <2>4, <2>5, FencingStep DEF FenceReviewer, TypeOK,
                                                       RequestStatus
<1> QED BY <1>2, <1>3, <1>4, <1>5, <1>6
        DEF Administer, PauseWorker, ResumeWorker

(* An acknowledged success is on the row when it is acknowledged. *)
LEMMA AckKeeps ==
    ASSUME LeaseInv, NEW l \in [build : Builds, token : Nat],
           \/ acked' = acked
           \/ /\ acked' = acked \cup {l.token}
              /\ builds[l.build].status = "succeeded"
              /\ builds[l.build].token = l.token,
           calls' \in [Handlers -> Calls \cup {Idle}],
           \A h \in Handlers : calls'[h] = calls[h] \/ calls'[h] = Idle,
           UNCHANGED <<now, rowVars, store, held, issued, uploads>>
    PROVE  LeaseInv'
<1> USE DEF LeaseInv, rowVars
<1>1. TypeOK'
    BY DEF TypeOK
<1>2. TokensIssued'
    BY DEF TokensIssued
<1>3. CallsBound'
    BY DEF CallsBound, CallBound, StillHolds
<1>4. SucceededHasArtifact' /\ LeasedByActiveWorker' /\ ArtifactOfItsAttempt'
    BY DEF RowsInv, SucceededHasArtifact, LeasedByActiveWorker,
           ArtifactOfItsAttempt
<1>5. AckedSuccessDurable'
    BY DEF RowsInv, AckedSuccessDurable, SucceededHasArtifact
<1> QED BY <1>1, <1>2, <1>3, <1>4, <1>5 DEF RowsInv

(* completeJob answers from the row it reads again, or replays the answer. *)
LEMMA AcknowledgeKeeps ==
    ASSUME LeaseInv,
           \/ \E h \in Handlers : CompleteReply(h)
           \/ \E l \in held : CompleteReplay(l)
    PROVE  LeaseInv'
<1>1. ASSUME NEW h \in Handlers, CompleteReply(h) PROVE LeaseInv'
    <2> DEFINE c == calls[h]
               l == [build |-> c.build, token |-> c.token]
    <2>1. c \in Calls
        BY <1>1, CallTyped DEF CompleteReply, At, Stages, LeaseInv
    <2>2. l \in [build : Builds, token : Nat]
        BY <2>1 DEF Calls
    <2>3. \/ acked' = acked
          \/ /\ acked' = acked \cup {l.token}
             /\ builds[l.build].status = "succeeded"
             /\ builds[l.build].token = l.token
        BY <1>1 DEF CompleteReply, ShowsSuccess
    <2>4. calls' \in [Handlers -> Calls \cup {Idle}]
        BY <1>1 DEF CompleteReply, End, Set, LeaseInv, TypeOK
    <2>5. \A g \in Handlers : calls'[g] = calls[g] \/ calls'[g] = Idle
        BY <1>1 DEF CompleteReply, End, Set, LeaseInv, TypeOK
    <2>6. UNCHANGED <<now, rowVars, store, held, issued, uploads>>
        BY <1>1 DEF CompleteReply
    <2> HIDE DEF l
    <2> QED BY <2>2, <2>3, <2>4, <2>5, <2>6, AckKeeps
<1>2. ASSUME NEW l \in held, CompleteReplay(l) PROVE LeaseInv'
    <2> DEFINE m == [build |-> l.build, token |-> l.token]
    <2>1. m \in [build : Builds, token : Nat]
        BY DEF LeaseInv, TypeOK, Leases
    <2>2. /\ acked' = acked \cup {m.token}
          /\ builds[m.build].status = "succeeded"
          /\ builds[m.build].token = m.token
        BY <1>2 DEF CompleteReplay, ShowsSuccess
    <2>3. calls' \in [Handlers -> Calls \cup {Idle}] /\ calls' = calls
        BY <1>2 DEF CompleteReplay, LeaseInv, TypeOK
    <2> QED BY <1>2, <2>1, <2>2, <2>3, AckKeeps DEF CompleteReplay
<1> QED BY <1>1, <1>2

(* A stuttering step keeps the invariant. *)
LEMMA StutterKeeps ==
    ASSUME LeaseInv, UNCHANGED vars
    PROVE  LeaseInv'
BY DEF LeaseInv, vars, rowVars, TypeOK, TokensIssued, CallsBound, CallBound,
       StillHolds, RowsInv, SucceededHasArtifact, LeasedByActiveWorker,
       ArtifactOfItsAttempt, AckedSuccessDurable

(* Every step keeps the invariant. *)
LEMMA NextLeaseInv ==
    ASSUME LeaseInv, [Next]_vars
    PROVE  LeaseInv'
<1>1. CASE UNCHANGED vars
    BY <1>1, StutterKeeps
<1>2. CASE Tick
    BY <1>2, TickKeeps
<1>3. ASSUME NEW h \in Handlers, Start(h) PROVE LeaseInv'
    BY <1>3, StartKeeps
<1>4. ASSUME NEW h \in Handlers, Step(h) PROVE LeaseInv'
    BY <1>4, ClaimWriteKeeps, HeartbeatWriteKeeps, UploadWriteKeeps,
       CompleteWriteKeeps, CompleteBlockedKeeps, QuietStepKeeps,
       AcknowledgeKeeps DEF Step
<1>5. CASE \E l \in held : CompleteReplay(l)
    BY <1>5, AcknowledgeKeeps
<1>6. CASE Administer
    BY <1>6, AdministerKeeps
<1> QED BY <1>1, <1>2, <1>3, <1>4, <1>5, <1>6 DEF Next

-----------------------------------------------------------------------------
(* The invariant holds of every behaviour: a handler's write lands only in   *)
(* the attempt the handler read.                                             *)
THEOREM LeaseInvariant == Spec => []LeaseInv
<1>1. Init => LeaseInv
    BY InitLeaseInv
<1>2. LeaseInv /\ [Next]_vars => LeaseInv'
    BY NextLeaseInv
<1> QED BY <1>1, <1>2, PTL DEF Spec

(* Every variable stays in its type and a row in the shape of Rows, for the  *)
(* UPDATEs of worker-results.ts and workers.ts.                              *)
THEOREM TypeCorrect == Spec => []TypeOK
<1>1. LeaseInv => TypeOK
    BY DEF LeaseInv
<1> QED BY <1>1, LeaseInvariant, PTL

(* revokeWorker and claimJob: no lease outlives its worker's key. *)
THEOREM NoLeaseOfRevokedWorker == Spec => []LeasedByActiveWorker
<1>1. LeaseInv => LeasedByActiveWorker
    BY DEF LeaseInv, RowsInv
<1> QED BY <1>1, LeaseInvariant, PTL

(* uploadArtifact: bytes are filed only on the attempt that produced them. *)
THEOREM ArtifactsStayInTheirAttempt == Spec => []ArtifactOfItsAttempt
<1>1. LeaseInv => ArtifactOfItsAttempt
    BY DEF LeaseInv, RowsInv
<1> QED BY <1>1, LeaseInvariant, PTL

(* completeJob: what a worker was told is done stays done. *)
THEOREM AcknowledgedSuccessIsDurable == Spec => []AckedSuccessDurable
<1>1. LeaseInv => AckedSuccessDurable
    BY DEF LeaseInv, RowsInv
<1> QED BY <1>1, LeaseInvariant, PTL

-----------------------------------------------------------------------------
(* The bytes of a leased row.  A handler that deletes what it stored deletes *)
(* only its own key: ids are never drawn twice, no row names a key before    *)
(* its handler has written it, and a leased row that names one still belongs *)
(* to that handler's worker, under approvals no reviewer has lost.           *)

Depositing(h) == calls[h].at \in {"record", "recheck"}

LeasedIsReviewed ==
    \A b \in Builds : builds[b].status = "leased" => Reviewed

KeysDrawn ==
    /\ \A b \in Builds :
         builds[b].artifact # NoKey => builds[b].artifact.id <= uploads
    /\ \A h \in Handlers : Depositing(h) =>
         calls[h].key \in Keys /\ calls[h].key.id <= uploads

KeysApart ==
    \A g, h \in Handlers : Depositing(g) /\ Depositing(h) /\ g # h =>
        calls[g].key # calls[h].key

UnwrittenKeys ==
    \A h \in Handlers : At(h, "record") =>
        /\ calls[h].key \in store
        /\ \A b \in Builds : builds[b].artifact # calls[h].key

WrittenByItsWorker ==
    \A h \in Handlers, b \in Builds :
        At(h, "recheck") /\ builds[b].status = "leased"
            /\ builds[b].artifact = calls[h].key =>
        builds[b].worker = calls[h].worker /\ calls[h].build = b

BytesInv ==
    /\ LeasedIsReviewed
    /\ KeysDrawn
    /\ KeysApart
    /\ UnwrittenKeys
    /\ WrittenByItsWorker
    /\ LeasedBytesStored

(* A step that names no bytes on b, and leaves those of a leased row there.  *)
RowKept(b) ==
    /\ builds'[b].artifact \in {builds[b].artifact, NoKey}
    /\ builds'[b].status = "leased" =>
         /\ approvals' = Reviewers
         /\ builds'[b].artifact # NoKey =>
              builds[b].status = "leased" /\ builds'[b].worker = builds[b].worker

(* Steps that store and delete no bytes and write none on a row.             *)
LEMMA BytesKept ==
    ASSUME BytesInv, UNCHANGED <<store, uploads>>,
           \A h \in Handlers : calls'[h] = calls[h] \/ ~Depositing(h)',
           \A b \in Builds : RowKept(b)
    PROVE  BytesInv'
<1> USE DEF BytesInv, Depositing, At
<1>1. LeasedIsReviewed'
    BY DEF LeasedIsReviewed, RowKept, Reviewed
<1>2. KeysDrawn'
    BY DEF KeysDrawn, RowKept
<1>3. KeysApart'
    BY DEF KeysApart
<1>4. UnwrittenKeys'
    <2> SUFFICES ASSUME NEW h \in Handlers, At(h, "record")'
                 PROVE  /\ calls'[h].key \in store'
                        /\ \A b \in Builds : builds'[b].artifact # calls'[h].key
        BY DEF UnwrittenKeys
    <2>1. calls'[h] = calls[h] /\ calls[h].key \in Keys
        BY DEF KeysDrawn
    <2> QED BY <2>1, NullAssumption DEF UnwrittenKeys, RowKept, Keys
<1>5. WrittenByItsWorker'
    <2> SUFFICES ASSUME NEW h \in Handlers, NEW b \in Builds, At(h, "recheck")',
                        builds'[b].status = "leased",
                        builds'[b].artifact = calls'[h].key
                 PROVE  builds'[b].worker = calls'[h].worker /\ calls'[h].build = b
        BY DEF WrittenByItsWorker
    <2>1. calls'[h] = calls[h] /\ calls[h].key \in Keys
        BY DEF KeysDrawn
    <2>2. builds'[b].artifact # NoKey
        BY <2>1, NullAssumption DEF Keys
    <2> QED BY <2>1, <2>2 DEF WrittenByItsWorker, RowKept
<1>6. LeasedBytesStored'
    BY DEF LeasedBytesStored, RowKept
<1> QED BY <1>1, <1>2, <1>3, <1>4, <1>5, <1>6

(* UploadPut draws an id no row and no other handler has.                    *)
LEMMA PutKeepsBytes ==
    ASSUME LeaseInv, BytesInv, NEW h \in Handlers, UploadPut(h)
    PROVE  BytesInv'
<1> DEFINE c == calls[h]
           key == [build |-> c.build, attempt |-> c.attempt, id |-> uploads + 1]
           d == [c EXCEPT !.at = "record", !.key = key, !.ts = now]
<1>1. c \in Calls /\ c.at = "put"
    BY CallTyped DEF UploadPut, At, Stages, LeaseInv
<1>2. key \in Keys /\ key.id = uploads + 1 /\ uploads \in Nat
    BY <1>1 DEF Keys, Calls, LeaseInv, TypeOK
<1>3. d.at = "record" /\ d.key = key
    BY <1>1 DEF Calls
<1>4. \A g \in Handlers : calls'[g] = IF g = h THEN d ELSE calls[g]
    BY DEF UploadPut, Set, LeaseInv, TypeOK
<1>5. /\ store' = store \cup {key} /\ uploads' = uploads + 1
      /\ builds' = builds /\ approvals' = approvals
    BY DEF UploadPut, rowVars
<1>6. \A b \in Builds : builds[b].artifact # NoKey =>
                            builds[b].artifact \in Keys
    BY DEF LeaseInv, TypeOK, Rows
<1>7. \A b \in Builds : builds[b].artifact # key
    BY <1>2, <1>6, NullAssumption DEF BytesInv, KeysDrawn, Keys
<1>8. \A g \in Handlers : Depositing(g) => calls[g].key # key
    BY <1>2 DEF BytesInv, KeysDrawn, Keys
<1> HIDE DEF c, key, d
<1>9. LeasedIsReviewed' /\ LeasedBytesStored'
    BY <1>5 DEF BytesInv, LeasedIsReviewed, LeasedBytesStored, Reviewed
<1>10. KeysDrawn'
    <2>1. \A b \in Builds : builds[b].artifact # NoKey =>
                                builds[b].artifact.id <= uploads + 1
        BY <1>2, <1>6 DEF BytesInv, KeysDrawn, Keys
    <2>2. \A g \in Handlers : Depositing(g)' =>
              calls'[g].key \in Keys /\ calls'[g].key.id <= uploads + 1
        BY <1>2, <1>3, <1>4 DEF BytesInv, KeysDrawn, Keys, Depositing
    <2> QED BY <1>5, <2>1, <2>2 DEF KeysDrawn
<1>11. KeysApart'
    BY <1>3, <1>4, <1>8 DEF BytesInv, KeysApart, Depositing
<1>12. UnwrittenKeys'
    BY <1>3, <1>4, <1>5, <1>7 DEF BytesInv, UnwrittenKeys, At
<1>13. WrittenByItsWorker'
    BY <1>3, <1>4, <1>5 DEF BytesInv, WrittenByItsWorker, At
<1> QED BY <1>9, <1>10, <1>11, <1>12, <1>13 DEF BytesInv

(* UploadWrite names the key on a row the handler's worker still leases.     *)
LEMMA WriteKeepsBytes ==
    ASSUME LeaseInv, BytesInv, NEW h \in Handlers, UploadWrite(h)
    PROVE  BytesInv'
<1> DEFINE c == calls[h]
           d == [c EXCEPT !.at = "recheck"]
           named == OwnedLease(c) /\ builds[c.build].artifact = NoKey
<1>1. c \in Calls /\ c.at = "record" /\ Depositing(h) /\ At(h, "record")
    BY CallTyped DEF UploadWrite, At, Stages, LeaseInv, Depositing
<1>2. d.at = "recheck" /\ d.key = c.key /\ d.build = c.build /\ d.worker = c.worker
    BY <1>1 DEF Calls
<1>3. \A g \in Handlers : calls'[g] = IF g = h THEN d ELSE calls[g]
    BY DEF UploadWrite, Set, LeaseInv, TypeOK
<1>4. UNCHANGED <<approvals, store, uploads>>
    BY DEF UploadWrite
<1>5. c.build \in Builds /\ c.key \in Keys /\ c.key \in store /\ c.key.id <= uploads
    BY <1>1 DEF Calls, BytesInv, UnwrittenKeys, KeysDrawn
<1>6. \A b \in Builds :
          /\ builds'[b].status = builds[b].status
          /\ builds'[b].worker = builds[b].worker
          /\ builds'[b].artifact = IF named /\ b = c.build THEN c.key
                                   ELSE builds[b].artifact
    BY DEF UploadWrite, LeaseInv, TypeOK, Rows
<1>7. named => builds[c.build].worker = c.worker
    BY DEF OwnedLease
<1> HIDE DEF c, d, named
<1>8. LeasedIsReviewed'
    BY <1>4, <1>6 DEF BytesInv, LeasedIsReviewed, Reviewed
<1>9. LeasedBytesStored'
    BY <1>4, <1>5, <1>6 DEF BytesInv, LeasedBytesStored
<1>10. KeysDrawn'
    BY <1>1, <1>2, <1>3, <1>4, <1>5, <1>6 DEF BytesInv, KeysDrawn, Depositing
<1>11. KeysApart'
    BY <1>1, <1>2, <1>3 DEF BytesInv, KeysApart, Depositing, c
<1>12. UnwrittenKeys'
    <2> SUFFICES ASSUME NEW g \in Handlers, At(g, "record")'
                 PROVE  /\ calls'[g].key \in store
                        /\ \A b \in Builds : builds'[b].artifact # calls'[g].key
        BY <1>4 DEF UnwrittenKeys
    <2>1. g # h /\ calls'[g] = calls[g] /\ At(g, "record") /\ Depositing(g)
        BY <1>2, <1>3 DEF At, Depositing
    <2>2. calls[g].key # c.key
        BY <1>1, <2>1 DEF BytesInv, KeysApart, c
    <2> QED BY <1>6, <2>1, <2>2 DEF BytesInv, UnwrittenKeys
<1>13. WrittenByItsWorker'
    <2> SUFFICES ASSUME NEW g \in Handlers, NEW b \in Builds, At(g, "recheck")',
                        builds'[b].status = "leased",
                        builds'[b].artifact = calls'[g].key
                 PROVE  builds'[b].worker = calls'[g].worker /\ calls'[g].build = b
        BY DEF WrittenByItsWorker
    <2>1. CASE g = h
        <3>1. calls'[g] = d /\ builds'[b].artifact = c.key
            BY <1>2, <1>3, <2>1
        <3>2. builds[b].artifact # c.key
            BY <1>1 DEF BytesInv, UnwrittenKeys, c
        <3>3. named /\ b = c.build
            BY <1>6, <3>1, <3>2
        <3> QED BY <1>2, <1>6, <1>7, <3>1, <3>3
    <2>2. CASE g # h
        <3>1. calls'[g] = calls[g] /\ At(g, "recheck") /\ Depositing(g)
            BY <1>3, <2>2 DEF At, Depositing
        <3>2. calls[g].key # c.key
            BY <1>1, <2>2, <3>1 DEF BytesInv, KeysApart, c
        <3>3. builds[b].artifact = calls[g].key /\ builds[b].status = "leased"
            BY <1>6, <3>1, <3>2
        <3> QED BY <1>6, <3>1, <3>3 DEF BytesInv, WrittenByItsWorker
    <2> QED BY <2>1, <2>2
<1> QED BY <1>8, <1>9, <1>10, <1>11, <1>12, <1>13 DEF BytesInv

(* UploadRecheck deletes bytes no leased row names and no handler waits for. *)
LEMMA RecheckKeepsBytes ==
    ASSUME LeaseInv, BytesInv, NEW h \in Handlers, UploadRecheck(h)
    PROVE  BytesInv'
<1> DEFINE c == calls[h]
<1>1. At(h, "recheck") /\ Depositing(h)
    BY DEF UploadRecheck, At, Depositing
<1>2. \A g \in Handlers : calls'[g] = IF g = h THEN Idle ELSE calls[g]
    BY DEF UploadRecheck, End, Set, LeaseInv, TypeOK
<1>3. UNCHANGED <<builds, approvals, uploads>>
    BY DEF UploadRecheck, rowVars
<1>4. \/ store' = store
      \/ /\ store' = store \ {c.key}
         /\ ~(Visible(c.worker, c.build) /\ builds[c.build].artifact = c.key)
    BY DEF UploadRecheck
<1>5. Idle.at \notin {"record", "recheck"}
    BY DEF Idle
<1>6. LeasedBytesStored'
    <2> SUFFICES ASSUME NEW b \in Builds, builds[b].status = "leased",
                        builds[b].artifact # NoKey
                 PROVE  builds[b].artifact \in store'
        BY <1>3 DEF LeasedBytesStored
    <2>1. builds[b].artifact \in store
        BY DEF BytesInv, LeasedBytesStored
    <2>2. builds[b].artifact = c.key => Visible(c.worker, c.build) /\ c.build = b
        BY <1>1 DEF BytesInv, WrittenByItsWorker, LeasedIsReviewed, Visible
    <2> QED BY <1>4, <2>1, <2>2
<1>7. UnwrittenKeys'
    <2> SUFFICES ASSUME NEW g \in Handlers, At(g, "record")'
                 PROVE  /\ calls'[g].key \in store'
                        /\ \A b \in Builds : builds[b].artifact # calls'[g].key
        BY <1>3 DEF UnwrittenKeys
    <2>1. g # h /\ calls'[g] = calls[g] /\ At(g, "record") /\ Depositing(g)
        BY <1>2, <1>5 DEF At, Depositing
    <2>2. calls[g].key # c.key
        BY <1>1, <2>1 DEF BytesInv, KeysApart
    <2> QED BY <1>4, <2>1, <2>2 DEF BytesInv, UnwrittenKeys
<1>8. LeasedIsReviewed'
    BY <1>3 DEF BytesInv, LeasedIsReviewed, Reviewed
<1>9. KeysDrawn' /\ KeysApart'
    BY <1>2, <1>3, <1>5 DEF BytesInv, KeysDrawn, KeysApart, Depositing
<1>10. WrittenByItsWorker'
    BY <1>2, <1>3, <1>5 DEF BytesInv, WrittenByItsWorker, At
<1> QED BY <1>6, <1>7, <1>8, <1>9, <1>10 DEF BytesInv

(* The steps of handlers and workers that write no row.                      *)
LEMMA QuietKeepsBytes ==
    ASSUME LeaseInv, BytesInv, UNCHANGED <<builds, approvals, store, uploads>>,
           \A g \in Handlers : calls'[g] = calls[g] \/ ~Depositing(g)'
    PROVE  BytesInv'
<1>1. \A b \in Builds : RowKept(b)
    BY DEF RowKept, BytesInv, LeasedIsReviewed, Reviewed
<1> QED BY <1>1, BytesKept

LEMMA StartKeepsBytes ==
    ASSUME LeaseInv, BytesInv, NEW h \in Handlers, Start(h)
    PROVE  BytesInv'
<1>1. UNCHANGED <<builds, approvals, store, uploads>>
    BY DEF Start, ClaimRead, HeartbeatRead, UploadRead, CompleteRead, rowVars
<1>2. \A g \in Handlers : calls'[g] = calls[g] \/ ~Depositing(g)'
    <2>1. ASSUME NEW l, NEW stage \in {"claim", "heartbeat", "put", "verify"},
                 Set(h, CallUnder(l, stage))
          PROVE  \A g \in Handlers : calls'[g] = calls[g] \/ ~Depositing(g)'
        BY <2>1 DEF Set, CallUnder, LeaseInv, TypeOK, Depositing
    <2>2. ASSUME NEW l \in held, NEW s \in {"succeeded", "failed"}, CompleteRead(h, l, s)
          PROVE  \A g \in Handlers : calls'[g] = calls[g] \/ ~Depositing(g)'
        <3> DEFINE d == [CallUnder(l, "verify") EXCEPT
                           !.status = s, !.key = builds[l.build].artifact]
        <3>1. d.at = "verify"
            BY DEF CallUnder
        <3>2. calls' = [calls EXCEPT ![h] = d]
            BY <2>2 DEF CompleteRead, Set
        <3> QED BY <3>1, <3>2 DEF LeaseInv, TypeOK, Depositing
    <2> QED BY <2>1, <2>2 DEF Start, ClaimRead, HeartbeatRead, UploadRead
<1> QED BY <1>1, <1>2, QuietKeepsBytes

LEMMA ProceedKeepsBytes ==
    ASSUME LeaseInv, BytesInv, NEW h \in Handlers,
           \/ ClaimLost(h) \/ ClaimReply(h) \/ CompleteVerify(h)
           \/ CompleteReply(h) \/ Crash(h)
    PROVE  BytesInv'
<1>1. UNCHANGED <<builds, approvals, store, uploads>>
    BY DEF ClaimLost, ClaimReply, CompleteVerify, CompleteReply, Crash, rowVars
<1>2. \A g \in Handlers : calls'[g] = calls[g] \/ ~Depositing(g)'
    <2>1. CASE CompleteVerify(h)
        <3> DEFINE d == [calls[h] EXCEPT !.at = "finish", !.ts = now]
        <3>1. calls[h] \in Calls
            BY <2>1, CallTyped DEF CompleteVerify, At, Stages, LeaseInv
        <3>2. d.at = "finish"
            BY <3>1 DEF Calls
        <3>3. calls' = [calls EXCEPT ![h] = d]
            BY <2>1 DEF CompleteVerify, Set
        <3> QED BY <3>2, <3>3 DEF LeaseInv, TypeOK, Depositing
    <2>2. CASE \/ ClaimLost(h) \/ ClaimReply(h) \/ CompleteReply(h) \/ Crash(h)
        <3>1. calls' = [calls EXCEPT ![h] = Idle]
            BY <2>2 DEF ClaimLost, ClaimReply, CompleteReply, Crash, End, Set
        <3> QED BY <3>1 DEF Idle, LeaseInv, TypeOK, Depositing
    <2> QED BY <2>1, <2>2
<1> QED BY <1>1, <1>2, QuietKeepsBytes

(* The steps of handlers that write a row, but no artifact.                  *)
LEMMA ClaimKeepsBytes ==
    ASSUME LeaseInv, BytesInv, NEW h \in Handlers, ClaimWrite(h)
    PROVE  BytesInv'
<1> DEFINE c == calls[h]
           d == [c EXCEPT !.at = "claimed", !.token = issued + 1]
<1>1. c \in Calls
    BY CallTyped DEF ClaimWrite, At, Stages, LeaseInv
<1>2. d.at = "claimed"
    BY <1>1 DEF Calls
<1>3. \A g \in Handlers : calls'[g] = calls[g] \/ ~Depositing(g)'
    BY <1>2 DEF ClaimWrite, Set, LeaseInv, TypeOK, Depositing
<1>4. \A b \in Builds : RowKept(b)
    BY <1>1 DEF ClaimWrite, Claimable, Reviewed, RowKept, LeaseInv, TypeOK,
                Calls, BytesInv, LeasedIsReviewed
<1>5. UNCHANGED <<store, uploads>>
    BY DEF ClaimWrite
<1> QED BY <1>3, <1>4, <1>5, BytesKept

LEMMA RowWriteKeepsBytes ==
    ASSUME LeaseInv, BytesInv, NEW h \in Handlers,
           HeartbeatWrite(h) \/ CompleteWrite(h)
    PROVE  BytesInv'
<1> DEFINE c == calls[h]
<1>1. c \in Calls
    BY CallTyped DEF HeartbeatWrite, CompleteWrite, At, Stages, LeaseInv
<1>2. UNCHANGED <<approvals, store, uploads>>
    BY DEF HeartbeatWrite, CompleteWrite
<1>3. \A g \in Handlers : calls'[g] = calls[g] \/ ~Depositing(g)'
    <2>1. CASE HeartbeatWrite(h)
        BY <2>1 DEF HeartbeatWrite, End, Set, LeaseInv, TypeOK, Depositing, Idle
    <2>2. CASE CompleteWrite(h)
        <3> DEFINE d == [c EXCEPT !.at = "settle"]
        <3>1. d.at = "settle"
            BY <1>1 DEF Calls
        <3> QED BY <2>2, <3>1 DEF CompleteWrite, Set, LeaseInv, TypeOK, Depositing
    <2> QED BY <2>1, <2>2
<1>4. \A b \in Builds : RowKept(b)
    <2> SUFFICES ASSUME NEW b \in Builds PROVE RowKept(b)
        OBVIOUS
    <2>1. builds[b] \in Rows /\ (builds[b].status = "leased" => approvals = Reviewers)
        BY DEF LeaseInv, TypeOK, BytesInv, LeasedIsReviewed, Reviewed
    <2>2. CASE HeartbeatWrite(h)
        BY <1>2, <2>1, <2>2 DEF HeartbeatWrite, OwnedLease, RowKept, LeaseInv, TypeOK, Rows
    <2>3. CASE CompleteWrite(h)
        BY <1>1, <1>2, <2>1, <2>3
        DEF CompleteWrite, Completed, OwnedLease, RowKept, LeaseInv, TypeOK, Rows, Calls
    <2> QED BY <2>2, <2>3
<1> QED BY <1>2, <1>3, <1>4, BytesKept

LEMMA BlockedKeepsBytes ==
    ASSUME LeaseInv, BytesInv, NEW h \in Handlers, CompleteBlocked(h)
    PROVE  BytesInv'
<1> DEFINE c == calls[h]
           d == [c EXCEPT !.at = "settle"]
<1>1. d.at = "settle"
    BY CallTyped DEF CompleteBlocked, At, Stages, LeaseInv, Calls
<1>2. \A g \in Handlers : calls'[g] = calls[g] \/ ~Depositing(g)'
    BY <1>1 DEF CompleteBlocked, Set, LeaseInv, TypeOK, Depositing
<1>3. UNCHANGED <<approvals, store, uploads>>
    BY DEF CompleteBlocked
<1>4. \A b \in Builds : RowKept(b)
    BY <1>3, BlockedRows DEF Ended, RowKept, BytesInv, LeasedIsReviewed, Reviewed
<1> QED BY <1>2, <1>3, <1>4, BytesKept

(* Administration only ever takes bytes and leases away.                     *)
LEMMA AdministerKeepsBytes ==
    ASSUME LeaseInv, BytesInv, Administer
    PROVE  BytesInv'
<1>1. UNCHANGED <<store, uploads, calls>>
    BY DEF Administer, RevokeWorker, PauseWorker, ResumeWorker, Accept,
           ArchiveWorker, RetryBuild, FenceReviewer
<1>2. ASSUME NEW b \in Builds PROVE RowKept(b)
    <2>1. builds[b] \in Rows /\ (builds[b].status = "leased" => approvals = Reviewers)
        BY <1>2 DEF LeaseInv, TypeOK, BytesInv, LeasedIsReviewed, Reviewed
    <2>2. ASSUME NEW w \in Workers, RevokeWorker(w) PROVE RowKept(b)
        BY <1>2, <2>1, <2>2 DEF RevokeWorker, RowKept, Cleared, Rows
    <2>3. ASSUME NEW w \in Workers,
                 PauseWorker(w) \/ ResumeWorker(w) \/ ArchiveWorker(w)
          PROVE  RowKept(b)
        BY <2>1, <2>3 DEF PauseWorker, ResumeWorker, Accept, ArchiveWorker, RowKept
    <2>4. ASSUME NEW a \in Builds, RetryBuild(a) PROVE RowKept(b)
        <3>1. approvals' = approvals /\ builds' = [builds EXCEPT ![a] = Cleared(@, "queued")]
            BY <2>4 DEF RetryBuild
        <3>2. CASE a = b
            BY <1>2, <2>1, <3>1, <3>2 DEF RowKept, Cleared, Rows, LeaseInv, TypeOK
        <3>3. CASE a # b
            BY <1>2, <2>1, <3>1, <3>3 DEF RowKept, LeaseInv, TypeOK
        <3> QED BY <3>2, <3>3
    <2>5. ASSUME NEW r \in Reviewers, FenceReviewer(r) PROVE RowKept(b)
        <3>1. builds'[b].artifact = builds[b].artifact /\ builds'[b].status # "leased"
            BY <1>2, <2>1, <2>5 DEF FenceReviewer, Cleared, Rows, Active
        <3> QED BY <3>1 DEF RowKept
    <2> QED BY <2>2, <2>3, <2>4, <2>5 DEF Administer
<1> QED BY <1>1, <1>2, BytesKept

LEMMA NextBytesInv ==
    ASSUME LeaseInv, BytesInv, [Next]_vars
    PROVE  BytesInv'
<1>1. CASE UNCHANGED vars \/ Tick \/ \E l \in held : CompleteReplay(l)
    <2>1. UNCHANGED <<builds, approvals, store, uploads, calls>>
        BY <1>1 DEF vars, rowVars, Tick, CompleteReplay
    <2> QED BY <2>1, QuietKeepsBytes
<1>2. ASSUME NEW h \in Handlers, Start(h) \/ Step(h) PROVE BytesInv'
    BY <1>2, StartKeepsBytes, ProceedKeepsBytes, ClaimKeepsBytes,
       RowWriteKeepsBytes, BlockedKeepsBytes, PutKeepsBytes, WriteKeepsBytes,
       RecheckKeepsBytes
    DEF Step
<1> QED BY <1>1, <1>2, AdministerKeepsBytes DEF Next

LEMMA InitBytesInv == Init => BytesInv
BY DEF Init, BytesInv, LeasedIsReviewed, KeysDrawn, KeysApart, UnwrittenKeys,
       WrittenByItsWorker, LeasedBytesStored, Depositing, At, Idle

(* Bytes and rows stay together: what the cleanups of uploadArtifact rely on. *)
THEOREM BytesInvariant == Spec => []BytesInv
BY InitBytesInv, NextBytesInv, LeaseInvariant, PTL DEF Spec

(* uploadArtifact and completeJob: a leased row names only bytes of its own  *)
(* attempt and these are in the bucket, whichever late upload cleans up; a   *)
(* succeeded row names bytes of its own attempt.                             *)
THEOREM ArtifactsAreTheirOwn == Spec => []ArtifactIsItsOwn
<1>1. BytesInv => LeasedBytesStored
    BY DEF BytesInv
<1> QED BY <1>1, BytesInvariant, ArtifactsStayInTheirAttempt, PTL
    DEF ArtifactIsItsOwn

-----------------------------------------------------------------------------
(* How one step may change a row: a claim, a write under the row's own       *)
(* token, or a fence that takes the lease away.                              *)
RowStep(b) ==
    \/ builds'[b] = builds[b]
    \/ \E h \in Handlers :
          /\ calls[h] # Idle
          /\ Takeable(builds[b], calls[h].ts)
    \/ /\ builds[b].status = "leased"
       /\ builds'[b].token = builds[b].token
    \/ /\ builds[b].status \in {"leased", "queued", "failed"}
       /\ builds'[b].status \in {"queued", "cancelled"}

(* No operation changes a row in any other way. *)
LEMMA NextRowStep ==
    ASSUME LeaseInv, [Next]_vars, NEW b \in Builds
    PROVE  RowStep(b)
<1> USE DEF RowStep
<1>1. builds[b] \in Rows
    BY DEF LeaseInv, TypeOK
<1>2. ASSUME builds' = builds PROVE RowStep(b)
    BY <1>2
<1>3. ASSUME NEW h \in Handlers, Step(h) PROVE RowStep(b)
    <2> DEFINE c == calls[h]
    <2>1. ASSUME c.at \in Stages PROVE c \in Calls /\ c # Idle
        BY <2>1, CallTyped DEF LeaseInv
    <2>2. CASE ClaimWrite(h)
        <3>1. c # Idle /\ Takeable(builds[c.build], c.ts)
            BY <2>1, <2>2 DEF ClaimWrite, At, Stages, Claimable
        <3>2. b # c.build => builds'[b] = builds[b]
            BY <2>2 DEF ClaimWrite, LeaseInv, TypeOK
        <3> QED BY <3>1, <3>2
    <2>3. CASE HeartbeatWrite(h)
        BY <1>1, <2>3 DEF HeartbeatWrite, OwnedLease, LeaseInv, TypeOK, Rows
    <2>4. CASE UploadWrite(h)
        BY <1>1, <2>4 DEF UploadWrite, OwnedLease, LeaseInv, TypeOK, Rows
    <2>5. CASE CompleteWrite(h)
        BY <1>1, <2>5 DEF CompleteWrite, Completed, OwnedLease, LeaseInv, TypeOK, Rows
    <2>6. CASE \/ ClaimLost(h) \/ ClaimReply(h) \/ UploadPut(h)
               \/ UploadRecheck(h) \/ CompleteVerify(h) \/ CompleteReply(h)
               \/ Crash(h)
        BY <2>6, <1>2 DEF ClaimLost, ClaimReply, UploadPut, UploadRecheck,
                          CompleteVerify, CompleteReply, Crash, rowVars
    <2>7. CASE CompleteBlocked(h)
        BY <2>7, BlockedRows DEF Ended
    <2> QED BY <1>3, <2>2, <2>3, <2>4, <2>5, <2>6, <2>7 DEF Step
<1>4. CASE Administer
    <2>1. ASSUME NEW w \in Workers, RevokeWorker(w) PROVE RowStep(b)
        BY <1>1, <2>1, ClearedTyped DEF RevokeWorker, BuildStatus
    <2>2. ASSUME NEW d \in Builds, RetryBuild(d) PROVE RowStep(b)
        <3>1. b # d => builds'[b] = builds[b]
            BY <2>2 DEF RetryBuild, LeaseInv, TypeOK
        <3>2. b = d => builds'[b] = Cleared(builds[b], "queued")
            BY <2>2 DEF RetryBuild, LeaseInv, TypeOK
        <3> QED BY <1>1, <2>2, <3>1, <3>2, ClearedTyped
                DEF RetryBuild, BuildStatus
    <2>3. ASSUME NEW r \in Reviewers, FenceReviewer(r) PROVE RowStep(b)
        <3>1. builds'[b] = IF builds[b].status \in Active
                           THEN [Cleared(builds[b], "cancelled") EXCEPT
                                   !.artifact = builds[b].artifact]
                           ELSE builds[b]
            BY <2>3 DEF FenceReviewer
        <3> QED BY <1>1, <3>1 DEF Active, Cleared, Rows
    <2>4. ASSUME NEW w \in Workers,
                 PauseWorker(w) \/ ResumeWorker(w) \/ ArchiveWorker(w)
          PROVE  RowStep(b)
        BY <2>4 DEF PauseWorker, ResumeWorker, Accept, ArchiveWorker
    <2> QED BY <1>4, <2>1, <2>2, <2>3, <2>4 DEF Administer
<1>5. ASSUME \/ UNCHANGED vars \/ Tick
             \/ \E h \in Handlers : Start(h)
             \/ \E l \in held : CompleteReplay(l)
      PROVE  RowStep(b)
    BY <1>2, <1>5 DEF vars, rowVars, Tick, Start, ClaimRead, HeartbeatRead,
                      UploadRead, CompleteRead, CompleteReplay
<1> QED BY <1>3, <1>4, <1>5 DEF Next

(* claimJob, completeJob, retryBuild and the fences never touch the row of a *)
(* build that succeeded.                                                     *)
THEOREM SuccessIsFinal == Spec => SucceededStays
<1>1. LeaseInv /\ [Next]_vars =>
        [\A b \in Builds : builds[b].status = "succeeded" =>
           builds'[b] = builds[b]]_vars
    BY NextRowStep DEF RowStep, Takeable
<1> QED BY <1>1, LeaseInvariant, PTL DEF Spec, SucceededStays

(* claimJob compares the expiry with a clock it read earlier; the lease it   *)
(* takes over has still expired.                                             *)
THEOREM NoLiveLeaseIsStolen == Spec => LiveLeaseNotStolen
<1>1. ASSUME LeaseInv, [Next]_vars, NEW b \in Builds,
             builds[b].status = "leased", builds'[b].status = "leased",
             builds'[b].token # builds[b].token
      PROVE  builds[b].expires < now
    <2>1. PICK h \in Handlers : /\ calls[h] # Idle
                                /\ Takeable(builds[b], calls[h].ts)
        BY <1>1, NextRowStep DEF RowStep
    <2>2. calls[h] \in Calls /\ calls[h].ts <= now
        BY <1>1, <2>1 DEF LeaseInv, TypeOK, CallsBound, CallBound
    <2>3. builds[b].expires < calls[h].ts
        BY <1>1, <2>1 DEF Takeable
    <2> QED BY <1>1, <2>2, <2>3 DEF LeaseInv, TypeOK, Rows, Calls
<1>2. LeaseInv /\ [Next]_vars =>
        [\A b \in Builds :
           /\ builds[b].status = "leased"
           /\ builds'[b].status = "leased"
           /\ builds'[b].token # builds[b].token
           => builds[b].expires < now]_vars
    BY <1>1
<1> QED BY <1>2, LeaseInvariant, PTL DEF Spec, LiveLeaseNotStolen

-----------------------------------------------------------------------------
(* The attempt a row stands for in the abstract lease. *)
RowAttempt(row) ==
    IF row.status \in {"leased", "succeeded"}
    THEN [token |-> row.token,
          deposit |-> /\ row.artifact # NoKey
                      /\ row.artifact.attempt = row.attempt]
    ELSE NoAttempt

Current == [b \in Builds |-> RowAttempt(builds[b])]
Finished == {b \in Builds : builds[b].status = "succeeded"}

(* The actions of the contract, in terms of the rows. *)
LEMMA Begins ==
    ASSUME NEW b \in Builds, b \notin Finished,
           Current' = [Current EXCEPT ![b] = [token |-> issued + 1,
                                              deposit |-> FALSE]],
           issued' = issued + 1, UNCHANGED <<Finished, acked>>
    PROVE  Contract!Next
BY DEF Contract!Next, Contract!Begin, Current, Finished, RowAttempt, Running,
       AttemptOf

LEMMA Deposits ==
    ASSUME NEW b \in Builds, b \notin Finished, Current[b] # NoAttempt,
           Current' = [Current EXCEPT ![b] = [token |-> Current[b].token,
                                              deposit |-> TRUE]],
           UNCHANGED <<Finished, issued, acked>>
    PROVE  Contract!Next
BY DEF Contract!Next, Contract!Deposit, Current, Finished, RowAttempt,
       Running, AttemptOf

LEMMA Finishes ==
    ASSUME NEW b \in Builds, Current[b] # NoAttempt, Current[b].deposit,
           Finished' = Finished \cup {b},
           UNCHANGED <<Current, issued, acked>>
    PROVE  Contract!Next
BY DEF Contract!Next, Contract!Finish, Current, Finished, RowAttempt, Running,
       AttemptOf

LEMMA Confirms ==
    ASSUME NEW b \in Finished, acked' = acked \cup {Current[b].token},
           UNCHANGED <<Current, Finished, issued>>
    PROVE  Contract!Next
BY DEF Contract!Next, Contract!Confirm, Current, Finished, RowAttempt,
       Running, AttemptOf

LEMMA Abandons ==
    ASSUME NEW bs \in SUBSET Builds, bs \cap Finished = {},
           Current' = [b \in Builds |-> IF b \in bs THEN NoAttempt
                                        ELSE Current[b]],
           UNCHANGED <<Finished, issued, acked>>
    PROVE  Contract!Next
BY DEF Contract!Next, Contract!Abandon, Current, Finished, RowAttempt,
       Running, AttemptOf

LEMMA Stutters ==
    ASSUME UNCHANGED <<Current, Finished, issued, acked>>
    PROVE  UNCHANGED Contract!vars
BY DEF Contract!vars, Current, Finished, RowAttempt, Running, AttemptOf

-----------------------------------------------------------------------------
(* What a write to one row, and a write to none, do to the abstract lease. *)
LEMMA RowWritten ==
    ASSUME LeaseInv, NEW b \in Builds, NEW row,
           builds' = [builds EXCEPT ![b] = row]
    PROVE  /\ Current' = [Current EXCEPT ![b] = RowAttempt(row)]
           /\ Finished' = IF row.status = "succeeded"
                          THEN Finished \cup {b} ELSE Finished \ {b}
<1>1. \A d \in Builds : builds'[d] = IF d = b THEN row ELSE builds[d]
    BY DEF LeaseInv, TypeOK
<1>2. Current' = [Current EXCEPT ![b] = RowAttempt(row)]
    BY <1>1 DEF Current, RowAttempt
<1>3. Finished' = IF row.status = "succeeded"
                  THEN Finished \cup {b} ELSE Finished \ {b}
    BY <1>1 DEF Finished
<1> QED BY <1>2, <1>3

(* A write to a leased row that leaves its attempt under way. *)
LEMMA LeasedRowWritten ==
    ASSUME LeaseInv, NEW b \in Builds, NEW row,
           builds[b].status = "leased", row.status = "leased",
           builds' = [builds EXCEPT ![b] = row]
    PROVE  /\ b \notin Finished
           /\ Finished' = Finished
           /\ Current[b] = RowAttempt(builds[b])
           /\ Current[b] # NoAttempt
           /\ Current[b].token = builds[b].token
           /\ Current' = [Current EXCEPT ![b] = RowAttempt(row)]
<1>1. b \notin Finished
    BY DEF Finished
<1>2. /\ Current[b] = RowAttempt(builds[b])
      /\ Current[b] # NoAttempt
      /\ Current[b].token = builds[b].token
    BY DEF Current, RowAttempt, NoAttempt
<1>3. /\ Current' = [Current EXCEPT ![b] = RowAttempt(row)]
      /\ Finished' = Finished \ {b}
    BY RowWritten
<1>4. Finished' = Finished
    BY <1>1, <1>3
<1> QED BY <1>1, <1>2, <1>3, <1>4

LEMMA NoRowWritten ==
    ASSUME builds' = builds
    PROVE  Current' = Current /\ Finished' = Finished
BY DEF Current, Finished, RowAttempt

-----------------------------------------------------------------------------
LEMMA ClaimImplements ==
    ASSUME LeaseInv, NEW h \in Handlers, ClaimWrite(h)
    PROVE  Contract!Next
<1> DEFINE c == calls[h]
           row == [status |-> "leased", worker |-> c.worker,
                   token |-> issued + 1, expires |-> c.ts + LeaseSeconds,
                   attempt |-> builds[c.build].attempt + 1,
                   artifact |-> NoKey]
           begun == [token |-> issued + 1, deposit |-> FALSE]
<1>1. c.build \in Builds
    BY CallTyped DEF LeaseInv, ClaimWrite, At, Stages, Calls
<1>2. /\ builds[c.build].status # "succeeded"
      /\ builds' = [builds EXCEPT ![c.build] = row]
      /\ issued' = issued + 1
      /\ UNCHANGED acked
    BY DEF ClaimWrite, Claimable, Takeable
<1>3. RowAttempt(row) = begun /\ row.status # "succeeded"
    BY DEF RowAttempt
<1> HIDE DEF row
<1>4. /\ Current' = [Current EXCEPT ![c.build] = begun]
      /\ Finished' = Finished \ {c.build}
    BY <1>1, <1>2, <1>3, RowWritten
<1>5. c.build \notin Finished /\ UNCHANGED <<Finished, acked>>
    BY <1>2, <1>4 DEF Finished
<1> QED BY <1>1, <1>2, <1>4, <1>5, Begins

LEMMA HeartbeatImplements ==
    ASSUME LeaseInv, NEW h \in Handlers, HeartbeatWrite(h)
    PROVE  UNCHANGED Contract!vars
<1> DEFINE c == calls[h]
           row == [builds[c.build] EXCEPT !.expires = c.ts + LeaseSeconds]
<1>1. c.build \in Builds /\ builds[c.build] \in Rows
    BY CallTyped DEF LeaseInv, TypeOK, HeartbeatWrite, At, Stages, Calls
<1>2. CASE OwnedLease(c)
    <2>1. /\ builds' = [builds EXCEPT ![c.build] = row]
          /\ UNCHANGED <<issued, acked>>
        BY <1>2 DEF HeartbeatWrite
    <2>2. /\ RowAttempt(row) = RowAttempt(builds[c.build])
          /\ builds[c.build].status = "leased"
          /\ row.status = "leased"
        BY <1>1, <1>2 DEF OwnedLease, Rows, RowAttempt
    <2> HIDE DEF row
    <2>3. /\ Finished' = Finished
          /\ Current[c.build] = RowAttempt(row)
          /\ Current' = [Current EXCEPT ![c.build] = RowAttempt(row)]
        BY <1>1, <2>1, <2>2, LeasedRowWritten
    <2>4. Current' = Current
        BY <2>3 DEF Current
    <2> QED BY <2>1, <2>3, <2>4, Stutters
<1>3. CASE ~OwnedLease(c)
    BY <1>3, NoRowWritten, Stutters DEF HeartbeatWrite
<1> QED BY <1>2, <1>3

LEMMA UploadImplements ==
    ASSUME LeaseInv, NEW h \in Handlers, UploadWrite(h)
    PROVE  Contract!Next \/ UNCHANGED Contract!vars
<1> DEFINE c == calls[h]
           row == [builds[c.build] EXCEPT !.artifact = c.key]
           fed == [token |-> builds[c.build].token, deposit |-> TRUE]
<1>1. /\ c.build \in Builds /\ builds[c.build] \in Rows
      /\ c # Idle /\ CallBound(c)
    BY CallTyped
    DEF LeaseInv, TypeOK, CallsBound, UploadWrite, At, Stages, Calls
<1>2. CASE OwnedLease(c) /\ builds[c.build].artifact = NoKey
    <2>1. /\ builds' = [builds EXCEPT ![c.build] = row]
          /\ UNCHANGED <<issued, acked>>
          /\ builds[c.build].status = "leased"
        BY <1>2 DEF UploadWrite, OwnedLease
    <2>2. c.key \in Keys /\ c.key.attempt = builds[c.build].attempt
        BY <1>1, <1>2
        DEF UploadWrite, At, CallBound, StillHolds, OwnedLease
    <2>3. c.key # NoKey
        BY <2>2, NullAssumption DEF Keys
    <2>4. row.status = "leased" /\ RowAttempt(row) = fed
        BY <1>1, <2>1, <2>2, <2>3 DEF Rows, RowAttempt
    <2> HIDE DEF row
    <2>5. /\ c.build \notin Finished
          /\ Finished' = Finished
          /\ Current[c.build] # NoAttempt
          /\ Current[c.build].token = builds[c.build].token
          /\ Current' = [Current EXCEPT ![c.build] = RowAttempt(row)]
        BY <1>1, <2>1, <2>4, LeasedRowWritten
    <2>6. Current' = [Current EXCEPT ![c.build] =
                        [token |-> Current[c.build].token, deposit |-> TRUE]]
        BY <2>4, <2>5
    <2> QED BY <1>1, <2>1, <2>5, <2>6, Deposits
<1>3. CASE ~(OwnedLease(c) /\ builds[c.build].artifact = NoKey)
    BY <1>3, NoRowWritten, Stutters DEF UploadWrite
<1> QED BY <1>2, <1>3

LEMMA CompleteImplements ==
    ASSUME LeaseInv, NEW h \in Handlers, CompleteWrite(h)
    PROVE  Contract!Next \/ UNCHANGED Contract!vars
<1> DEFINE c == calls[h]
           row == [builds[c.build] EXCEPT !.status = c.status,
                                          !.expires = c.ts]
<1>1. /\ c.build \in Builds /\ builds[c.build] \in Rows
      /\ c \in Calls /\ c # Idle /\ CallBound(c)
    BY CallTyped
    DEF LeaseInv, TypeOK, CallsBound, CompleteWrite, At, Stages, Calls
<1>2. CASE OwnedLease(c)
    <2>1. /\ builds' = [builds EXCEPT ![c.build] = row]
          /\ UNCHANGED <<issued, acked>>
          /\ builds[c.build].status = "leased"
        BY <1>1, <1>2 DEF CompleteWrite, Completed, OwnedLease, LeaseInv, TypeOK
    <2>2. /\ c.build \notin Finished
          /\ Current[c.build] = RowAttempt(builds[c.build])
          /\ Current[c.build] # NoAttempt
        BY <1>1, <2>1 DEF Finished, Current, RowAttempt, NoAttempt
    <2>3. row.status = c.status
        BY <1>1 DEF Rows
    <2>4. CASE c.status = "succeeded"
        <3>1. /\ builds[c.build].artifact # NoKey
              /\ builds[c.build].artifact.attempt = builds[c.build].attempt
            BY <1>1, <1>2, <2>4
            DEF CallBound, StillHolds, OwnedLease, CompleteWrite, At,
                LeaseInv, RowsInv, ArtifactOfItsAttempt
        <3>2. Current[c.build].deposit
            BY <2>1, <2>2, <3>1 DEF RowAttempt
        <3>3. RowAttempt(row) = Current[c.build]
            BY <1>1, <2>1, <2>2, <2>4 DEF Rows, RowAttempt
        <3> HIDE DEF row
        <3>4. /\ Current' = [Current EXCEPT ![c.build] = Current[c.build]]
              /\ Finished' = Finished \cup {c.build}
            <4>1. row.status = "succeeded"
                BY <2>3, <2>4
            <4> QED BY <1>1, <2>1, <3>3, <4>1, RowWritten
        <3>5. Current' = Current
            BY <3>4 DEF Current
        <3> QED BY <1>1, <2>1, <2>2, <3>2, <3>4, <3>5, Finishes
    <2>5. CASE c.status # "succeeded"
        <3>1. c.status = "failed"
            BY <1>1, <2>5 DEF Calls
        <3>2. RowAttempt(row) = NoAttempt
            BY <2>3, <3>1 DEF RowAttempt
        <3> HIDE DEF row
        <3>3. /\ Current' = [Current EXCEPT ![c.build] = NoAttempt]
              /\ Finished' = Finished \ {c.build}
            BY <1>1, <2>1, <2>3, <3>1, <3>2, RowWritten
        <3>4. Current' = [b \in Builds |-> IF b \in {c.build}
                                           THEN NoAttempt ELSE Current[b]]
            BY <3>3 DEF Current
        <3>5. Finished' = Finished
            BY <2>2, <3>3
        <3> QED BY <1>1, <2>1, <2>2, <3>4, <3>5, Abandons
    <2> QED BY <2>4, <2>5
<1>3. CASE ~OwnedLease(c)
    BY <1>3, NoRowWritten, Stutters DEF CompleteWrite, Completed
<1> QED BY <1>2, <1>3

LEMMA BlockedImplements ==
    ASSUME LeaseInv, NEW h \in Handlers, CompleteBlocked(h)
    PROVE  Contract!Next
<1> DEFINE bs == {b \in Builds : builds'[b] # builds[b]}
<1>1. /\ \A b \in bs : Ended(b)
      /\ \A b \in Builds \ bs : builds'[b] = builds[b]
      /\ UNCHANGED <<issued, acked>>
    BY BlockedRows DEF CompleteBlocked
<1>2. bs \cap Finished = {} /\ Finished' = Finished
    BY <1>1 DEF Finished, Ended
<1>3. \A b \in Builds : RowAttempt(builds[b])' =
        IF b \in bs THEN NoAttempt ELSE RowAttempt(builds[b])
    BY <1>1 DEF RowAttempt, Ended
<1>4. Current' = [b \in Builds |-> IF b \in bs THEN NoAttempt ELSE Current[b]]
    BY <1>3 DEF Current
<1> QED BY <1>1, <1>2, <1>4, Abandons

(* An acknowledgement names the attempt the row finished with. *)
LEMMA AcknowledgementImplements ==
    ASSUME LeaseInv, NEW l, l.build \in Builds, ShowsSuccess(l),
           acked' = acked \cup {l.token}, UNCHANGED <<builds, issued>>
    PROVE  Contract!Next
<1>1. l.build \in Finished /\ Current[l.build].token = l.token
    BY DEF ShowsSuccess, Finished, Current, RowAttempt
<1> QED BY <1>1, NoRowWritten, Confirms

LEMMA StepImplements ==
    ASSUME LeaseInv, NEW h \in Handlers, Step(h)
    PROVE  Contract!Next \/ UNCHANGED Contract!vars
<1>1. CASE CompleteReply(h)
    <2> DEFINE c == calls[h]
    <2>1. c.build \in Builds /\ UNCHANGED <<builds, issued>>
        BY <1>1, CallTyped
        DEF LeaseInv, CompleteReply, At, Stages, Calls, rowVars
    <2>2. CASE c.status = "succeeded" /\ ShowsSuccess(c)
        <3>1. acked' = acked \cup {c.token}
            BY <1>1, <2>2 DEF CompleteReply
        <3> QED BY <2>1, <2>2, <3>1, AcknowledgementImplements
    <2>3. CASE ~(c.status = "succeeded" /\ ShowsSuccess(c))
        <3>1. UNCHANGED acked
            BY <1>1, <2>3 DEF CompleteReply
        <3> QED BY <2>1, <3>1, NoRowWritten, Stutters
    <2> QED BY <2>2, <2>3
<1>2. CASE \/ ClaimLost(h) \/ ClaimReply(h) \/ UploadPut(h)
           \/ UploadRecheck(h) \/ CompleteVerify(h) \/ Crash(h)
    BY <1>2, NoRowWritten, Stutters
    DEF ClaimLost, ClaimReply, UploadPut, UploadRecheck, CompleteVerify,
        Crash, rowVars
<1> QED BY <1>1, <1>2, ClaimImplements, HeartbeatImplements,
           UploadImplements, CompleteImplements, BlockedImplements DEF Step

(* Fences and retries take attempts back, or touch rows without one. *)
LEMMA AdministerImplements ==
    ASSUME LeaseInv, Administer
    PROVE  Contract!Next \/ UNCHANGED Contract!vars
<1>1. \A b \in Builds : builds[b] \in Rows
    BY DEF LeaseInv, TypeOK
<1>2. ASSUME NEW bs \in SUBSET Builds,
             \A b \in bs : /\ builds[b].status # "succeeded"
                           /\ builds'[b].status \in {"queued", "cancelled"},
             \A b \in Builds \ bs : builds'[b] = builds[b],
             UNCHANGED <<issued, acked>>
      PROVE  Contract!Next
    <2>1. bs \cap Finished = {} /\ Finished' = Finished
        BY <1>2 DEF Finished
    <2>2. \A b \in Builds : RowAttempt(builds[b])' =
            IF b \in bs THEN NoAttempt ELSE RowAttempt(builds[b])
        BY <1>2 DEF RowAttempt
    <2>3. Current' = [b \in Builds |-> IF b \in bs THEN NoAttempt
                                       ELSE Current[b]]
        BY <2>2 DEF Current
    <2> QED BY <1>2, <2>1, <2>3, Abandons
<1>3. ASSUME NEW w \in Workers, RevokeWorker(w) PROVE Contract!Next
    <2> DEFINE bs == {b \in Builds : /\ builds[b].worker = w
                                     /\ builds[b].status = "leased"}
    <2>1. \A b \in bs : /\ builds[b].status # "succeeded"
                        /\ builds'[b].status = "queued"
        BY <1>1, <1>3 DEF RevokeWorker, Cleared, Rows
    <2>2. /\ \A b \in Builds \ bs : builds'[b] = builds[b]
          /\ UNCHANGED <<issued, acked>>
        BY <1>3 DEF RevokeWorker
    <2> QED BY <1>2, <2>1, <2>2
<1>4. ASSUME NEW r \in Reviewers, FenceReviewer(r) PROVE Contract!Next
    <2> DEFINE bs == {b \in Builds : builds[b].status \in Active}
    <2>1. \A b \in bs : /\ builds[b].status # "succeeded"
                        /\ builds'[b].status = "cancelled"
        BY <1>1, <1>4 DEF FenceReviewer, Active, Cleared, Rows
    <2>2. /\ \A b \in Builds \ bs : builds'[b] = builds[b]
          /\ UNCHANGED <<issued, acked>>
        BY <1>4 DEF FenceReviewer
    <2> QED BY <1>2, <2>1, <2>2
<1>5. ASSUME NEW d \in Builds, RetryBuild(d) PROVE Contract!Next
    <2>1. builds[d].status # "succeeded" /\ UNCHANGED <<issued, acked>>
        BY <1>5 DEF RetryBuild
    <2>2. builds' = [builds EXCEPT ![d] = Cleared(builds[d], "queued")]
        BY <1>5 DEF RetryBuild
    <2>3. \A b \in Builds : builds'[b] =
            IF b = d THEN Cleared(builds[d], "queued") ELSE builds[b]
        BY <2>2 DEF LeaseInv, TypeOK
    <2>4. Cleared(builds[d], "queued").status = "queued"
        BY <1>1 DEF Cleared, Rows
    <2>5. /\ \A b \in {d} : /\ builds[b].status # "succeeded"
                          /\ builds'[b].status = "queued"
          /\ \A b \in Builds \ {d} : builds'[b] = builds[b]
        BY <2>1, <2>3, <2>4
    <2> QED BY <1>2, <2>1, <2>5
<1>6. ASSUME NEW w \in Workers,
             PauseWorker(w) \/ ResumeWorker(w) \/ ArchiveWorker(w)
      PROVE  UNCHANGED Contract!vars
    BY <1>6, NoRowWritten, Stutters
    DEF PauseWorker, ResumeWorker, Accept, ArchiveWorker
<1> QED BY <1>3, <1>4, <1>5, <1>6 DEF Administer

(* Every step is a step of the contract, or none of it. *)
LEMMA NextImplements ==
    ASSUME LeaseInv, [Next]_vars
    PROVE  [Contract!Next]_(Contract!vars)
<1>1. ASSUME NEW h \in Handlers, Start(h)
      PROVE  UNCHANGED Contract!vars
    BY <1>1, NoRowWritten, Stutters
    DEF Start, ClaimRead, HeartbeatRead, UploadRead, CompleteRead, rowVars
<1>2. ASSUME NEW l \in held, CompleteReplay(l)
      PROVE  Contract!Next
    <2>1. l.build \in Builds
        BY <1>2 DEF LeaseInv, TypeOK, Leases
    <2> QED BY <1>2, <2>1, AcknowledgementImplements DEF CompleteReplay, rowVars
<1>3. CASE Tick \/ UNCHANGED vars
    BY <1>3, NoRowWritten, Stutters DEF Tick, vars, rowVars
<1> QED BY <1>1, <1>2, <1>3, StepImplements, AdministerImplements DEF Next

LEMMA InitImplements == Init => Contract!Init
BY DEF Init, Contract!Init, Running

(* The worker protocol, with every interleaving of reads and writes, keeps   *)
(* the contract of AttemptLease.                                             *)
THEOREM KeepsContract == Spec => ImplementsContract
BY InitImplements, NextImplements, LeaseInvariant, PTL
DEF Spec, ImplementsContract, Contract!Spec
-----------------------------------------------------------------------------
(* The protocol with finalizations running inside it.                        *)

ReviewInv ==
    /\ LeaseInv
    /\ approving \in [Reviewers -> ApprovalStages]
    /\ ActiveBuildIsReviewed
    /\ StoppedRequestHasNoActiveBuild
    /\ BuildingIsGoingOn

-----------------------------------------------------------------------------
(* What an approval handler writes: a cancelled or failed row is queued with *)
(* its lease cleared, or no row is written at all.                           *)
Requeued(b) ==
    /\ builds[b].status \in {"cancelled", "failed"}
    /\ builds'[b] = [Cleared(builds[b], "queued") EXCEPT !.artifact = builds[b].artifact]

Written ==
    /\ request = "queued" /\ request' = "queued"
    /\ Reviewed /\ approvals' = approvals
    /\ builds' \in [Builds -> Rows]
    /\ \A b \in Builds :
         IF builds[b].status \in {"cancelled", "failed"}
         THEN Requeued(b) ELSE builds'[b] = builds[b]

(* Nothing of the reviewed request changes, the revision is approved, locked *)
(* or reopened while no build of it runs, or its builds are queued again.    *)
ApprovalStep ==
    /\ UNCHANGED leaseVars
    /\ approving' \in [Reviewers -> ApprovalStages]
    /\ \/ UNCHANGED <<builds, request, approvals>>
       \/ /\ UNCHANGED <<builds, request>>
          /\ approvals \subseteq approvals' /\ approvals' \subseteq Reviewers
       \/ /\ request \in {"queued", "review"} /\ request' = "queued"
          /\ UNCHANGED <<builds, approvals>>
       \/ /\ ~HasJobs /\ request' = "review"
          /\ UNCHANGED <<builds, approvals>>
       \/ Written

LEMMA ApprovalWrites ==
    ASSUME ReviewInv, NEW r \in Reviewers, Approval(r)
    PROVE  ApprovalStep
<1> USE DEF ReviewInv
<1>1. UNCHANGED leaseVars
    BY DEF Approval, Quiet, Untouched, ApproveStart, ApproveRecord, ApproveRead,
           LockFinalization, LockRefused, MergeRecipePR, QueueBuilds, QueueFails,
           SettleFinalization, ReopenFinalization, ApprovalDropped
<1>2. approving' \in [Reviewers -> ApprovalStages]
    BY DEF Approval, Move, ApprovalStages, ApproveStart, ApproveRecord, ApproveRead,
           LockFinalization, LockRefused, MergeRecipePR, QueueBuilds, QueueFails,
           SettleFinalization, ReopenFinalization, ApprovalDropped
<1>3. CASE UNCHANGED <<builds, request, approvals>>
    BY <1>1, <1>2, <1>3 DEF ApprovalStep
<1>4. CASE ApproveRecord(r)
    BY <1>1, <1>2, <1>4 DEF ApproveRecord, ApprovalStep, LeaseInv, TypeOK
<1>5. CASE LockFinalization(r)
    BY <1>1, <1>2, <1>5 DEF LockFinalization, Lockable, ApprovalStep
<1>6. CASE ReopenFinalization(r)
    BY <1>1, <1>2, <1>6 DEF ReopenFinalization, ApprovalStep
<1>7. CASE QueueBuilds(r) /\ request = "queued" /\ Reviewed
    <2>1. /\ builds' = [b \in Builds |->
                IF builds[b].status \in {"cancelled", "failed"}
                THEN [Cleared(builds[b], "queued") EXCEPT !.artifact = builds[b].artifact]
                ELSE builds[b]]
          /\ UNCHANGED <<request, approvals>>
        BY <1>7 DEF QueueBuilds
    <2>2. ASSUME NEW b \in Builds
          PROVE  [Cleared(builds[b], "queued") EXCEPT !.artifact = builds[b].artifact] \in Rows
        <3> DEFINE row == builds[b]
        <3>1. row \in Rows
            BY <2>2 DEF LeaseInv, TypeOK
        <3> HIDE DEF row
        <3>2. [Cleared(row, "queued") EXCEPT !.artifact = row.artifact] \in Rows
            BY <3>1 DEF Cleared, Rows, BuildStatus
        <3> QED BY <3>2 DEF row
    <2>3. builds' \in [Builds -> Rows]
        BY <2>1, <2>2 DEF LeaseInv, TypeOK
    <2>4. Written
        BY <1>7, <2>1, <2>3 DEF Written, Requeued
    <2> QED BY <1>1, <1>2, <2>4 DEF ApprovalStep
<1>8. CASE QueueBuilds(r) /\ ~(request = "queued" /\ Reviewed)
    BY <1>1, <1>2, <1>8 DEF QueueBuilds, ApprovalStep
<1> QED BY <1>3, <1>4, <1>5, <1>6, <1>7, <1>8
    DEF Approval, Untouched, ApproveStart, ApproveRead, LockRefused, MergeRecipePR,
        QueueFails, SettleFinalization, ApprovalDropped

(* A requeued row carries no lease. *)
LEMMA RequeuedRow ==
    ASSUME TypeOK, NEW b \in Builds, Requeued(b)
    PROVE  /\ builds'[b].status = "queued" /\ builds'[b].token = 0
           /\ builds'[b].artifact = builds[b].artifact
BY DEF Requeued, Cleared, TypeOK, Rows

(* The rows as the worker protocol sees them: leased and succeeded ones are  *)
(* as they were, and no other becomes so.                                    *)
LEMMA RunningRowsStay ==
    ASSUME ReviewInv, ApprovalStep, NEW b \in Builds
    PROVE  /\ builds[b].status \in {"leased", "succeeded"}
                \/ builds'[b].status \in {"leased", "succeeded"} => builds'[b] = builds[b]
           /\ builds'[b].token <= issued
           /\ builds'[b].artifact = builds[b].artifact
<1>1. CASE Requeued(b)
    <2>1. TypeOK /\ issued \in Nat
        BY DEF ReviewInv, LeaseInv, TypeOK
    <2>2. builds[b].status \in {"cancelled", "failed"}
        BY <1>1 DEF Requeued
    <2> QED BY <1>1, <2>1, <2>2, RequeuedRow
<1>2. CASE builds'[b] = builds[b]
    BY <1>2 DEF ReviewInv, LeaseInv, TokensIssued
<1> QED BY <1>1, <1>2 DEF ApprovalStep, Written

LEMMA ApprovalKeepsLease ==
    ASSUME ReviewInv, ApprovalStep
    PROVE  LeaseInv'
<1> USE DEF ReviewInv, LeaseInv
<1>1. UNCHANGED <<now, workers, store, calls, held, acked, issued, uploads>>
    BY DEF ApprovalStep, leaseVars
<1>2. TypeOK'
    BY <1>1 DEF ApprovalStep, Written, TypeOK, RequestStatus
<1>3. TokensIssued'
    BY <1>1, RunningRowsStay DEF TokensIssued
<1>4. CallsBound'
    <2> SUFFICES ASSUME NEW h \in Handlers PROVE CallBound(calls[h])'
        BY DEF CallsBound
    <2>1. CallBound(calls[h]) /\ calls'[h] = calls[h]
        BY <1>1 DEF CallsBound
    <2>2. ASSUME calls[h] # Idle, StillHolds(calls[h])'
          PROVE  builds'[calls[h].build] = builds[calls[h].build]
        <3>1. calls[h].build \in Builds
            BY <2>2 DEF TypeOK, Calls
        <3> QED BY <1>1, <2>2, <3>1, RunningRowsStay DEF StillHolds
    <2> QED BY <1>1, <2>1, <2>2 DEF CallBound, StillHolds
<1>5. RowsInv'
    <2>1. SucceededHasArtifact' /\ ArtifactOfItsAttempt' /\ LeasedByActiveWorker'
        BY <1>1, RunningRowsStay
        DEF RowsInv, SucceededHasArtifact, ArtifactOfItsAttempt, LeasedByActiveWorker
    <2>2. AckedSuccessDurable'
        BY <1>1, RunningRowsStay DEF RowsInv, AckedSuccessDurable
    <2> QED BY <2>1, <2>2 DEF RowsInv
<1> QED BY <1>2, <1>3, <1>4, <1>5

LEMMA ApprovalKeeps ==
    ASSUME ReviewInv, ApprovalStep
    PROVE  ReviewInv'
<1> USE DEF ReviewInv
<1>1. LeaseInv' /\ approving' \in [Reviewers -> ApprovalStages]
    BY ApprovalKeepsLease DEF ApprovalStep
<1>2. ActiveBuildIsReviewed'
    BY DEF ApprovalStep, Written, ActiveBuildIsReviewed, AnyActive, Reviewed
<1>3. StoppedRequestHasNoActiveBuild'
    BY DEF ApprovalStep, Written, StoppedRequestHasNoActiveBuild, AnyActive, Active, HasJobs
<1>4. BuildingIsGoingOn'
    BY DEF ApprovalStep, Written, BuildingIsGoingOn, AnyActive, AnyFailed
<1> QED BY <1>1, <1>2, <1>3, <1>4

-----------------------------------------------------------------------------
(* What the worker protocol and its administration do to the three parts.    *)

RequestInv ==
    ActiveBuildIsReviewed /\ StoppedRequestHasNoActiveBuild /\ BuildingIsGoingOn

(* Steps after which the same builds are active and the same ones failed.    *)
LEMMA SameActivity ==
    ASSUME RequestInv, UNCHANGED <<request, approvals>>,
           \A b \in Builds : builds[b].status \in Active <=> builds'[b].status \in Active,
           \A b \in Builds : builds[b].status = "failed" <=> builds'[b].status = "failed"
    PROVE  RequestInv'
<1>1. AnyActive(builds') <=> AnyActive(builds)
    BY DEF AnyActive
<1>2. AnyFailed(builds') <=> AnyFailed(builds)
    BY DEF AnyFailed
<1> QED BY <1>1, <1>2 DEF RequestInv, ActiveBuildIsReviewed,
           StoppedRequestHasNoActiveBuild, BuildingIsGoingOn, Reviewed

LEMMA ClaimKeepsRequest ==
    ASSUME LeaseInv, RequestInv, NEW h \in Handlers, ClaimWrite(h)
    PROVE  RequestInv'
<1>1. calls[h].build \in Builds
    BY CallTyped DEF ClaimWrite, At, Stages, LeaseInv, Calls
<1>2. Reviewed' /\ request' = "building"
    BY DEF ClaimWrite, Claimable, Reviewed
<1>3. builds'[calls[h].build].status = "leased"
    BY <1>1 DEF ClaimWrite, LeaseInv, TypeOK
<1>4. AnyActive(builds')
    BY <1>1, <1>3 DEF AnyActive, Active
<1> QED BY <1>2, <1>4 DEF RequestInv, ActiveBuildIsReviewed,
           StoppedRequestHasNoActiveBuild, BuildingIsGoingOn

LEMMA HeartbeatKeepsRequest ==
    ASSUME LeaseInv, RequestInv, NEW h \in Handlers,
           HeartbeatWrite(h) \/ UploadWrite(h)
    PROVE  RequestInv'
<1>1. UNCHANGED <<request, approvals>>
    BY DEF HeartbeatWrite, UploadWrite
<1>2. ASSUME NEW b \in Builds PROVE builds'[b].status = builds[b].status
    BY <1>2 DEF HeartbeatWrite, UploadWrite, LeaseInv, TypeOK, Rows
<1> QED BY <1>1, <1>2, SameActivity

LEMMA CompleteKeepsRequest ==
    ASSUME LeaseInv, RequestInv, NEW h \in Handlers, CompleteWrite(h)
    PROVE  RequestInv'
<1> DEFINE c == calls[h]
<1>1. c \in Calls
    BY CallTyped DEF CompleteWrite, Completed, At, Stages, LeaseInv
<1>2. approvals' = approvals /\ request' = RequestAfterCompletion(builds')
    BY DEF CompleteWrite, Completed
<1>3. ASSUME NEW b \in Builds
      PROVE  /\ builds'[b].status \in Active => builds[b].status \in Active
             /\ builds'[b].status = "failed" =>
                  builds[b].status = "failed" \/ builds[b].status \in Active
    BY <1>1, <1>3 DEF CompleteWrite, Completed, OwnedLease, LeaseInv, TypeOK, Rows, Calls, Active
<1>4. AnyActive(builds') => AnyActive(builds)
    BY <1>3 DEF AnyActive
<1>5. AnyFailed(builds') => AnyFailed(builds) \/ AnyActive(builds)
    BY <1>3 DEF AnyFailed, AnyActive
<1>6. ActiveBuildIsReviewed'
    BY <1>2, <1>4 DEF RequestInv, ActiveBuildIsReviewed, Reviewed
<1>7. StoppedRequestHasNoActiveBuild' /\ BuildingIsGoingOn'
    BY <1>2, <1>4, <1>5 DEF RequestInv, StoppedRequestHasNoActiveBuild, BuildingIsGoingOn,
                          RequestAfterCompletion
<1> QED BY <1>6, <1>7 DEF RequestInv

LEMMA BlockedKeepsRequest ==
    ASSUME LeaseInv, RequestInv, NEW h \in Handlers, CompleteBlocked(h)
    PROVE  RequestInv'
<1> DEFINE c == calls[h]
<1>1. c.build \in Builds /\ approvals' = approvals
    BY CallTyped DEF CompleteBlocked, At, Stages, LeaseInv, Calls
<1>2. \A b \in Builds : builds'[b].status \in Active => builds[b].status \in Active
    BY BlockedRows DEF Ended, Active
<1>3. ActiveBuildIsReviewed'
    BY <1>1, <1>2 DEF RequestInv, ActiveBuildIsReviewed, AnyActive, Reviewed
<1>4. CASE request' = "blocked"
    <2>1. builds' = CancelActive(Completed(c), c.ts)
        BY <1>4 DEF CompleteBlocked
    <2>2. Completed(c) \in [Builds -> Rows]
        BY BlockedRows
    <2>3. ~AnyActive(builds')
        BY <2>1, <2>2 DEF CancelActive, AnyActive, Active, Rows
    <2> QED BY <1>3, <1>4, <2>3
            DEF RequestInv, StoppedRequestHasNoActiveBuild, BuildingIsGoingOn
<1>5. CASE request' # "blocked"
    <2>1. request' = RequestAfterCompletion(Completed(c)) /\ builds' = Completed(c)
        BY <1>5 DEF CompleteBlocked
    <2>2. ~OwnedLease(c)
        <3>1. ASSUME OwnedLease(c) PROVE FALSE
            <4>1. AnyActive(builds)
                BY <1>1, <3>1 DEF OwnedLease, AnyActive, Active
            <4>2. request \in {"queued", "building"}
                BY <4>1 DEF RequestInv, StoppedRequestHasNoActiveBuild, LeaseInv,
                            TypeOK, RequestStatus
            <4>3. request' \in {"queued", "building", "failed"}
                BY <2>1, <4>2 DEF RequestAfterCompletion
            <4> QED BY <1>5, <2>1, <3>1, <4>3 DEF CompleteBlocked
        <3> QED BY <3>1
    <2>3. builds' = builds
        BY <2>1, <2>2 DEF Completed
    <2> QED BY <1>3, <2>1, <2>3
            DEF RequestInv, StoppedRequestHasNoActiveBuild, BuildingIsGoingOn,
                RequestAfterCompletion
<1> QED BY <1>4, <1>5

LEMMA AdministerKeepsRequest ==
    ASSUME LeaseInv, RequestInv, Administer
    PROVE  RequestInv'
<1>1. ASSUME NEW w \in Workers, RevokeWorker(w) PROVE RequestInv'
    <2>1. UNCHANGED <<request, approvals>>
        BY <1>1 DEF RevokeWorker
    <2>2. ASSUME NEW b \in Builds
          PROVE  /\ builds[b].status \in Active <=> builds'[b].status \in Active
                 /\ builds[b].status = "failed" <=> builds'[b].status = "failed"
        <3>1. builds \in [Builds -> Rows]
            BY DEF LeaseInv, TypeOK
        <3> QED BY <1>1, <2>2, <3>1 DEF RevokeWorker, Cleared, Active, Rows
    <2> QED BY <2>1, <2>2, SameActivity
<1>2. ASSUME NEW w \in Workers, PauseWorker(w) \/ ResumeWorker(w) \/ ArchiveWorker(w)
      PROVE  RequestInv'
    <2>1. UNCHANGED <<request, approvals, builds>>
        BY <1>2 DEF PauseWorker, ResumeWorker, Accept, ArchiveWorker
    <2> QED BY <2>1, SameActivity
<1>3. ASSUME NEW b \in Builds, RetryBuild(b) PROVE RequestInv'
    <2>1. Reviewed' /\ request' \in {"queued", "building"}
        BY <1>3 DEF RetryBuild, Reviewed
    <2>2. builds'[b].status = "queued"
        BY <1>3 DEF RetryBuild, Cleared, LeaseInv, TypeOK, Rows
    <2>3. AnyActive(builds')
        BY <1>3, <2>2 DEF AnyActive, Active
    <2> QED BY <2>1, <2>3 DEF RequestInv, ActiveBuildIsReviewed,
               StoppedRequestHasNoActiveBuild, BuildingIsGoingOn
<1>4. ASSUME NEW r \in Reviewers, FenceReviewer(r) PROVE RequestInv'
    <2>1. ASSUME NEW b \in Builds PROVE builds'[b].status \notin Active
        BY <1>4, <2>1 DEF FenceReviewer, Cleared, Active, LeaseInv, TypeOK, Rows
    <2>2. ~AnyActive(builds') /\ request' # "building"
        BY <1>4, <2>1 DEF AnyActive, FenceReviewer
    <2> QED BY <2>2 DEF RequestInv, ActiveBuildIsReviewed,
               StoppedRequestHasNoActiveBuild, BuildingIsGoingOn
<1> QED BY <1>1, <1>2, <1>3, <1>4 DEF Administer

LEMMA NextKeepsRequest ==
    ASSUME LeaseInv, RequestInv, [Next]_vars
    PROVE  RequestInv'
<1>1. CASE UNCHANGED rowVars
    BY <1>1, SameActivity DEF rowVars
<1>2. ASSUME NEW h \in Handlers, Start(h) PROVE UNCHANGED rowVars
    BY <1>2 DEF Start, ClaimRead, HeartbeatRead, UploadRead, CompleteRead
<1>3. ASSUME NEW h \in Handlers,
             \/ ClaimLost(h) \/ ClaimReply(h) \/ UploadPut(h) \/ UploadRecheck(h)
             \/ CompleteVerify(h) \/ CompleteReply(h) \/ Crash(h)
      PROVE  UNCHANGED rowVars
    BY <1>3 DEF ClaimLost, ClaimReply, UploadPut, UploadRecheck, CompleteVerify,
                CompleteReply, Crash
<1>4. CASE UNCHANGED vars \/ Tick \/ \E l \in held : CompleteReplay(l)
    <2>1. UNCHANGED rowVars
        BY <1>4 DEF vars, rowVars, Tick, CompleteReplay
    <2> QED BY <1>1, <2>1
<1> QED BY <1>1, <1>2, <1>3, <1>4, ClaimKeepsRequest, HeartbeatKeepsRequest,
           CompleteKeepsRequest, BlockedKeepsRequest, AdministerKeepsRequest
        DEF Next, Step

-----------------------------------------------------------------------------
(* The worker protocol keeps its invariant while reviews are finalized, and  *)
(* rows, request and approvals agree.                                        *)
THEOREM ReviewInvariant == ReviewSpec => []ReviewInv
<1>1. ReviewInit => ReviewInv
    <2> SUFFICES ASSUME ReviewInit PROVE ReviewInv
        OBVIOUS
    <2>1. Init /\ approving \in [Reviewers -> ApprovalStages]
        BY DEF ReviewInit, ApprovalStages
    <2>2. RequestInv
        BY <2>1 DEF Init, RequestInv, ActiveBuildIsReviewed, Reviewed,
           StoppedRequestHasNoActiveBuild, BuildingIsGoingOn
    <2> QED BY <2>1, <2>2, InitLeaseInv DEF ReviewInv, RequestInv
<1>2. ASSUME ReviewInv, [ReviewNext]_reviewVars PROVE ReviewInv'
    <2>1. CASE [Next]_vars /\ UNCHANGED approving
        <3>1. LeaseInv' /\ RequestInv'
            BY <1>2, <2>1, NextLeaseInv, NextKeepsRequest DEF ReviewInv, RequestInv
        <3> QED BY <1>2, <2>1, <3>1 DEF ReviewInv, RequestInv
    <2>2. ASSUME NEW r \in Reviewers, Approval(r) PROVE ReviewInv'
        BY <1>2, <2>2, ApprovalWrites, ApprovalKeeps
    <2> QED BY <1>2, <2>1, <2>2 DEF ReviewNext, reviewVars
<1> QED BY <1>1, <1>2, PTL DEF ReviewSpec

(* revokeReviewerCapability and the queueing batch of approveRevision: no    *)
(* build is queued or runs on a revision one of whose approvals is revoked.  *)
THEOREM ActiveBuildsAreReviewed == ReviewSpec => []ActiveBuildIsReviewed
<1>1. ReviewInv => ActiveBuildIsReviewed
    BY DEF ReviewInv
<1> QED BY <1>1, ReviewInvariant, PTL

(* completeJob, retryBuild, the fence and the finalization keep the status   *)
(* of a request in step with its builds.                                     *)
THEOREM RequestsFollowBuilds == ReviewSpec => []RequestFollowsBuilds
<1>1. ReviewInv => RequestFollowsBuilds
    BY DEF ReviewInv, RequestFollowsBuilds
<1> QED BY <1>1, ReviewInvariant, PTL

-----------------------------------------------------------------------------
(* An approval handler names and stores no bytes. *)
LEMMA ApprovalKeepsBytes ==
    ASSUME ReviewInv, BytesInv, ApprovalStep
    PROVE  BytesInv'
<1>1. UNCHANGED <<store, uploads, calls>> /\ approvals' \subseteq Reviewers
    BY DEF ApprovalStep, Written, leaseVars, ReviewInv, LeaseInv, TypeOK
<1>2. Reviewed => Reviewed'
    BY <1>1 DEF ApprovalStep, Written, Reviewed
<1>3. ASSUME NEW b \in Builds PROVE RowKept(b)
    <2>1. builds'[b].artifact = builds[b].artifact
        BY <1>3, RunningRowsStay
    <2>2. builds'[b].status = "leased" => builds'[b] = builds[b]
        BY <1>3, RunningRowsStay
    <2> QED BY <1>2, <2>1, <2>2 DEF RowKept, BytesInv, LeasedIsReviewed, Reviewed
<1> QED BY <1>1, <1>3, BytesKept

(* The cleanup of a late upload takes no bytes of a leased row away while    *)
(* approvals come, go and queue cancelled builds with their old key.         *)
THEOREM ArtifactsOfReviewedBuilds == ReviewSpec => []ArtifactIsItsOwn
<1>1. ReviewInit => BytesInv
    BY InitBytesInv DEF ReviewInit
<1>2. ASSUME ReviewInv, BytesInv, [ReviewNext]_reviewVars PROVE BytesInv'
    <2>1. CASE [Next]_vars
        BY <1>2, <2>1, NextBytesInv DEF ReviewInv
    <2>2. ASSUME NEW r \in Reviewers, Approval(r) PROVE BytesInv'
        BY <1>2, <2>2, ApprovalWrites, ApprovalKeepsBytes
    <2> QED BY <1>2, <2>1, <2>2 DEF ReviewNext, reviewVars
<1>3. ReviewInv /\ BytesInv => ArtifactIsItsOwn
    BY DEF ReviewInv, LeaseInv, RowsInv, BytesInv, ArtifactIsItsOwn
<1> QED BY <1>1, <1>2, <1>3, ReviewInvariant, PTL DEF ReviewSpec

(* A review begins, ends and replaces no attempt of a worker: the protocol   *)
(* keeps its contract whatever approveRevision does meanwhile.               *)
THEOREM ReviewKeepsContract == ReviewSpec => ImplementsContract
<1>1. ReviewInit => Contract!Init
    BY InitImplements DEF ReviewInit
<1>2. ASSUME ReviewInv, [ReviewNext]_reviewVars
      PROVE  [Contract!Next]_(Contract!vars)
    <2>1. CASE [Next]_vars
        BY <1>2, <2>1, NextImplements DEF ReviewInv
    <2>2. ASSUME NEW r \in Reviewers, Approval(r) PROVE UNCHANGED Contract!vars
        <3>1. ApprovalStep
            BY <1>2, <2>2, ApprovalWrites
        <3>2. UNCHANGED <<issued, acked>>
            BY <3>1 DEF ApprovalStep, leaseVars
        <3>3. ASSUME NEW b \in Builds
              PROVE  /\ RowAttempt(builds'[b]) = RowAttempt(builds[b])
                     /\ builds'[b].status = "succeeded" <=> builds[b].status = "succeeded"
            BY <1>2, <3>1, <3>3, RunningRowsStay DEF RowAttempt
        <3>4. UNCHANGED <<Current, Finished>>
            BY <3>3 DEF Current, Finished
        <3> QED BY <3>2, <3>4, Stutters
    <2> QED BY <1>2, <2>1, <2>2 DEF ReviewNext, reviewVars
<1> QED BY <1>1, <1>2, ReviewInvariant, PTL
    DEF ReviewSpec, ImplementsContract, Contract!Spec
=============================================================================
