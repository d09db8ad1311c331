-------------------------- MODULE PublicationProofs --------------------------
(* Theorems about what is published: SigningIntent, the signatures over      *)
(* packages and manifests, and ReleaseChannels, the releases that the        *)
(* channels and their indexes carry.                                         *)
(*                                                                           *)
(* Both have callers that look, work for long and then write.  A signature   *)
(* settles because every write is conditional on what was read, and because  *)
(* the signer takes what is stored before it signs; a channel moves to the   *)
(* graph that was checked because the batch compares what it read.           *)
EXTENDS ReleaseChannels, SigningIntent, FiniteSetTheorems, TLAPS

(***************************************************************************)
(* Signing, for any intents, objects and assignment of intents to objects: *)
(* whatever callers, calls of the signer and expiries do between each      *)
(* other's steps, an accepted signature is a recorded one, a recorded one  *)
(* is an audited one, and both are final.                                  *)
(***************************************************************************)

Row == [status : IntentStatus, signature : Signature]
SignerCall == [at : SignerStages, signature : Signature]

(* What row, call and request of one intent know of each other, and of the   *)
(* signatures s that events name.                                            *)
Agrees(row, call, request, events) ==
    /\ \A s \in Signature :
         s \in events <=> row.status = "signed" /\ row.signature = s
    /\ call.at = "signed" =>
         row.status = "signed" /\ row.signature = call.signature
    /\ request \in {"check", "record", "accepted"} => call.at = "signed"
    /\ request = "off" => call.at = "off" /\ row.status = "none"

EventsOf(i) == {s \in Signature : <<i, s>> \in audited}

AgreesAt(i) == Agrees(intents[i], signers[i], requests[i], EventsOf(i))

(* The inductive invariant. *)
IntentInv == IntentTypeOK /\ \A i \in Intents : AgreesAt(i)

-----------------------------------------------------------------------------
(* What an invariant row, call and request are made of. *)
LEMMA Typed ==
    ASSUME IntentInv, NEW i \in Intents
    PROVE  /\ intents[i] \in Row
           /\ signers[i] \in SignerCall
           /\ requests[i] \in RequestStages
           /\ AgreesAt(i)
           /\ Of(i) \in Objects
BY ObjectAssumption DEF IntentInv, IntentTypeOK, Row, SignerCall, Of

(* A step that gives one intent a row, a call and a request that agree keeps *)
(* the invariant.                                                            *)
LEMMA IntentStepKeeps ==
    ASSUME IntentInv, NEW i \in Intents,
           NEW row \in Row, NEW call \in SignerCall, NEW request \in RequestStages,
           intents' = [intents EXCEPT ![i] = row],
           signers' = [signers EXCEPT ![i] = call],
           requests' = [requests EXCEPT ![i] = request],
           late' \subseteq Intents,
           stored' \in [Objects -> Signature],
           UNCHANGED reviewed,
           audited' \subseteq Intents \X Signature,
           \A j \in Intents \ {i} : EventsOf(j)' = EventsOf(j),
           Agrees(row, call, request, EventsOf(i)')
    PROVE  IntentInv'
<1>1. IntentTypeOK'
    BY DEF IntentInv, IntentTypeOK, Row, SignerCall
<1>2. ASSUME NEW j \in Intents
      PROVE  AgreesAt(j)'
    <2>1. CASE j = i
        <3>1. intents'[j] = row /\ signers'[j] = call /\ requests'[j] = request
            BY <2>1 DEF IntentInv, IntentTypeOK
        <3> QED
            BY <2>1, <3>1 DEF AgreesAt
    <2>2. CASE j # i
        <3>1. /\ intents'[j] = intents[j]
              /\ signers'[j] = signers[j]
              /\ requests'[j] = requests[j]
              /\ EventsOf(j)' = EventsOf(j)
            BY <2>2 DEF IntentInv, IntentTypeOK
        <3>2. AgreesAt(j)
            BY DEF IntentInv
        <3> QED
            BY <3>1, <3>2 DEF AgreesAt
    <2> QED
        BY <2>1, <2>2
<1> QED
    BY <1>1, <1>2 DEF IntentInv

LEMMA InitInv == IntentInit => IntentInv
<1> SUFFICES ASSUME IntentInit PROVE IntentInv
    OBVIOUS
<1>1. IntentTypeOK
    BY DEF IntentInit, IntentTypeOK, IntentStatus, Signature, RequestStages, SignerStages
<1>2. ASSUME NEW i \in Intents PROVE AgreesAt(i)
    BY DEF IntentInit, AgreesAt, Agrees, EventsOf
<1> QED
    BY <1>1, <1>2 DEF IntentInv

-----------------------------------------------------------------------------
(* A call of the signer that is under way and does not end signed, and       *)
(* leaves the row or moves it between statuses other than signed.            *)
LEMMA SignerStepKeeps ==
    ASSUME IntentInv, NEW i \in Intents,
           NEW row \in Row, NEW call \in SignerCall,
           signers[i].at \notin {"off", "signed"}, call.at # "signed",
           \/ row = intents[i]
           \/ intents[i].status # "signed" /\ row.status # "signed",
           intents' = [intents EXCEPT ![i] = row],
           signers' = [signers EXCEPT ![i] = call],
           stored' \in [Objects -> Signature],
           UNCHANGED <<late, reviewed, requests, audited>>
    PROVE  IntentInv'
<1>1. /\ requests[i] \in RequestStages
      /\ requests[i] \notin {"off", "check", "record", "accepted"}
      /\ AgreesAt(i)
    BY Typed DEF AgreesAt, Agrees
<1>2. requests' = [requests EXCEPT ![i] = requests[i]]
    BY DEF IntentInv, IntentTypeOK
<1>3. \A j \in Intents : EventsOf(j)' = EventsOf(j)
    BY DEF EventsOf
<1>4. Agrees(row, call, requests[i], EventsOf(i)')
    BY <1>1, <1>3 DEF AgreesAt, Agrees
<1>5. late' \subseteq Intents /\ audited' \subseteq Intents \X Signature
    BY DEF IntentInv, IntentTypeOK
<1> QED
    BY <1>1, <1>2, <1>3, <1>4, <1>5, IntentStepKeeps

(* A caller's step that leaves the call, and the row too unless no signature *)
(* is recorded in it.                                                        *)
LEMMA RequestStepKeeps ==
    ASSUME IntentInv, NEW i \in Intents,
           NEW row \in Row, NEW request \in RequestStages \ {"off"},
           requests[i] # "off",
           request \in {"check", "record", "accepted"} => signers[i].at = "signed",
           \/ row = intents[i]
           \/ intents[i].status # "signed" /\ row.status # "signed",
           intents' = [intents EXCEPT ![i] = row],
           requests' = [requests EXCEPT ![i] = request],
           UNCHANGED <<late, stored, reviewed, signers, audited>>
    PROVE  IntentInv'
<1>1. signers[i] \in SignerCall /\ AgreesAt(i)
    BY Typed
<1>2. signers' = [signers EXCEPT ![i] = signers[i]]
    BY DEF IntentInv, IntentTypeOK
<1>3. \A j \in Intents : EventsOf(j)' = EventsOf(j)
    BY DEF EventsOf
<1>4. Agrees(row, signers[i], request, EventsOf(i)')
    BY <1>1, <1>3 DEF AgreesAt, Agrees
<1>5. /\ late' \subseteq Intents
      /\ stored' \in [Objects -> Signature]
      /\ audited' \subseteq Intents \X Signature
    BY DEF IntentInv, IntentTypeOK
<1> QED
    BY <1>1, <1>2, <1>3, <1>4, <1>5, IntentStepKeeps

(* Writing the status of a row; leaving it. *)
LEMMA RowWritten ==
    ASSUME IntentInv, NEW i \in Intents, NEW status \in IntentStatus
    PROVE  /\ [intents[i] EXCEPT !.status = status] \in Row
           /\ [intents[i] EXCEPT !.status = status].status = status
           /\ SetIntent(i, status) =
                [intents EXCEPT ![i] = [intents[i] EXCEPT !.status = status]]
BY Typed DEF SetIntent, Row

LEMMA RowLeft ==
    ASSUME IntentInv, NEW i \in Intents
    PROVE  intents = [intents EXCEPT ![i] = intents[i]] /\ intents[i] \in Row
BY Typed DEF IntentInv, IntentTypeOK

(* The new stage of a call of the signer. *)
LEMMA CallWritten ==
    ASSUME IntentInv, NEW i \in Intents, NEW at \in SignerStages, Signer(i, at)
    PROVE  \E call \in SignerCall :
              /\ call.at = at
              /\ call.signature = signers[i].signature
              /\ signers' = [signers EXCEPT ![i] = call]
<1> DEFINE call == [signers[i] EXCEPT !.at = at]
<1>1. /\ call \in SignerCall
      /\ call.at = at
      /\ call.signature = signers[i].signature
    BY Typed DEF SignerCall
<1>2. signers' = [signers EXCEPT ![i] = call]
    BY DEF Signer
<1> QED
    BY <1>1, <1>2

-----------------------------------------------------------------------------
(* The caller. *)
LEMMA RequestKeeps ==
    ASSUME IntentInv, NEW i \in Intents, Request(i)
    PROVE  IntentInv'
<1> USE DEF Request
<1>1. PICK call \in SignerCall :
        call.at = "claim" /\ signers' = [signers EXCEPT ![i] = call]
    BY CallWritten DEF SignerStages
<1>2. PICK row \in Row :
        row.status = "pending" /\ intents' = [intents EXCEPT ![i] = row]
    BY RowWritten DEF IntentStatus
<1>3. requests' = [requests EXCEPT ![i] = "waiting"]
    BY DEF Requests
<1>4. \A j \in Intents : EventsOf(j)' = EventsOf(j)
    BY DEF EventsOf
<1>5. EventsOf(i) = {}
    BY Typed DEF AgreesAt, Agrees, EventsOf
<1>6. Agrees(row, call, "waiting", EventsOf(i)')
    BY <1>1, <1>2, <1>4, <1>5 DEF Agrees
<1>7. /\ late' \subseteq Intents
      /\ stored' \in [Objects -> Signature]
      /\ audited' \subseteq Intents \X Signature
    BY DEF IntentInv, IntentTypeOK
<1> QED
    BY <1>1, <1>2, <1>3, <1>4, <1>6, <1>7, IntentStepKeeps DEF RequestStages

(* The mark of a failed request is put on pending rows only. *)
LEMMA FailedRow ==
    ASSUME IntentInv, NEW i \in Intents
    PROVE  \E row \in Row :
              /\ Failed(i) = [intents EXCEPT ![i] = row]
              /\ \/ row = intents[i]
                 \/ intents[i].status # "signed" /\ row.status # "signed"
<1>1. CASE Is(i, "pending")
    BY <1>1, RowWritten DEF Failed, Is, IntentStatus
<1>2. CASE ~Is(i, "pending")
    BY <1>2, RowLeft DEF Failed
<1> QED
    BY <1>1, <1>2

LEMMA RequestEndsKeep ==
    ASSUME IntentInv, NEW i \in Intents,
           RequestFails(i) \/ RequestAnswered(i) \/ RequestChecks(i)
               \/ RequestRecords(i)
    PROVE  IntentInv'
<1>1. CASE RequestFails(i)
    <2>1. PICK row \in Row :
            /\ intents' = [intents EXCEPT ![i] = row]
            /\ \/ row = intents[i]
               \/ intents[i].status # "signed" /\ row.status # "signed"
        BY <1>1, FailedRow DEF RequestFails
    <2> QED
        BY <1>1, <2>1, RequestStepKeeps
        DEF RequestFails, Requests, RequestStages
<1>2. CASE RequestAnswered(i)
    BY <1>2, RowLeft, RequestStepKeeps
    DEF RequestAnswered, Requests, RequestStages
<1>3. CASE RequestChecks(i)
    <2>1. signers[i].at = "signed"
        BY <1>3, Typed DEF RequestChecks, AgreesAt, Agrees
    <2>2. PICK row \in Row :
            /\ intents' = [intents EXCEPT ![i] = row]
            /\ \/ row = intents[i]
               \/ intents[i].status # "signed" /\ row.status # "signed"
        <3>1. UNCHANGED intents \/ intents' = Failed(i)
            BY <1>3 DEF RequestChecks
        <3> QED
            BY <3>1, FailedRow, RowLeft
    <2>3. PICK request \in {"accepted", "record", "refused"} :
            requests' = [requests EXCEPT ![i] = request]
        BY <1>3 DEF RequestChecks, Requests
    <2> QED
        BY <1>3, <2>1, <2>2, <2>3, RequestStepKeeps
        DEF RequestChecks, RequestStages
<1>4. CASE RequestRecords(i)
    (* The answer came from a completion: the row is signed already. *)
    <2>1. signers[i].at = "signed" /\ intents[i].status = "signed"
        BY <1>4, Typed DEF RequestRecords, AgreesAt, Agrees
    <2>2. UNCHANGED intents
        BY <1>4, <2>1 DEF RequestRecords, Is
    <2> QED
        BY <1>4, <2>1, <2>2, RowLeft, RequestStepKeeps
        DEF RequestRecords, Requests, RequestStages
<1> QED
    BY <1>1, <1>2, <1>3, <1>4

-----------------------------------------------------------------------------
(* The signer, up to its report. *)
LEMMA ClaimKeeps ==
    ASSUME IntentInv, NEW i \in Intents, ClaimRead(i) \/ ClaimReset(i)
    PROVE  IntentInv'
<1>1. PICK row \in Row :
        /\ intents' = [intents EXCEPT ![i] = row]
        /\ \/ row = intents[i]
           \/ intents[i].status # "signed" /\ row.status # "signed"
    <2>1. \/ UNCHANGED intents
          \/ Is(i, "pending") /\ intents' = SetIntent(i, "expired")
          \/ Is(i, "failed") /\ intents' = SetIntent(i, "pending")
        BY DEF ClaimRead, ClaimReset, Expired
    <2>2. CASE UNCHANGED intents
        BY <2>2, RowLeft
    <2>3. CASE Is(i, "pending") /\ intents' = SetIntent(i, "expired")
        BY <2>3, RowWritten DEF Is, IntentStatus
    <2>4. CASE Is(i, "failed") /\ intents' = SetIntent(i, "pending")
        BY <2>4, RowWritten DEF Is, IntentStatus
    <2> QED
        BY <2>1, <2>2, <2>3, <2>4
<1>2. PICK at \in {"refused", "reset", "look"} : Signer(i, at)
    BY DEF ClaimRead, ClaimReset
<1>3. PICK call \in SignerCall :
        call.at = at /\ signers' = [signers EXCEPT ![i] = call]
    BY <1>2, CallWritten DEF SignerStages
<1>4. /\ signers[i].at \in {"claim", "reset"}
      /\ UNCHANGED <<late, stored, reviewed, requests, audited>>
    BY DEF ClaimRead, ClaimReset
<1>5. stored' \in [Objects -> Signature]
    BY <1>4 DEF IntentInv, IntentTypeOK
<1> QED
    BY <1>1, <1>2, <1>3, <1>4, <1>5, SignerStepKeeps

LEMMA SignKeeps ==
    ASSUME IntentInv, NEW i \in Intents,
           \/ SignerLooks(i) \/ SignerPersists(i) \/ SignerPuts(i)
           \/ SignerStops(i) \/ CompleteVerify(i)
    PROVE  IntentInv'
<1>1. PICK call \in SignerCall :
        call.at # "signed" /\ signers' = [signers EXCEPT ![i] = call]
    <2>1. stored[Of(i)] \in Signature /\ i \in Signature
        BY Typed DEF IntentInv, IntentTypeOK, Signature
    <2>2. CASE \E at \in {"put", "report", "refused", "complete"} : Signer(i, at)
        BY <2>2, CallWritten DEF SignerStages
    <2>3. CASE \E at \in {"persist", "report"}, s \in Signature :
                 SignerWith(i, at, s)
        <3>1. PICK at \in {"persist", "report"}, s \in Signature :
                SignerWith(i, at, s)
            BY <2>3
        <3> DEFINE call == [at |-> at, signature |-> s]
        <3>2. call \in SignerCall /\ call.at # "signed"
            BY DEF SignerCall, SignerStages
        <3>3. signers' = [signers EXCEPT ![i] = call]
            BY <3>1 DEF SignerWith
        <3> QED
            BY <3>2, <3>3
    <2>4. \/ \E at \in {"put", "report", "refused", "complete"} : Signer(i, at)
          \/ \E at \in {"persist", "report"}, s \in Signature :
                 SignerWith(i, at, s)
        BY <2>1 DEF SignerLooks, SignerPersists, SignerPuts, SignerStops,
                    CompleteVerify
    <2> QED
        BY <2>2, <2>3, <2>4
<1>2. signers[i].at \notin {"off", "signed"}
    BY DEF SignerLooks, SignerPersists, SignerPuts, SignerStops, CompleteVerify
<1>3. UNCHANGED <<intents, late, reviewed, requests, audited>>
    BY DEF SignerLooks, SignerPersists, SignerPuts, SignerStops, CompleteVerify
<1>4. stored' \in [Objects -> Signature]
    BY Typed DEF SignerLooks, SignerPersists, SignerPuts, SignerStops,
                 CompleteVerify, IntentInv, IntentTypeOK
<1> QED
    BY <1>1, <1>2, <1>3, <1>4, RowLeft, SignerStepKeeps

-----------------------------------------------------------------------------
(* The report of the signer. *)
LEMMA CompleteReadKeeps ==
    ASSUME IntentInv, NEW i \in Intents, CompleteRead(i)
    PROVE  IntentInv'
<1> USE DEF CompleteRead
<1>1. PICK row \in Row :
        /\ intents' = [intents EXCEPT ![i] = row]
        /\ \/ row = intents[i]
           \/ intents[i].status # "signed" /\ row.status # "signed"
    <2>1. CASE UNCHANGED intents
        BY <2>1, RowLeft
    <2>2. CASE Is(i, "pending") /\ intents' = SetIntent(i, "expired")
        BY <2>2, RowWritten DEF Is, IntentStatus
    <2> QED
        BY <2>1, <2>2 DEF Expired
<1>2. PICK at \in {"refused", "verify"} : Signer(i, at)
    OBVIOUS
<1>3. PICK call \in SignerCall :
        call.at = at /\ signers' = [signers EXCEPT ![i] = call]
    BY <1>2, CallWritten DEF SignerStages
<1>4. stored' \in [Objects -> Signature]
    BY DEF IntentInv, IntentTypeOK
<1> QED
    BY <1>1, <1>2, <1>3, <1>4, SignerStepKeeps

LEMMA CompleteWriteKeeps ==
    ASSUME IntentInv, NEW i \in Intents, CompleteWrite(i)
    PROVE  IntentInv'
<1> DEFINE s == signers[i].signature
           signed == [status |-> "signed", signature |-> s]
<1>1. /\ signers[i] \in SignerCall /\ intents[i] \in Row
      /\ requests[i] \in RequestStages
      /\ AgreesAt(i)
      /\ signers[i].at = "complete"
      /\ UNCHANGED <<late, stored, reviewed, requests>>
    BY Typed DEF CompleteWrite
<1>2. s \in Signature /\ signed \in Row
    BY <1>1 DEF SignerCall, Row, IntentStatus
<1>3. requests[i] \notin {"off", "check", "record", "accepted"}
    BY <1>1 DEF AgreesAt, Agrees
<1>4. CASE Recordable(i) /\ ~Immutable(i)
    <2>1. /\ intents' = [intents EXCEPT ![i] = signed]
          /\ audited' = audited \cup {<<i, s>>}
          /\ Signer(i, "signed")
        BY <1>4 DEF CompleteWrite
    <2>2. PICK call \in SignerCall :
            /\ call.at = "signed"
            /\ call.signature = s
            /\ signers' = [signers EXCEPT ![i] = call]
        BY <2>1, CallWritten DEF SignerStages
    <2>3. EventsOf(i) = {}
        BY <1>1, <1>4
        DEF AgreesAt, Agrees, EventsOf, Recordable, Completable, Is
    <2>4. EventsOf(i)' = {s}
        BY <1>2, <2>1, <2>3 DEF EventsOf
    <2>5. \A j \in Intents \ {i} : EventsOf(j)' = EventsOf(j)
        BY <2>1 DEF EventsOf
    <2>6. Agrees(signed, call, requests[i], EventsOf(i)')
        BY <1>2, <1>3, <2>2, <2>4 DEF Agrees
    <2>7. /\ requests' = [requests EXCEPT ![i] = requests[i]]
          /\ late' \subseteq Intents
          /\ stored' \in [Objects -> Signature]
          /\ audited' \subseteq Intents \X Signature
        BY <1>1, <1>2, <2>1 DEF IntentInv, IntentTypeOK
    <2> QED
        BY <1>1, <1>2, <2>1, <2>2, <2>5, <2>6, <2>7, IntentStepKeeps
<1>5. CASE ~Recordable(i)
    <2>1. UNCHANGED <<intents, audited>>
        BY <1>5 DEF CompleteWrite
    <2>2. CASE intents[i] = signed
        <3>1. Signer(i, "signed")
            BY <1>5, <2>2 DEF CompleteWrite
        <3>2. PICK call \in SignerCall :
                /\ call.at = "signed"
                /\ call.signature = s
                /\ signers' = [signers EXCEPT ![i] = call]
            BY <3>1, CallWritten DEF SignerStages
        <3>3. \A j \in Intents : EventsOf(j)' = EventsOf(j)
            BY <2>1 DEF EventsOf
        <3>4. Agrees(intents[i], call, requests[i], EventsOf(i)')
            BY <1>1, <1>3, <2>2, <3>2, <3>3 DEF AgreesAt, Agrees
        <3>5. /\ intents' = [intents EXCEPT ![i] = intents[i]]
              /\ requests' = [requests EXCEPT ![i] = requests[i]]
              /\ late' \subseteq Intents
              /\ stored' \in [Objects -> Signature]
              /\ audited' \subseteq Intents \X Signature
            BY <1>1, <2>1 DEF IntentInv, IntentTypeOK
        <3> QED
            BY <1>1, <3>2, <3>3, <3>4, <3>5, IntentStepKeeps
    <2>3. CASE intents[i] # signed
        <3>1. Signer(i, "refused")
            BY <1>5, <2>3 DEF CompleteWrite
        <3>2. PICK call \in SignerCall :
                call.at = "refused" /\ signers' = [signers EXCEPT ![i] = call]
            BY <3>1, CallWritten DEF SignerStages
        <3>3. stored' \in [Objects -> Signature]
            BY <1>1 DEF IntentInv, IntentTypeOK
        <3> QED
            BY <1>1, <2>1, <3>2, <3>3, RowLeft, SignerStepKeeps
    <2> QED
        BY <2>2, <2>3
<1>6. CASE Recordable(i) /\ Immutable(i)
    <2>1. Signer(i, "aborted") /\ UNCHANGED <<intents, audited>>
        BY <1>6 DEF CompleteWrite
    <2>2. PICK call \in SignerCall :
            call.at = "aborted" /\ signers' = [signers EXCEPT ![i] = call]
        BY <2>1, CallWritten DEF SignerStages
    <2>3. stored' \in [Objects -> Signature]
        BY <1>1 DEF IntentInv, IntentTypeOK
    <2> QED
        BY <1>1, <2>1, <2>2, <2>3, RowLeft, SignerStepKeeps
<1> QED
    BY <1>4, <1>5, <1>6

-----------------------------------------------------------------------------
(* Time and reviews. *)
LEMMA IntentEnvironmentKeeps ==
    ASSUME IntentInv,
           \/ \E i \in Intents : Expire(i)
           \/ \E o \in Objects : EvidenceChanges(o)
           \/ UNCHANGED intentVars
    PROVE  IntentInv'
<1>1. UNCHANGED <<intents, stored, requests, signers, audited>>
    BY DEF Expire, EvidenceChanges, intentVars
<1>2. late' \subseteq Intents /\ reviewed' \subseteq Objects
    BY DEF Expire, EvidenceChanges, intentVars, IntentInv, IntentTypeOK
<1>3. IntentTypeOK'
    BY <1>1, <1>2 DEF IntentInv, IntentTypeOK
<1>4. \A i \in Intents : AgreesAt(i)'
    BY <1>1 DEF IntentInv, AgreesAt, EventsOf
<1> QED
    BY <1>3, <1>4 DEF IntentInv

LEMMA NextKeeps == IntentInv /\ [IntentNext]_intentVars => IntentInv'
<1> SUFFICES ASSUME IntentInv, [IntentNext]_intentVars PROVE IntentInv'
    OBVIOUS
<1>1. ASSUME NEW i \in Intents,
             \/ Request(i) \/ RequestFails(i) \/ RequestAnswered(i)
             \/ RequestChecks(i) \/ RequestRecords(i)
             \/ ClaimRead(i) \/ ClaimReset(i)
             \/ SignerLooks(i) \/ SignerPersists(i) \/ SignerPuts(i)
             \/ SignerStops(i)
             \/ CompleteRead(i) \/ CompleteVerify(i) \/ CompleteWrite(i)
      PROVE  IntentInv'
    BY <1>1, RequestKeeps, RequestEndsKeep, ClaimKeeps, SignKeeps,
       CompleteReadKeeps, CompleteWriteKeeps
<1>2. CASE \/ \E i \in Intents : Expire(i)
           \/ \E o \in Objects : EvidenceChanges(o)
           \/ UNCHANGED intentVars
    BY <1>2, IntentEnvironmentKeeps
<1> QED
    BY <1>1, <1>2 DEF IntentNext

(* Rows, calls, requests and events agree in every reachable state. *)
THEOREM IntentInvariant == IntentSpec => []IntentInv
<1> QED
    BY InitInv, NextKeeps, PTL DEF IntentSpec

(* IntentTypeOK of the rows, calls and events. *)
THEOREM IntentTypesCorrect == IntentSpec => []IntentTypeOK
<1>1. IntentInv => IntentTypeOK
    BY DEF IntentInv
<1> QED
    BY <1>1, IntentInvariant, PTL

(* Of all the writers of a row, only the one that records the event makes it *)
(* signed: the update of a row still pending at the end of signingRequest    *)
(* never matches.                                                            *)
THEOREM AuditedExactly == IntentSpec => []SignedIsAudited
<1>1. ASSUME IntentInv PROVE SignedIsAudited
    <2> SUFFICES ASSUME NEW i \in Intents
                 PROVE  IF Is(i, "signed")
                        THEN {e \in audited : e[1] = i}
                               = {<<i, intents[i].signature>>}
                        ELSE {e \in audited : e[1] = i} = {}
        BY DEF SignedIsAudited
    <2>1. /\ audited \subseteq Intents \X Signature
          /\ intents[i].signature \in Signature
        BY <1>1, Typed DEF IntentInv, IntentTypeOK, Row
    <2>2. \A s \in Signature :
            <<i, s>> \in audited <=> Is(i, "signed") /\ intents[i].signature = s
        BY <1>1, Typed DEF AgreesAt, Agrees, EventsOf, Is
    <2>3. \A e \in audited : e[1] = i => e = <<i, e[2]>> /\ e[2] \in Signature
        BY <2>1
    <2> QED
        BY <2>1, <2>2, <2>3
<1> QED
    BY <1>1, IntentInvariant, PTL

(* A caller that was given a signature finds it recorded. *)
THEOREM AcceptedRecorded == IntentSpec => []AcceptedIsRecorded
<1>1. ASSUME IntentInv PROVE AcceptedIsRecorded
    <2> SUFFICES ASSUME NEW i \in Intents, requests[i] = "accepted"
                 PROVE  intents[i] = [status |-> "signed",
                                      signature |-> signers[i].signature]
        BY DEF AcceptedIsRecorded
    <2>1. /\ intents[i] \in Row
          /\ intents[i].status = "signed"
          /\ intents[i].signature = signers[i].signature
        BY <1>1, Typed DEF AgreesAt, Agrees
    <2> QED
        BY <2>1 DEF Row
<1> QED
    BY <1>1, IntentInvariant, PTL

-----------------------------------------------------------------------------
(* What a step of intent i may do to its row. *)
RowStays(i) ==
    /\ Is(i, "signed") \/ Is(i, "expired") => intents'[i] = intents[i]
    /\ i \in late => (intents'[i].status = "signed" => Is(i, "signed"))

LEMMA StatusWritten ==
    ASSUME IntentInv, NEW i \in Intents, NEW status \in IntentStatus,
           status # "signed", ~Is(i, "signed"), ~Is(i, "expired"),
           intents' = SetIntent(i, status)
    PROVE  RowStays(i)
<1>1. intents'[i].status = status
    <2>1. PICK row \in Row :
            row.status = status /\ intents' = [intents EXCEPT ![i] = row]
        BY RowWritten
    <2> QED
        BY <2>1 DEF IntentInv, IntentTypeOK
<1> QED
    BY <1>1 DEF RowStays

LEMMA OtherRows ==
    ASSUME IntentInv, NEW i \in Intents, NEW j \in Intents, i # j,
           \/ Request(i) \/ RequestFails(i) \/ RequestAnswered(i)
           \/ RequestChecks(i) \/ RequestRecords(i)
           \/ ClaimRead(i) \/ ClaimReset(i)
           \/ SignerLooks(i) \/ SignerPersists(i) \/ SignerPuts(i)
           \/ SignerStops(i)
           \/ CompleteRead(i) \/ CompleteVerify(i) \/ CompleteWrite(i)
           \/ Expire(i)
    PROVE  intents'[j] = intents[j]
<1>1. ASSUME NEW row \in Row, intents' = [intents EXCEPT ![i] = row]
      PROVE  intents'[j] = intents[j]
    BY <1>1 DEF IntentInv, IntentTypeOK
<1>2. ASSUME NEW status \in IntentStatus, intents' = SetIntent(i, status)
      PROVE  intents'[j] = intents[j]
    <2>1. PICK row \in Row : intents' = [intents EXCEPT ![i] = row]
        BY <1>2, RowWritten
    <2> QED
        BY <1>1, <2>1
<1>3. CASE \/ Request(i) \/ RequestFails(i) \/ RequestChecks(i)
           \/ ClaimRead(i) \/ ClaimReset(i) \/ CompleteRead(i)
    <2>1. \/ UNCHANGED intents
          \/ intents' = SetIntent(i, "pending")
          \/ intents' = SetIntent(i, "failed")
          \/ intents' = SetIntent(i, "expired")
        BY <1>3 DEF Request, RequestFails, RequestChecks, ClaimRead,
                    ClaimReset, CompleteRead, Failed, Expired
    <2> QED
        BY <1>2, <2>1 DEF IntentStatus
<1>4. CASE RequestRecords(i) \/ CompleteWrite(i)
    <2> DEFINE row == [status |-> "signed", signature |-> signers[i].signature]
    <2>1. row \in Row
        BY Typed DEF Row, SignerCall, IntentStatus
    <2>2. UNCHANGED intents \/ intents' = [intents EXCEPT ![i] = row]
        BY <1>4 DEF RequestRecords, CompleteWrite
    <2> QED
        BY <1>1, <2>1, <2>2
<1>5. CASE \/ RequestAnswered(i) \/ SignerLooks(i) \/ SignerPersists(i)
           \/ SignerPuts(i) \/ SignerStops(i) \/ CompleteVerify(i)
           \/ Expire(i)
    BY <1>5 DEF RequestAnswered, SignerLooks, SignerPersists, SignerPuts,
                SignerStops, CompleteVerify, Expire
<1> QED
    BY <1>3, <1>4, <1>5

(* Row, audit trail and caller name one signature: what completion wrote to  *)
(* the intent is what its only event carries and what a caller accepted.     *)
THEOREM SignatureRecorded == IntentSpec => []SignatureIsRecorded
BY AuditedExactly, AcceptedRecorded, PTL DEF SignatureIsRecorded

(* Final rows are final: a mark of failure, an expiry, a reset and a second  *)
(* completion leave them alone; and no late row becomes signed.              *)
THEOREM FinalIntents == IntentSpec => FinalIntentStays
<1>1. ASSUME IntentInv, [IntentNext]_intentVars, NEW i \in Intents
      PROVE  RowStays(i)
    <2>1. CASE UNCHANGED intents
        BY <2>1 DEF RowStays, Is
    <2>2. CASE Request(i)
        <3>1. ~Is(i, "signed") /\ ~Is(i, "expired")
            BY <1>1, <2>2, Typed DEF Request, AgreesAt, Agrees, Is
        <3> QED
            BY <1>1, <2>2, <3>1, StatusWritten DEF Request, IntentStatus
    <2>3. CASE Is(i, "pending") /\ intents' = SetIntent(i, "failed")
        BY <1>1, <2>3, StatusWritten DEF Is, IntentStatus
    <2>4. CASE Is(i, "pending") /\ intents' = SetIntent(i, "expired")
        BY <1>1, <2>4, StatusWritten DEF Is, IntentStatus
    <2>5. CASE Is(i, "failed") /\ intents' = SetIntent(i, "pending")
        BY <1>1, <2>5, StatusWritten DEF Is, IntentStatus
    <2>6. CASE RequestRecords(i)
        <3>1. intents[i].status = "signed"
            BY <1>1, <2>6, Typed DEF RequestRecords, AgreesAt, Agrees
        <3>2. UNCHANGED intents
            BY <2>6, <3>1 DEF RequestRecords, Is
        <3> QED
            BY <2>1, <3>2
    <2>7. CASE CompleteWrite(i)
        <3>1. CASE ~Recordable(i)
            BY <2>1, <2>7, <3>1 DEF CompleteWrite
        <3>2. CASE Recordable(i)
            BY <3>2 DEF Recordable, Completable, Is, RowStays
        <3> QED
            BY <3>1, <3>2
    <2>8. CASE RequestFails(i) \/ RequestChecks(i)
        BY <2>1, <2>3, <2>8 DEF RequestFails, RequestChecks, Failed
    <2>9. CASE ClaimRead(i) \/ ClaimReset(i) \/ CompleteRead(i)
        BY <2>1, <2>4, <2>5, <2>9
        DEF ClaimRead, ClaimReset, CompleteRead, Expired
    <2>10. CASE \/ RequestAnswered(i) \/ SignerLooks(i) \/ SignerPersists(i)
                \/ SignerPuts(i) \/ SignerStops(i) \/ CompleteVerify(i)
                \/ Expire(i)
        BY <2>1, <2>10
        DEF RequestAnswered, SignerLooks, SignerPersists, SignerPuts,
            SignerStops, CompleteVerify, Expire
    <2>11. CASE (\E o \in Objects : EvidenceChanges(o)) \/ UNCHANGED intentVars
        BY <2>1, <2>11 DEF EvidenceChanges, intentVars
    <2>12. ASSUME NEW j \in Intents, j # i,
                  \/ Request(j) \/ RequestFails(j) \/ RequestAnswered(j)
                  \/ RequestChecks(j) \/ RequestRecords(j)
                  \/ ClaimRead(j) \/ ClaimReset(j)
                  \/ SignerLooks(j) \/ SignerPersists(j) \/ SignerPuts(j)
                  \/ SignerStops(j)
                  \/ CompleteRead(j) \/ CompleteVerify(j) \/ CompleteWrite(j)
                  \/ Expire(j)
           PROVE  RowStays(i)
        <3>1. intents'[i] = intents[i]
            BY <1>1, <2>12, OtherRows
        <3> QED
            BY <3>1 DEF RowStays, Is
    <2> QED
        BY <1>1, <2>2, <2>6, <2>7, <2>8, <2>9, <2>10, <2>11, <2>12 DEF IntentNext
<1>2. IntentInv /\ [IntentNext]_intentVars
        => [\A i \in Intents :
              /\ Is(i, "signed") \/ Is(i, "expired") => intents'[i] = intents[i]
              /\ i \in late => (intents'[i].status = "signed" => Is(i, "signed"))]_intentVars
    BY <1>1 DEF RowStays
<1> QED
    BY <1>2, IntentInvariant, PTL DEF IntentSpec, FinalIntentStays

-----------------------------------------------------------------------------
(* A call of the signer goes on to the put only if it saw no signature. *)
LEMMA NoNewPut ==
    ASSUME IntentInv, IntentNext, NEW i \in Intents,
           stored[Of(i)] # NoSignature, signers[i].at # "put"
    PROVE  signers[i].at' # "put"
<1>1. ASSUME NEW j \in Intents, NEW at \in SignerStages \ {"put"}, Signer(j, at)
      PROVE  signers[i].at' # "put"
    <2>1. PICK call \in SignerCall :
            call.at = at /\ signers' = [signers EXCEPT ![j] = call]
        BY <1>1, CallWritten
    <2> QED
        BY <2>1 DEF IntentInv, IntentTypeOK
<1>2. ASSUME NEW j \in Intents, NEW at \in SignerStages \ {"put"}, NEW s,
             SignerWith(j, at, s)
      PROVE  signers[i].at' # "put"
    BY <1>2 DEF SignerWith, IntentInv, IntentTypeOK
<1>3. CASE UNCHANGED signers
    BY <1>3
<1>4. ASSUME NEW j \in Intents, SignerPersists(j)
      PROVE  signers[i].at' # "put"
    <2>1. CASE stored[Of(j)] = NoSignature
        <3>1. j # i /\ Signer(j, "put")
            BY <1>4, <2>1 DEF SignerPersists
        <3>2. PICK call \in SignerCall : signers' = [signers EXCEPT ![j] = call]
            BY <3>1, CallWritten DEF SignerStages
        <3> QED
            BY <3>1, <3>2 DEF IntentInv, IntentTypeOK
    <2>2. CASE stored[Of(j)] # NoSignature
        BY <1>2, <1>4, <2>2 DEF SignerPersists, SignerStages
    <2> QED
        BY <2>1, <2>2
<1>5. ASSUME NEW j \in Intents,
             \/ Request(j) \/ ClaimRead(j) \/ ClaimReset(j)
             \/ SignerPuts(j) \/ SignerStops(j)
             \/ CompleteRead(j) \/ CompleteVerify(j) \/ CompleteWrite(j)
      PROVE  signers[i].at' # "put"
    <2>1. \E at \in {"claim", "refused", "reset", "look", "report", "verify",
                     "complete", "signed", "aborted"} : Signer(j, at)
        BY <1>5 DEF Request, ClaimRead, ClaimReset, SignerPuts, SignerStops,
                    CompleteRead, CompleteVerify, CompleteWrite
    <2> QED
        BY <1>1, <2>1 DEF SignerStages
<1>6. ASSUME NEW j \in Intents, SignerLooks(j)
      PROVE  signers[i].at' # "put"
    BY <1>2, <1>6 DEF SignerLooks, SignerStages
<1>7. ASSUME NEW j \in Intents,
             \/ RequestFails(j) \/ RequestAnswered(j) \/ RequestChecks(j)
             \/ RequestRecords(j) \/ Expire(j)
      PROVE  signers[i].at' # "put"
    BY <1>3, <1>7 DEF RequestFails, RequestAnswered, RequestChecks,
                      RequestRecords, Expire
<1>8. CASE \E o \in Objects : EvidenceChanges(o)
    BY <1>3, <1>8 DEF EvidenceChanges
<1> QED
    BY <1>4, <1>5, <1>6, <1>7, <1>8 DEF IntentNext

(* Callers that try again never replace a signature that settled. *)
THEOREM SettledSignatures == IntentSpec => SettledSignatureStays
<1>1. ASSUME IntentInv, [IntentNext]_intentVars, NEW o \in Objects, Settled(o)
      PROVE  stored'[o] = stored[o] /\ Settled(o)'
    <2>1. stored'[o] = stored[o]
        <3>1. ASSUME NEW j \in Intents, SignerPuts(j)
              PROVE  stored'[o] = stored[o]
            <4>1. Of(j) # o
                BY <1>1, <3>1 DEF Settled, SignerPuts
            <4> QED
                BY <1>1, <3>1, <4>1 DEF SignerPuts, IntentInv, IntentTypeOK
        <3>2. CASE UNCHANGED stored
            BY <3>2
        <3> QED
            BY <1>1, <3>1, <3>2
            DEF IntentNext, intentVars, Request, RequestFails, RequestAnswered,
                RequestChecks, RequestRecords, ClaimRead, ClaimReset,
                SignerLooks, SignerPersists, SignerStops, CompleteRead,
                CompleteVerify, CompleteWrite, Expire, EvidenceChanges
    <2>2. ASSUME NEW i \in Intents, Of(i) = o
          PROVE  signers[i].at' # "put"
        <3>1. signers[i].at # "put" /\ stored[Of(i)] # NoSignature
            BY <1>1, <2>2 DEF Settled
        <3>2. CASE IntentNext
            BY <1>1, <3>1, <3>2, NoNewPut
        <3>3. CASE UNCHANGED intentVars
            BY <3>1, <3>3 DEF intentVars
        <3> QED
            BY <1>1, <3>2, <3>3
    <2> QED
        BY <1>1, <2>1, <2>2 DEF Settled, Of
<1>2. IntentInv /\ [IntentNext]_intentVars
        => [\A o \in Objects : Settled(o) =>
              stored'[o] = stored[o] /\ Settled(o)']_intentVars
    BY <1>1
<1> QED
    BY <1>2, IntentInvariant, PTL DEF IntentSpec, SettledSignatureStays

(***************************************************************************)
(* Channels, for any releases, dependency graph, number of handlers and    *)
(* crash reports.  A handler commits what it prepared from rows read long  *)
(* before.  The batch compares inclusions and numbers of rows; the proofs  *)
(* show that these are enough: the stable rows read are the stable rows    *)
(* there are, so the graph that was checked is the graph that results.     *)
(***************************************************************************)

(* What a handler established before it writes, of its own call only. *)
CallBound(c) ==
    /\ c.op = "publish" /\ c.at = "commit" => c.release \in Releases
    /\ c.op = "promote" =>
         /\ \A r \in c.ids : SameKey(c.ids, r) = {r}
         /\ c.at \in {"dev", "commit"} =>
              GraphHolds(c.ids, c.stable, FinalStable(c.stable, c.ids))
    /\ c.op = "rollback" /\ c.at \in {"stable", "commit"} =>
         /\ c.release \in Releases
         /\ c.previous \in Releases
         /\ Key(c.previous) = Key(c.release)
         /\ c.previous \in Binary <=> c.release \in Binary
         /\ c.at = "commit" /\ c.release \in Binary =>
              GraphHolds({}, c.stable, FinalStable(c.stable, {c.previous}))
    /\ c.op = "quarantine" /\ c.at \in {"stable", "dev", "commit"} =>
         /\ c.release \in Releases
         /\ c.at # "stable" /\ c.release \in Binary =>
              GraphHolds({}, c.stable, c.stable \ {c.release})

CallsBound == \A h \in Handlers : CallBound(calls[h])

(* previous_release_id names another version of the same package. *)
PreviousIsSamePackage ==
    \A r \in Releases :
        previous[r] # NoRelease => Key(previous[r]) = Key(r)

(* The graph of the stable channel is closed over the packages it carries. *)
DependenciesMet == GraphHolds({}, In("stable"), In("stable"))

RowsInv ==
    /\ PreviousIsSamePackage
    /\ StableIndexMatchesChannel
    /\ OneStablePerPackage
    /\ DependenciesMet

ChannelsInv == TypeOK /\ CallsBound /\ RowsInv

-----------------------------------------------------------------------------
(* Sets of rows: a part with as many rows as the whole is the whole. *)
LEMMA SameNumber ==
    ASSUME NEW S, NEW T, IsFiniteSet(T), S \subseteq T,
           Cardinality(T) = Cardinality(S)
    PROVE  S = T
BY FS_Subset

LEMMA RowsFinite ==
    ASSUME NEW S, S \subseteq Releases
    PROVE  IsFiniteSet(S)
BY FS_Subset, ReleaseAssumption

-----------------------------------------------------------------------------
(* Calls. *)

LEMMA IdleBound == Idle \in CallRecords /\ CallBound(Idle)
BY DEF Idle, Call, CallRecords, CallBound

(* A handler that moves on in its own call.                                  *)
LEMMA CallMoves ==
    ASSUME ChannelsInv, NEW h \in Handlers,
           NEW c \in CallRecords, CallBound(c), Set(h, c)
    PROVE  calls' \in [Handlers -> CallRecords] /\ CallsBound'
<1>1. calls' \in [Handlers -> CallRecords]
    BY DEF ChannelsInv, TypeOK, Set
<1>2. ASSUME NEW g \in Handlers PROVE CallBound(calls'[g])
    <2>1. calls'[g] = IF g = h THEN c ELSE calls[g]
        BY DEF ChannelsInv, TypeOK, Set
    <2> QED BY <2>1 DEF ChannelsInv, CallsBound
<1> QED BY <1>1, <1>2 DEF CallsBound, CallBound

(* The end of a call. *)
LEMMA CallEnds ==
    ASSUME ChannelsInv, NEW h \in Handlers, NEW outcome \in {"done", "failed"},
           EndWith(h, outcome)
    PROVE  calls' \in [Handlers -> CallRecords] /\ CallsBound'
<1> DEFINE c == [Idle EXCEPT !.op = "quarantine", !.at = outcome,
                             !.release = calls[h].release]
<1>1. calls[h] \in CallRecords
    BY DEF ChannelsInv, TypeOK
<1>2. c \in CallRecords /\ c.op = "quarantine" /\ c.at = outcome
    BY <1>1 DEF Idle, Call, CallRecords
<1>3. CallBound(c)
    BY <1>2 DEF CallBound
<1>4. Set(h, c) \/ Set(h, Idle)
    BY DEF EndWith
<1> QED BY <1>2, <1>3, <1>4, IdleBound, CallMoves

(* A step that writes no row. *)
LEMMA RowsKept ==
    ASSUME ChannelsInv, UNCHANGED rowVars, reports' \in [Releases -> [new : Nat, confirmed : Nat]],
           superseded' \subseteq Releases,
           calls' \in [Handlers -> CallRecords] /\ CallsBound'
    PROVE  ChannelsInv'
<1>1. UNCHANGED <<channel, previous, index>>
    BY DEF rowVars
<1>2. TypeOK'
    BY <1>1 DEF ChannelsInv, TypeOK
<1>3. RowsInv'
    BY <1>1 DEF ChannelsInv, RowsInv, PreviousIsSamePackage, StableIndexMatchesChannel,
               OneStablePerPackage, DependenciesMet, In, GraphHolds, Entries
<1> QED BY <1>2, <1>3 DEF ChannelsInv

LEMMA RefusedKeeps ==
    ASSUME ChannelsInv, NEW h \in Handlers, NEW outcome \in {"done", "failed"},
           EndWith(h, outcome), UNCHANGED rowVars, UNCHANGED Environment
    PROVE  ChannelsInv'
<1>1. calls' \in [Handlers -> CallRecords] /\ CallsBound'
    BY CallEnds
<1>2. reports' = reports /\ superseded' = superseded
    BY DEF Environment
<1> QED BY <1>1, <1>2, RowsKept DEF ChannelsInv, TypeOK

LEMMA CallKeeps ==
    ASSUME ChannelsInv, NEW h \in Handlers,
           NEW c \in CallRecords, CallBound(c), Set(h, c),
           UNCHANGED rowVars, UNCHANGED Environment
    PROVE  ChannelsInv'
<1>1. calls' \in [Handlers -> CallRecords] /\ CallsBound'
    BY CallMoves
<1>2. reports' = reports /\ superseded' = superseded
    BY DEF Environment
<1> QED BY <1>1, <1>2, RowsKept DEF ChannelsInv, TypeOK

-----------------------------------------------------------------------------
(* The reads: each keeps what its call has established so far. *)

LEMMA StableRows == In("stable") \subseteq Releases /\ In("dev") \subseteq Releases
BY DEF In

LEMMA CheckKeeps ==
    ASSUME ChannelsInv, NEW h \in Handlers, Maintain(h)
    PROVE  ChannelsInv'
<1>1. ASSUME NEW r \in Releases, PublishRead(h, r) PROVE ChannelsInv'
    <2> DEFINE c == [Call("publish", "commit", r, {r}) EXCEPT !.dev = In("dev")]
    <2>1. c \in CallRecords /\ c.op = "publish" /\ c.release = r
        BY StableRows DEF Call, CallRecords
    <2>2. CallBound(c)
        BY <2>1 DEF CallBound
    <2> HIDE DEF c
    <2>3. Set(h, c) /\ UNCHANGED rowVars /\ UNCHANGED Environment
        BY <1>1 DEF PublishRead, c, rowVars, Environment
    <2> QED BY <2>1, <2>2, <2>3, CallKeeps
<1>2. ASSUME NEW ids \in SUBSET Releases, PromoteCheck(h, ids) PROVE ChannelsInv'
    <2> DEFINE c == Call("promote", "stable", NoRelease, ids)
    <2>1. /\ c \in CallRecords /\ c.op = "promote" /\ c.at = "stable"
          /\ c.ids = ids
        BY DEF Call, CallRecords
    <2>2. CallBound(c)
        BY <1>2, <2>1 DEF CallBound, PromoteCheck
    <2> HIDE DEF c
    <2>3. Set(h, c) /\ UNCHANGED rowVars /\ UNCHANGED Environment
        BY <1>2 DEF PromoteCheck, c, rowVars, Environment
    <2> QED BY <2>1, <2>2, <2>3, CallKeeps
<1>3. ASSUME NEW r \in Releases, RollbackCheck(h, r) PROVE ChannelsInv'
    <2>1. PICK p \in Predecessor(r) :
            /\ p \in Binary <=> r \in Binary
            /\ Set(h, [Call("rollback", "stable", r, {r}) EXCEPT !.previous = p])
        BY <1>3 DEF RollbackCheck
    <2> DEFINE c == [Call("rollback", "stable", r, {r}) EXCEPT !.previous = p]
    <2>2. p \in Releases /\ Key(p) = Key(r)
        <3>1. CASE previous[r] # NoRelease
            BY <2>1, <3>1
            DEF Predecessor, ChannelsInv, RowsInv, PreviousIsSamePackage, TypeOK
        <3>2. CASE previous[r] = NoRelease
            BY <2>1, <3>2 DEF Predecessor, LatestPerPackage, SameKey, In
        <3> QED BY <3>1, <3>2
    <2>3. /\ c \in CallRecords /\ c.op = "rollback" /\ c.at = "stable"
          /\ c.release = r /\ c.previous = p
        BY <2>2 DEF Call, CallRecords
    <2>4. CallBound(c)
        BY <2>1, <2>2, <2>3 DEF CallBound
    <2> HIDE DEF c
    <2>5. Set(h, c) /\ UNCHANGED rowVars /\ UNCHANGED Environment
        BY <1>3, <2>1 DEF RollbackCheck, c, rowVars, Environment
    <2> QED BY <2>3, <2>4, <2>5, CallKeeps
<1> QED BY <1>1, <1>2, <1>3 DEF Maintain

LEMMA PromoteReadKeeps ==
    ASSUME ChannelsInv, NEW h \in Handlers, PromoteReadStable(h) \/ PromoteReadDev(h)
    PROVE  ChannelsInv'
<1> DEFINE c == calls[h]
<1>1. c \in CallRecords /\ CallBound(c)
    BY DEF ChannelsInv, TypeOK, CallsBound
<1>2. c.op = "promote" /\ UNCHANGED rowVars /\ UNCHANGED Environment
    BY DEF PromoteReadStable, PromoteReadDev, Reading, rowVars, Environment
<1>3. CASE PromoteReadStable(h) /\ GraphHolds(c.ids, In("stable"), FinalStable(In("stable"), c.ids))
    <2> DEFINE d == [c EXCEPT !.at = "dev", !.stable = In("stable")]
    <2>1. /\ d \in CallRecords /\ d.op = "promote" /\ d.at = "dev"
          /\ d.ids = c.ids /\ d.stable = In("stable")
        BY <1>1, <1>2, StableRows DEF CallRecords
    <2>2. Set(h, d)
        BY <1>3 DEF PromoteReadStable
    <2> HIDE DEF d
    <2>3. CallBound(d)
        BY <1>1, <1>2, <1>3, <2>1 DEF CallBound
    <2> QED BY <1>2, <2>1, <2>2, <2>3, CallKeeps
<1>4. CASE PromoteReadStable(h) /\ ~GraphHolds(c.ids, In("stable"), FinalStable(In("stable"), c.ids))
    <2>1. EndWith(h, "done")
        BY <1>4 DEF PromoteReadStable, Done
    <2> QED BY <1>2, <2>1, RefusedKeeps
<1>5. CASE PromoteReadDev(h)
    <2> DEFINE d == [c EXCEPT !.at = "commit", !.dev = In("dev")]
    <2>1. /\ d \in CallRecords /\ d.op = "promote" /\ d.at = "commit"
          /\ d.ids = c.ids /\ d.stable = c.stable /\ c.at = "dev"
        BY <1>1, <1>2, <1>5, StableRows DEF CallRecords, PromoteReadDev, Reading
    <2>2. Set(h, d)
        BY <1>5 DEF PromoteReadDev
    <2> HIDE DEF d
    <2>3. CallBound(d)
        BY <1>1, <1>2, <2>1 DEF CallBound
    <2> QED BY <1>2, <2>1, <2>2, <2>3, CallKeeps
<1> QED BY <1>3, <1>4, <1>5

LEMMA RollbackReadKeeps ==
    ASSUME ChannelsInv, NEW h \in Handlers, RollbackReadStable(h)
    PROVE  ChannelsInv'
<1> DEFINE c == calls[h]
           holds == c.release \in Binary =>
                      GraphHolds({}, In("stable"), FinalStable(In("stable"), {c.previous}))
<1>1. c \in CallRecords /\ CallBound(c)
    BY DEF ChannelsInv, TypeOK, CallsBound
<1>2. c.op = "rollback" /\ c.at = "stable" /\ UNCHANGED rowVars /\ UNCHANGED Environment
    BY DEF RollbackReadStable, Reading, rowVars, Environment
<1>3. CASE holds
    <2> DEFINE d == [c EXCEPT !.at = "commit", !.stable = In("stable")]
    <2>1. /\ d \in CallRecords /\ d.op = "rollback" /\ d.at = "commit"
          /\ d.release = c.release /\ d.previous = c.previous /\ d.stable = In("stable")
        BY <1>1, <1>2, StableRows DEF CallRecords
    <2>2. Set(h, d)
        BY <1>3 DEF RollbackReadStable
    <2> HIDE DEF d
    <2>3. CallBound(d)
        BY <1>1, <1>2, <1>3, <2>1 DEF CallBound
    <2> QED BY <1>2, <2>1, <2>2, <2>3, CallKeeps
<1>4. CASE ~holds
    <2>1. EndWith(h, "done")
        BY <1>4 DEF RollbackReadStable, Done
    <2> QED BY <1>2, <2>1, RefusedKeeps
<1> QED BY <1>3, <1>4

LEMMA QuarantineReadKeeps ==
    ASSUME ChannelsInv, NEW h \in Handlers, QuarantineReadStable(h) \/ QuarantineReadDev(h)
    PROVE  ChannelsInv'
<1> DEFINE c == calls[h]
           holds == c.release \in Binary =>
                      GraphHolds({}, In("stable"), In("stable") \ {c.release})
<1>1. c \in CallRecords /\ CallBound(c)
    BY DEF ChannelsInv, TypeOK, CallsBound
<1>2. c.op = "quarantine" /\ UNCHANGED rowVars /\ UNCHANGED Environment
    BY DEF QuarantineReadStable, QuarantineReadDev, Reading, rowVars, Environment
<1>3. CASE QuarantineReadStable(h) /\ holds
    <2> DEFINE d == [c EXCEPT !.at = "dev", !.stable = In("stable")]
    <2>1. /\ d \in CallRecords /\ d.op = "quarantine" /\ d.at = "dev"
          /\ d.release = c.release /\ d.stable = In("stable") /\ c.at = "stable"
        BY <1>1, <1>2, <1>3, StableRows DEF CallRecords, QuarantineReadStable, Reading
    <2>2. Set(h, d)
        BY <1>3 DEF QuarantineReadStable
    <2> HIDE DEF d
    <2>3. CallBound(d)
        BY <1>1, <1>2, <1>3, <2>1 DEF CallBound
    <2> QED BY <1>2, <2>1, <2>2, <2>3, CallKeeps
<1>4. CASE QuarantineReadStable(h) /\ ~holds
    <2>1. EndWith(h, "failed")
        BY <1>4 DEF QuarantineReadStable
    <2> QED BY <1>2, <2>1, RefusedKeeps
<1>5. CASE QuarantineReadDev(h)
    <2> DEFINE d == [c EXCEPT !.at = "commit", !.dev = In("dev")]
    <2>1. /\ d \in CallRecords /\ d.op = "quarantine" /\ d.at = "commit"
          /\ d.release = c.release /\ d.stable = c.stable /\ c.at = "dev"
        BY <1>1, <1>2, <1>5, StableRows DEF CallRecords, QuarantineReadDev, Reading
    <2>2. Set(h, d)
        BY <1>5 DEF QuarantineReadDev
    <2> HIDE DEF d
    <2>3. CallBound(d)
        BY <1>1, <1>2, <2>1 DEF CallBound
    <2> QED BY <1>2, <2>1, <2>2, <2>3, CallKeeps
<1> QED BY <1>3, <1>4, <1>5

LEMMA QuarantineEntersKeeps ==
    ASSUME ChannelsInv, NEW h \in Handlers,
           QuarantineReturn(h) \/ \E r \in Releases : Quarantine(h, r)
    PROVE  ChannelsInv'
<1>1. CASE QuarantineReturn(h)
    <2>1. Set(h, Idle) /\ UNCHANGED rowVars /\ UNCHANGED Environment
        BY <1>1 DEF QuarantineReturn, rowVars, Environment
    <2> QED BY <2>1, IdleBound, CallKeeps
<1>2. ASSUME NEW r \in Releases, Quarantine(h, r) PROVE ChannelsInv'
    <2> DEFINE at == IF channel[r] = "stable" THEN "stable" ELSE "done"
               c == [Call("quarantine", "stable", r, {r}) EXCEPT !.at = at]
    <2>1. /\ c \in CallRecords /\ c.op = "quarantine" /\ c.release = r
          /\ c.at \in {"stable", "done"}
        BY DEF Call, CallRecords
    <2>2. CallBound(c)
        BY <2>1 DEF CallBound
    <2>3. Set(h, c) /\ UNCHANGED rowVars /\ UNCHANGED Environment
        BY <1>2 DEF Quarantine, QuarantineCheck, rowVars, Environment
    <2> HIDE DEF c
    <2> QED BY <2>1, <2>2, <2>3, CallKeeps
<1> QED BY <1>1, <1>2

(* Crash reports and revisions are no rows of a channel. *)
LEMMA EnvironmentKeeps ==
    ASSUME ChannelsInv, NEW r \in Releases,
           \/ Report(r) \/ Confirm(r) \/ Resolve(r) \/ ExpireReports(r)
           \/ Supersede(r)
    PROVE  ChannelsInv'
<1>1. UNCHANGED rowVars /\ calls' = calls
    BY DEF Report, Confirm, Resolve, ExpireReports, Supersede, rowVars
<1>2. reports[r] \in [new : Nat, confirmed : Nat]
    BY DEF ChannelsInv, TypeOK
<1>3. reports' \in [Releases -> [new : Nat, confirmed : Nat]]
    <2>1. CASE Supersede(r)
        BY <2>1 DEF Supersede, ChannelsInv, TypeOK
    <2>2. CASE Report(r)
        BY <1>2, <2>2 DEF Report, ChannelsInv, TypeOK
    <2>3. CASE Confirm(r)
        BY <1>2, <2>3 DEF Confirm, ChannelsInv, TypeOK
    <2>4. CASE Resolve(r)
        BY <1>2, <2>4 DEF Resolve, ChannelsInv, TypeOK
    <2>5. CASE ExpireReports(r)
        BY <1>2, <2>5 DEF ExpireReports, ChannelsInv, TypeOK
    <2> QED BY <2>1, <2>2, <2>3, <2>4, <2>5
<1>4. superseded' \subseteq Releases
    BY DEF Report, Confirm, Resolve, ExpireReports, Supersede, ChannelsInv, TypeOK
<1>5. calls' \in [Handlers -> CallRecords] /\ CallsBound'
    BY <1>1 DEF ChannelsInv, TypeOK, CallsBound, CallBound
<1> QED BY <1>1, <1>3, <1>4, <1>5, RowsKept

-----------------------------------------------------------------------------
(* The batches.  Each lemma says what a batch that held makes of stable.     *)

LEMMA PromoteMoves ==
    ASSUME ChannelsInv, NEW h \in Handlers, PromoteCommit(h),
           PromoteHolds(calls[h], FinalStable(calls[h].stable, calls[h].ids))
    PROVE  /\ calls[h].stable = In("stable")
           /\ calls[h].ids \subseteq In("dev")
           /\ In("stable")' = FinalStable(In("stable"), calls[h].ids)
<1> DEFINE c == calls[h]
           final == FinalStable(c.stable, c.ids)
<1>1. c \in CallRecords /\ c.ids \subseteq Releases /\ c.stable \subseteq In("stable")
    BY DEF ChannelsInv, TypeOK, CallRecords, PromoteHolds
<1>2. c.ids \subseteq In("dev")
    BY <1>1 DEF PromoteHolds, Promotable, In
<1>3. c.stable = In("stable")
    <2> DEFINE all == (In("stable") \ c.stable) \cup final
    <2>1. all \subseteq Releases /\ final \subseteq all
        BY <1>1 DEF FinalStable, In
    <2>2. final = all
        BY <2>1, RowsFinite, SameNumber DEF PromoteHolds
    <2>3. In("stable") \ c.stable \subseteq c.ids
        BY <2>2 DEF FinalStable
    <2>4. In("stable") \cap c.ids = {}
        BY <1>2 DEF In
    <2> QED BY <1>1, <2>3, <2>4
<1>4. \A r \in Releases : channel'[r] =
          IF r \in c.ids THEN "stable"
          ELSE IF r \in c.stable /\ Key(r) \in Keys(c.ids) THEN "withdrawn"
          ELSE channel[r]
    BY <1>1 DEF PromoteCommit
<1>5. In("stable")' = FinalStable(c.stable, c.ids)
    BY <1>1, <1>3, <1>4 DEF In, FinalStable
<1> QED BY <1>2, <1>3, <1>5

LEMMA RollbackMoves ==
    ASSUME ChannelsInv, NEW h \in Handlers, RollbackCommit(h), RollbackHolds(calls[h])
    PROVE  LET c == calls[h] IN
           /\ c.stable = In("stable")
           /\ c.release \in In("stable") /\ c.previous \notin In("stable")
           /\ In("stable")' = (In("stable") \ {c.release}) \cup {c.previous}
           /\ In("stable")' = FinalStable(In("stable"), {c.previous})
<1> DEFINE c == calls[h]
<1>1. /\ c.release \in Releases /\ c.previous \in Releases
      /\ Key(c.previous) = Key(c.release)
    BY DEF ChannelsInv, CallsBound, CallBound, RollbackCommit, Reading
<1>2. c.release \in In("stable") /\ c.previous \notin In("stable")
    BY <1>1 DEF RollbackHolds, In
<1>3. c.stable = In("stable")
    <2>1. /\ c.stable \ {c.release} \subseteq In("stable")
          /\ Cardinality(In("stable")) = Cardinality(c.stable)
        BY DEF RollbackHolds
    <2>2. c.stable \subseteq In("stable")
        BY <1>2, <2>1
    <2> QED BY <2>1, <2>2, StableRows, RowsFinite, SameNumber
<1>4. \A r \in Releases : channel'[r] =
          IF r = c.previous THEN "stable"
          ELSE IF r = c.release THEN "withdrawn" ELSE channel[r]
    BY <1>1, <1>2 DEF RollbackCommit, ChannelsInv, TypeOK, In
<1>5. In("stable")' = (In("stable") \ {c.release}) \cup {c.previous}
    BY <1>1, <1>2, <1>4 DEF In
<1>6. {r \in In("stable") : Key(r) \notin Keys({c.previous})} = In("stable") \ {c.release}
    BY <1>1, <1>2 DEF ChannelsInv, RowsInv, OneStablePerPackage, SameKey, Keys
<1> QED BY <1>2, <1>3, <1>5, <1>6 DEF FinalStable

LEMMA QuarantineMoves ==
    ASSUME ChannelsInv, NEW h \in Handlers, QuarantineCommit(h), QuarantineHolds(calls[h])
    PROVE  LET c == calls[h] IN
           /\ c.stable \ {c.release} = In("stable") \ {c.release}
           /\ c.release \in In("stable")
           /\ In("stable")' = In("stable") \ {c.release}
<1> DEFINE c == calls[h]
<1>1. c.release \in Releases
    BY DEF ChannelsInv, CallsBound, CallBound, QuarantineCommit, Reading
<1>2. c.release \in In("stable")
    BY <1>1 DEF QuarantineHolds, In
<1>3. c.stable \ {c.release} = In("stable") \ {c.release}
    <2> DEFINE S == c.stable \ {c.release}
               T == In("stable") \ {c.release}
    <2>1. S \subseteq T /\ Cardinality(T) = Cardinality(S)
        BY DEF QuarantineHolds
    <2>2. IsFiniteSet(T)
        BY StableRows, RowsFinite
    <2> HIDE DEF S, T
    <2>3. S = T
        BY <2>1, <2>2, SameNumber
    <2> QED BY <2>3 DEF S, T
<1>4. In("stable")' = In("stable") \ {c.release}
    BY <1>1 DEF QuarantineCommit, ChannelsInv, TypeOK, In
<1> QED BY <1>2, <1>3, <1>4

-----------------------------------------------------------------------------
(* What a step makes of the stable channel, as the action properties say it. *)
CleanStep ==
    \A r \in In("dev") : channel'[r] = "stable" => ~Open(r) /\ r \notin superseded

PolicyStep ==
    \A r \in In("stable") :
        Key(r) \notin Keys(In("stable")') => Confirmed(r) >= Threshold

GraphStep ==
    \A r \in In("stable")' \cap Binary : \A q \in Requires[r] :
        \/ q.by \cap Entries(In("stable")', ArchOf[r]) # {}
        \/ \A s \in (In("stable") \cap Binary) \ Unseen : NameOf[s] # q.name

StepIsSound == CleanStep /\ PolicyStep /\ GraphStep

(* A graph that was closed over what was there and what was to come is closed *)
(* over the outcome, whose packages all have a name from there.              *)
LEMMA GraphCloses ==
    ASSUME NEW current, NEW candidates, NEW final,
           GraphHolds(candidates, current, final),
           \A r \in final \cap Binary : \E s \in (current \cup candidates) \cap Binary :
               NameOf[s] = NameOf[r]
    PROVE  GraphHolds({}, final, final) /\ GraphHolds({}, current, final)
BY DEF GraphHolds

(* The snapshots that are built anew are those of the architectures whose    *)
(* binaries changed.                                                         *)
LEMMA IndexFollows ==
    ASSUME ChannelsInv, NEW arches, NEW final,
           index'["stable"] = Rebuilt("stable", final, arches),
           In("stable")' = final,
           \A r \in Binary :
               (r \in In("stable")) # (r \in final) => ArchOf[r] \in arches
    PROVE  StableIndexMatchesChannel'
<1>1. ASSUME NEW a \in Arches PROVE index'["stable"][a] = Entries(final, a)
    <2>1. index'["stable"][a] = IF a \in arches THEN Entries(final, a)
                                ELSE index["stable"][a]
        BY <1>1 DEF Rebuilt
    <2>2. index["stable"][a] = Entries(In("stable"), a)
        BY <1>1 DEF ChannelsInv, RowsInv, StableIndexMatchesChannel
    <2>3. a \notin arches => Entries(In("stable"), a) = Entries(final, a)
        BY DEF Entries
    <2> QED BY <2>1, <2>2, <2>3
<1> QED BY <1>1 DEF StableIndexMatchesChannel

LEMMA RebuiltTyped ==
    ASSUME TypeOK, NEW ch \in {"stable", "dev"}, NEW arches,
           NEW rs, rs \subseteq Releases
    PROVE  Rebuilt(ch, rs, arches) \in [Arches -> SUBSET Releases]
BY DEF Rebuilt, TypeOK, Entries

(* A step that moves nothing into or out of stable. *)
LEMMA StableUnmoved ==
    ASSUME ChannelsInv, In("stable")' = In("stable"),
           \A r \in Releases : channel'[r] = "stable" <=> channel[r] = "stable"
    PROVE  StepIsSound
<1>1. CleanStep
    BY DEF CleanStep, In
<1>2. PolicyStep
    BY DEF PolicyStep, Keys
<1>3. GraphStep
    BY DEF GraphStep, ChannelsInv, RowsInv, DependenciesMet, GraphHolds
<1> QED BY <1>1, <1>2, <1>3 DEF StepIsSound

LEMMA PublishKeeps ==
    ASSUME ChannelsInv, NEW h \in Handlers, PublishCommit(h)
    PROVE  ChannelsInv' /\ StepIsSound
<1> DEFINE c == calls[h]
           listed == c.dev \cup {c.release}
           arches == ArchesOf(listed) \cap {ArchOf[c.release]}
           holds == PublishHolds(c, arches # {})
<1>1. /\ c \in CallRecords /\ c.release \in Releases /\ c.dev \subseteq Releases
      /\ UNCHANGED Environment
    BY DEF ChannelsInv, TypeOK, CallsBound, CallBound, CallRecords, PublishCommit, Reading
<1>2. CASE ~holds
    <2>1. EndWith(h, "failed") /\ UNCHANGED rowVars
        BY <1>2 DEF PublishCommit, Refused
    <2>2. channel' = channel
        BY <2>1 DEF rowVars
    <2> QED BY <1>1, <2>1, <2>2, RefusedKeeps, StableUnmoved DEF In
<1>3. CASE holds
    <2>1. /\ channel[c.release] = "none"
          /\ channel' = [channel EXCEPT ![c.release] = "dev"]
          /\ index' = [index EXCEPT !["dev"] = Rebuilt("dev", LatestPerPackage(listed), arches)]
          /\ EndWith(h, "done") /\ previous' = previous
        BY <1>3 DEF PublishCommit, PublishHolds, Done
    <2>2. \A r \in Releases : channel'[r] = "stable" <=> channel[r] = "stable"
        BY <1>1, <2>1 DEF ChannelsInv, TypeOK
    <2>3. In("stable")' = In("stable")
        BY <2>2 DEF In
    <2>4. reports' = reports /\ superseded' = superseded
        BY <1>1 DEF Environment
    <2>5. LatestPerPackage(listed) \subseteq Releases
        BY <1>1 DEF LatestPerPackage
    <2>6. Rebuilt("dev", LatestPerPackage(listed), arches) \in [Arches -> SUBSET Releases]
        BY <2>5, RebuiltTyped DEF ChannelsInv
    <2>7. index' \in [{"stable", "dev"} -> [Arches -> SUBSET Releases]]
          /\ index'["stable"] = index["stable"]
        BY <2>1, <2>6 DEF ChannelsInv, TypeOK
    <2>8. channel' \in [Releases -> Channels]
        BY <1>1, <2>1 DEF ChannelsInv, TypeOK, Channels
    <2>9. calls' \in [Handlers -> CallRecords] /\ CallsBound'
        BY <2>1, CallEnds
    <2>10. TypeOK'
        BY <2>1, <2>4, <2>7, <2>8, <2>9 DEF ChannelsInv, TypeOK
    <2>11. RowsInv'
        BY <2>1, <2>3, <2>7 DEF ChannelsInv, RowsInv, PreviousIsSamePackage,
           StableIndexMatchesChannel, OneStablePerPackage, DependenciesMet
    <2> QED BY <2>2, <2>3, <2>9, <2>10, <2>11, StableUnmoved DEF ChannelsInv
<1> QED BY <1>2, <1>3

LEMMA PromoteKeeps ==
    ASSUME ChannelsInv, NEW h \in Handlers, PromoteCommit(h)
    PROVE  ChannelsInv' /\ StepIsSound
<1> DEFINE c == calls[h]
           final == FinalStable(c.stable, c.ids)
           replaced == {r \in c.stable : Key(r) \in Keys(c.ids)}
           arches == ArchesOf(c.ids \cup replaced)
           devArches == ArchesOf({r \in c.dev \cup c.ids \cup replaced :
                                    Key(r) \in Keys(c.ids)})
           last(r) == CHOOSE p \in LatestPerPackage(SameKey(replaced, r)) : TRUE
<1>1. /\ c \in CallRecords /\ c.op = "promote" /\ c.at = "commit" /\ CallBound(c)
      /\ UNCHANGED Environment
    BY DEF ChannelsInv, TypeOK, CallsBound, PromoteCommit, Reading
<1>2. c.ids \subseteq Releases /\ c.stable \subseteq Releases /\ c.dev \subseteq Releases
    BY <1>1 DEF CallRecords
<1>3. CASE ~PromoteHolds(c, final)
    <2>1. EndWith(h, "failed") /\ UNCHANGED rowVars
        BY <1>3 DEF PromoteCommit, Refused
    <2>2. channel' = channel
        BY <2>1 DEF rowVars
    <2> QED BY <1>1, <2>1, <2>2, RefusedKeeps, StableUnmoved DEF In
<1>4. CASE PromoteHolds(c, final)
    <2>1. /\ channel' = [r \in Releases |-> IF r \in c.ids THEN "stable"
                                            ELSE IF r \in replaced THEN "withdrawn"
                                            ELSE channel[r]]
          /\ previous' = [r \in Releases |->
               IF r \notin c.ids THEN previous[r]
               ELSE IF SameKey(replaced, r) = {} THEN NoRelease ELSE last(r)]
          /\ index' = [index EXCEPT
                !["stable"] = Rebuilt("stable", final, arches),
                !["dev"] = Rebuilt("dev", LatestPerPackage(c.dev \ c.ids), devArches)]
          /\ EndWith(h, "done")
        BY <1>4 DEF PromoteCommit, Done
    <2>2. /\ c.stable = In("stable") /\ c.ids \subseteq In("dev")
          /\ In("stable")' = final
        BY <1>4, PromoteMoves
    <2>3. \A r \in c.ids : SameKey(c.ids, r) = {r}
        BY <1>1 DEF CallBound
    <2>4. GraphHolds(c.ids, c.stable, final)
        BY <1>1 DEF CallBound
    <2>5. ASSUME NEW r \in c.ids, SameKey(replaced, r) # {}
          PROVE  last(r) \in Releases /\ Key(last(r)) = Key(r)
        <3>1. PICK p \in SameKey(replaced, r) : TRUE
            BY <2>5
        <3>2. p \in In("stable") /\ Key(p) = Key(r)
            BY <2>2, <3>1 DEF SameKey
        <3>3. SameKey(In("stable"), p) = {p}
            BY <3>2 DEF ChannelsInv, RowsInv, OneStablePerPackage
        <3>4. SameKey(replaced, r) = {p}
            BY <2>2, <3>1, <3>2, <3>3 DEF SameKey
        <3>5. At[p] \in Nat
            BY <3>2, StableRows, ReleaseAssumption
        <3>6. LatestPerPackage({p}) = {p}
            BY <3>5 DEF LatestPerPackage, SameKey
        <3>7. last(r) = p
            BY <3>4, <3>6
        <3> QED BY <3>2, <3>7, StableRows
    <2> HIDE DEF last
    <2>6. previous' \in [Releases -> Releases \cup {NoRelease}] /\ PreviousIsSamePackage'
        BY <1>2, <2>1, <2>5 DEF ChannelsInv, TypeOK, RowsInv, PreviousIsSamePackage
    <2>7. final \subseteq Releases /\ LatestPerPackage(c.dev \ c.ids) \subseteq Releases
        BY <1>2 DEF FinalStable, LatestPerPackage
    <2>8. /\ Rebuilt("stable", final, arches) \in [Arches -> SUBSET Releases]
          /\ Rebuilt("dev", LatestPerPackage(c.dev \ c.ids), devArches)
               \in [Arches -> SUBSET Releases]
        BY <2>7, RebuiltTyped DEF ChannelsInv
    <2>9. index' \in [{"stable", "dev"} -> [Arches -> SUBSET Releases]]
          /\ index'["stable"] = Rebuilt("stable", final, arches)
        BY <2>1, <2>8 DEF ChannelsInv, TypeOK
    <2>10. channel' \in [Releases -> Channels]
        BY <2>1 DEF ChannelsInv, TypeOK, Channels
    <2>11. calls' \in [Handlers -> CallRecords] /\ CallsBound'
        BY <2>1, CallEnds
    <2>12. reports' = reports /\ superseded' = superseded
        BY <1>1 DEF Environment
    <2>13. TypeOK'
        BY <2>6, <2>9, <2>10, <2>11, <2>12 DEF ChannelsInv, TypeOK
    <2>14. \A r \in Binary : (r \in In("stable")) # (r \in final) => ArchOf[r] \in arches
        BY <2>2 DEF FinalStable, ArchesOf
    <2>15. StableIndexMatchesChannel'
        BY <2>2, <2>9, <2>14, IndexFollows
    <2>16. \A r \in final : SameKey(final, r) = {r}
        BY <2>2, <2>3 DEF ChannelsInv, RowsInv, OneStablePerPackage, FinalStable, SameKey, Keys
    <2>17. OneStablePerPackage'
        BY <2>2, <2>16 DEF OneStablePerPackage
    <2>18. GraphHolds({}, final, final) /\ GraphHolds({}, c.stable, final)
        BY <2>4, GraphCloses DEF FinalStable
    <2>19. DependenciesMet' /\ GraphStep
        BY <2>2, <2>18 DEF DependenciesMet, GraphStep, GraphHolds
    <2>20. CleanStep
        <3> SUFFICES ASSUME NEW r \in In("dev"), channel'[r] = "stable"
                     PROVE  ~Open(r) /\ r \notin superseded
            BY DEF CleanStep
        <3>1. r \in c.ids
            BY <2>1 DEF In
        <3> QED BY <1>4, <3>1 DEF PromoteHolds, Promotable
    <2>21. PolicyStep
        BY <2>2 DEF PolicyStep, FinalStable, Keys
    <2> QED BY <2>6, <2>11, <2>13, <2>15, <2>17, <2>19, <2>20, <2>21
        DEF ChannelsInv, RowsInv, StepIsSound
<1> QED BY <1>3, <1>4

LEMMA RollbackKeeps ==
    ASSUME ChannelsInv, NEW h \in Handlers, RollbackCommit(h)
    PROVE  ChannelsInv' /\ StepIsSound
<1> DEFINE c == calls[h]
           final == FinalStable(c.stable, {c.previous})
           arches == ArchesOf({c.release})
<1>1. /\ c \in CallRecords /\ c.op = "rollback" /\ c.at = "commit" /\ CallBound(c)
      /\ UNCHANGED Environment
    BY DEF ChannelsInv, TypeOK, CallsBound, RollbackCommit, Reading
<1>2. /\ c.release \in Releases /\ c.previous \in Releases
      /\ Key(c.previous) = Key(c.release)
      /\ c.previous \in Binary <=> c.release \in Binary
      /\ c.release \in Binary => GraphHolds({}, c.stable, final)
    BY <1>1 DEF CallBound
<1>3. NameOf[c.previous] = NameOf[c.release] /\ ArchOf[c.previous] = ArchOf[c.release]
    BY <1>2 DEF Key
<1>4. CASE ~RollbackHolds(c)
    <2>1. EndWith(h, "failed") /\ UNCHANGED rowVars
        BY <1>4 DEF RollbackCommit, Refused
    <2>2. channel' = channel
        BY <2>1 DEF rowVars
    <2> QED BY <1>1, <2>1, <2>2, RefusedKeeps, StableUnmoved DEF In
<1>5. CASE RollbackHolds(c)
    <2>1. /\ channel' = [channel EXCEPT ![c.release] = "withdrawn", ![c.previous] = "stable"]
          /\ index' = [index EXCEPT !["stable"] = Rebuilt("stable", final, arches)]
          /\ EndWith(h, "done") /\ previous' = previous
        BY <1>5 DEF RollbackCommit, Done
    <2>2. /\ c.stable = In("stable")
          /\ c.release \in In("stable") /\ c.previous \notin In("stable")
          /\ In("stable")' = (In("stable") \ {c.release}) \cup {c.previous}
          /\ In("stable")' = final
        BY <1>5, RollbackMoves
    <2>3. final \subseteq Releases
        BY <1>2, <2>2, StableRows
    <2>4. Rebuilt("stable", final, arches) \in [Arches -> SUBSET Releases]
        BY <2>3, RebuiltTyped DEF ChannelsInv
    <2>5. index' \in [{"stable", "dev"} -> [Arches -> SUBSET Releases]]
          /\ index'["stable"] = Rebuilt("stable", final, arches)
        BY <2>1, <2>4 DEF ChannelsInv, TypeOK
    <2>6. channel' \in [Releases -> Channels]
        BY <1>2, <2>1 DEF ChannelsInv, TypeOK, Channels
    <2>7. calls' \in [Handlers -> CallRecords] /\ CallsBound'
        BY <2>1, CallEnds
    <2>8. reports' = reports /\ superseded' = superseded
        BY <1>1 DEF Environment
    <2>9. TypeOK'
        BY <2>1, <2>5, <2>6, <2>7, <2>8 DEF ChannelsInv, TypeOK
    <2>10. \A r \in Binary : (r \in In("stable")) # (r \in final) => ArchOf[r] \in arches
        BY <1>2, <1>3, <2>2 DEF ArchesOf
    <2>11. StableIndexMatchesChannel'
        BY <2>2, <2>5, <2>10, IndexFollows
    <2>12. \A r \in final : SameKey(final, r) = {r}
        BY <1>2, <2>2 DEF ChannelsInv, RowsInv, OneStablePerPackage, SameKey
    <2>13. OneStablePerPackage'
        BY <2>2, <2>12 DEF OneStablePerPackage
    <2>14. GraphHolds({}, final, final) /\ GraphHolds({}, In("stable"), final)
        <3>1. CASE c.release \in Binary
            <4>1. \A r \in final \cap Binary : \E s \in (c.stable \cup {}) \cap Binary :
                      NameOf[s] = NameOf[r]
                BY <1>3, <2>2, <3>1
            <4> QED BY <1>2, <2>2, <3>1, <4>1, GraphCloses
        <3>2. CASE c.release \notin Binary
            <4>1. final \cap Binary = In("stable") \cap Binary
                BY <1>2, <2>2, <3>2
            <4>2. \A a : Entries(final, a) = Entries(In("stable"), a)
                BY <4>1 DEF Entries
            <4>3. GraphHolds({}, In("stable"), In("stable"))
                BY DEF ChannelsInv, RowsInv, DependenciesMet
            <4> QED BY <4>1, <4>2, <4>3 DEF GraphHolds
        <3> QED BY <3>1, <3>2
    <2>15. DependenciesMet' /\ GraphStep
        BY <2>2, <2>14 DEF DependenciesMet, GraphStep, GraphHolds
    <2>16. PreviousIsSamePackage'
        BY <2>1 DEF ChannelsInv, RowsInv, PreviousIsSamePackage
    <2>17. CleanStep
        <3> SUFFICES ASSUME NEW r \in In("dev"), channel'[r] = "stable" PROVE FALSE
            BY DEF CleanStep
        <3>1. r \in In("stable")' /\ r \notin In("stable")
            BY DEF In
        <3>2. r = c.previous
            BY <2>2, <3>1
        <3> QED BY <1>5, <3>2 DEF RollbackHolds, In
    <2>18. PolicyStep
        BY <1>2, <2>2 DEF PolicyStep, Keys
    <2> QED BY <2>7, <2>9, <2>11, <2>13, <2>15, <2>16, <2>17, <2>18
        DEF ChannelsInv, RowsInv, StepIsSound
<1> QED BY <1>4, <1>5

LEMMA QuarantineKeeps ==
    ASSUME ChannelsInv, NEW h \in Handlers, QuarantineCommit(h)
    PROVE  ChannelsInv' /\ StepIsSound
<1> DEFINE c == calls[h]
           final == c.stable \ {c.release}
           arches == ArchesOf({c.release})
           dev == LatestPerPackage(c.dev \cup {c.release})
<1>1. /\ c \in CallRecords /\ c.op = "quarantine" /\ c.at = "commit" /\ CallBound(c)
      /\ UNCHANGED Environment
    BY DEF ChannelsInv, TypeOK, CallsBound, QuarantineCommit, Reading
<1>2. /\ c.release \in Releases /\ c.dev \subseteq Releases
      /\ c.release \in Binary => GraphHolds({}, c.stable, final)
    BY <1>1 DEF CallBound, CallRecords
<1>3. CASE ~QuarantineHolds(c)
    <2>1. EndWith(h, "failed") /\ UNCHANGED rowVars
        BY <1>3 DEF QuarantineCommit, Refused
    <2>2. channel' = channel
        BY <2>1 DEF rowVars
    <2> QED BY <1>1, <2>1, <2>2, RefusedKeeps, StableUnmoved DEF In
<1>4. CASE QuarantineHolds(c)
    <2>1. /\ channel' = [channel EXCEPT ![c.release] = "dev"]
          /\ index' = [index EXCEPT !["stable"] = Rebuilt("stable", final, arches),
                                    !["dev"] = Rebuilt("dev", dev, arches)]
          /\ EndWith(h, "done") /\ previous' = previous
        BY <1>4 DEF QuarantineCommit, Done
    <2>2. /\ final = In("stable") \ {c.release}
          /\ c.release \in In("stable")
          /\ In("stable")' = final
        BY <1>4, QuarantineMoves
    <2>3. final \subseteq Releases /\ dev \subseteq Releases
        BY <1>2, <2>2, StableRows DEF LatestPerPackage
    <2>4. /\ Rebuilt("stable", final, arches) \in [Arches -> SUBSET Releases]
          /\ Rebuilt("dev", dev, arches) \in [Arches -> SUBSET Releases]
        BY <2>3, RebuiltTyped DEF ChannelsInv
    <2>5. index' \in [{"stable", "dev"} -> [Arches -> SUBSET Releases]]
          /\ index'["stable"] = Rebuilt("stable", final, arches)
        BY <2>1, <2>4 DEF ChannelsInv, TypeOK
    <2>6. channel' \in [Releases -> Channels]
        BY <1>2, <2>1 DEF ChannelsInv, TypeOK, Channels
    <2>7. calls' \in [Handlers -> CallRecords] /\ CallsBound'
        BY <2>1, CallEnds
    <2>8. reports' = reports /\ superseded' = superseded
        BY <1>1 DEF Environment
    <2>9. TypeOK'
        BY <2>1, <2>5, <2>6, <2>7, <2>8 DEF ChannelsInv, TypeOK
    <2>10. \A r \in Binary : (r \in In("stable")) # (r \in final) => ArchOf[r] \in arches
        BY <2>2 DEF ArchesOf
    <2>11. StableIndexMatchesChannel'
        BY <2>2, <2>5, <2>10, IndexFollows
    <2>12. \A r \in final : SameKey(final, r) = {r}
        BY <2>2 DEF ChannelsInv, RowsInv, OneStablePerPackage, SameKey
    <2>13. OneStablePerPackage'
        BY <2>2, <2>12 DEF OneStablePerPackage
    <2>14. GraphHolds({}, final, final)
        <3>1. CASE c.release \in Binary
            <4>1. \A r \in final \cap Binary : \E s \in (c.stable \cup {}) \cap Binary :
                      NameOf[s] = NameOf[r]
                OBVIOUS
            <4> QED BY <1>2, <3>1, <4>1, GraphCloses
        <3>2. CASE c.release \notin Binary
            <4>1. final \cap Binary = In("stable") \cap Binary
                BY <2>2, <3>2
            <4>2. \A a : Entries(final, a) = Entries(In("stable"), a)
                BY <4>1 DEF Entries
            <4>3. GraphHolds({}, In("stable"), In("stable"))
                BY DEF ChannelsInv, RowsInv, DependenciesMet
            <4> QED BY <4>1, <4>2, <4>3 DEF GraphHolds
        <3> QED BY <3>1, <3>2
    <2>15. DependenciesMet' /\ GraphStep
        <3>1. CASE c.release \in Binary /\ c.release \in c.stable
            <4>1. c.stable = In("stable")
                BY <2>2, <3>1
            <4> QED BY <1>2, <2>2, <2>14, <3>1, <4>1 DEF DependenciesMet, GraphStep, GraphHolds
        <3>2. CASE c.release \notin Binary
            <4>1. final \cap Binary = In("stable") \cap Binary
                BY <2>2, <3>2
            <4> QED BY <2>2, <2>14, <4>1 DEF DependenciesMet, GraphStep, GraphHolds
        <3>3. CASE c.release \notin c.stable
            <4>1. c.release \in Unseen
                BY <1>1, <3>3 DEF Unseen, Reading
            <4> QED BY <2>2, <2>14, <4>1 DEF DependenciesMet, GraphStep, GraphHolds
        <3> QED BY <3>1, <3>2, <3>3
    <2>16. PreviousIsSamePackage'
        BY <2>1 DEF ChannelsInv, RowsInv, PreviousIsSamePackage
    <2>17. CleanStep
        BY <2>2 DEF CleanStep, In
    <2>18. PolicyStep
        BY <1>4, <2>2 DEF PolicyStep, Keys, QuarantineHolds
    <2> QED BY <2>7, <2>9, <2>11, <2>13, <2>15, <2>16, <2>17, <2>18
        DEF ChannelsInv, RowsInv, StepIsSound
<1> QED BY <1>3, <1>4

-----------------------------------------------------------------------------
LEMMA InitChannelsInv == Init => ChannelsInv
<1> SUFFICES ASSUME Init PROVE ChannelsInv
    OBVIOUS
<1>1. channel = [r \in Releases |-> "none"] /\ In("stable") = {}
    BY DEF Init, In
<1>2. calls = [h \in Handlers |-> Idle]
    BY DEF Init
<1>3. CallsBound
    BY <1>2, IdleBound DEF CallsBound
<1>4. TypeOK
    <2>1. index \in [{"stable", "dev"} -> [Arches -> SUBSET Releases]]
        BY DEF Init
    <2>2. reports \in [Releases -> [new : Nat, confirmed : Nat]]
        BY DEF Init
    <2> QED BY <1>1, <1>2, <2>1, <2>2, IdleBound DEF Init, TypeOK, Channels
<1>5. RowsInv
    <2>1. PreviousIsSamePackage
        BY DEF Init, PreviousIsSamePackage
    <2>2. StableIndexMatchesChannel
        BY <1>1 DEF Init, StableIndexMatchesChannel, Entries
    <2>3. OneStablePerPackage /\ DependenciesMet
        BY <1>1 DEF OneStablePerPackage, DependenciesMet, GraphHolds
    <2> QED BY <2>1, <2>2, <2>3 DEF RowsInv
<1> QED BY <1>3, <1>4, <1>5 DEF ChannelsInv

(* Steps other than the batches move no row. *)
LEMMA FailsKeeps ==
    ASSUME ChannelsInv, NEW h \in Handlers, HandlerFails(h)
    PROVE  ChannelsInv'
<1>1. EndWith(h, "failed") /\ UNCHANGED rowVars /\ UNCHANGED Environment
    BY DEF HandlerFails, rowVars, Environment
<1> QED BY <1>1, RefusedKeeps

LEMMA OthersMoveNothing ==
    ASSUME ChannelsInv, UNCHANGED channel
    PROVE  StepIsSound
BY StableUnmoved DEF In

LEMMA StutterKeeps ==
    ASSUME ChannelsInv, UNCHANGED vars
    PROVE  ChannelsInv'
<1>1. UNCHANGED rowVars /\ UNCHANGED <<reports, superseded, calls>>
    BY DEF vars, rowVars
<1>2. calls' \in [Handlers -> CallRecords] /\ CallsBound'
    BY <1>1 DEF ChannelsInv, TypeOK, CallsBound, CallBound
<1> QED BY <1>1, <1>2, RowsKept DEF ChannelsInv, TypeOK

LEMMA StepKeeps ==
    ASSUME ChannelsInv, [Next]_vars
    PROVE  ChannelsInv' /\ StepIsSound
<1> DEFINE Goal == ChannelsInv' /\ StepIsSound
<1>1. CASE UNCHANGED vars
    <2>1. channel' = channel
        BY <1>1 DEF vars
    <2> QED BY <1>1, <2>1, StutterKeeps, OthersMoveNothing
<1>2. ASSUME NEW h \in Handlers, Maintain(h) PROVE Goal
    <2>1. channel' = channel
        BY <1>2 DEF Maintain, PublishRead, RollbackCheck, PromoteCheck, rowVars
    <2> QED BY <1>2, <2>1, CheckKeeps, OthersMoveNothing
<1>3. ASSUME NEW h \in Handlers, Proceed(h) PROVE Goal
    <2>1. ASSUME \/ PromoteReadStable(h) \/ PromoteReadDev(h) \/ RollbackReadStable(h)
                 \/ QuarantineReadStable(h) \/ QuarantineReadDev(h) \/ HandlerFails(h)
          PROVE  channel' = channel
        BY <2>1 DEF PromoteReadStable, PromoteReadDev, RollbackReadStable,
           QuarantineReadStable, QuarantineReadDev, HandlerFails, rowVars
    <2> QED BY <1>3, <2>1, PublishKeeps, PromoteKeeps, RollbackKeeps, QuarantineKeeps,
               PromoteReadKeeps, RollbackReadKeeps, QuarantineReadKeeps, FailsKeeps,
               OthersMoveNothing DEF Proceed
<1>4. ASSUME NEW h \in Handlers,
             QuarantineReturn(h) \/ \E r \in Releases : Quarantine(h, r)
      PROVE  Goal
    <2>1. channel' = channel
        BY <1>4 DEF QuarantineReturn, Quarantine, QuarantineCheck, rowVars
    <2> QED BY <1>4, <2>1, QuarantineEntersKeeps, OthersMoveNothing
<1>5. ASSUME NEW r \in Releases,
             \/ Report(r) \/ Confirm(r) \/ Resolve(r) \/ ExpireReports(r)
             \/ Supersede(r)
      PROVE  Goal
    <2>1. channel' = channel
        BY <1>5 DEF Report, Confirm, Resolve, ExpireReports, Supersede, rowVars
    <2> QED BY <1>5, <2>1, EnvironmentKeeps, OthersMoveNothing
<1> QED BY <1>1, <1>2, <1>3, <1>4, <1>5 DEF Next

THEOREM ChannelsInvariant == Spec => []ChannelsInv
BY InitChannelsInv, StepKeeps, PTL DEF Spec

(* promoteBatch, rollbackRelease, quarantineRelease: the stable index lists  *)
(* the stable rows and these hold one version of a package, although each    *)
(* batch was prepared from rows that may have changed since.                 *)
THEOREM StableIndexed == Spec => []StableIsIndexed
<1>1. ChannelsInv => StableIsIndexed
    BY DEF ChannelsInv, RowsInv, StableIsIndexed
<1> QED BY <1>1, ChannelsInvariant, PTL

(* The final transaction of a promotion rechecks crashes and revisions; a    *)
(* package leaves stable for another version of it, or by the crash policy.  *)
THEOREM MovesDecided == Spec => MovesAreDecided
<1>1. ASSUME ChannelsInv, [Next]_vars
      PROVE  /\ [\A r \in In("dev") :
                    channel'[r] = "stable" => ~Open(r) /\ r \notin superseded]_vars
             /\ [\A r \in In("stable") :
                    Key(r) \notin Keys(In("stable")') => Confirmed(r) >= Threshold]_vars
    BY <1>1, StepKeeps DEF StepIsSound, CleanStep, PolicyStep
<1> QED BY <1>1, ChannelsInvariant, PTL
    DEF Spec, MovesAreDecided, PromotedClean, StableLeftByPolicyOnly

(* assertDependencyGraph is evaluated on what was read; it still holds of    *)
(* what the batch leaves.                                                    *)
THEOREM DependenciesStay == Spec => DependenciesKept
<1>1. ASSUME ChannelsInv, [Next]_vars
      PROVE  [\A r \in In("stable")' \cap Binary : \A q \in Requires[r] :
                (\E s \in (In("stable") \cap Binary) \ Unseen : NameOf[s] = q.name) =>
                  q.by \cap Entries(In("stable"), ArchOf[r])' # {}]_vars
    <2>1. GraphStep
        BY <1>1, StepKeeps DEF StepIsSound
    <2> QED BY <2>1 DEF GraphStep, Entries
<1> QED BY <1>1, ChannelsInvariant, PTL DEF Spec, DependenciesKept
==============================================================================
