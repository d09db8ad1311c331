---------------------------- MODULE SigningIntent ----------------------------
(* Detached signatures of packages, indexes, attestations and manifests:     *)
(* signingRequest (release-evidence.ts) and requestManifestSignature         *)
(* (distribution-release-signing.ts) insert an intent and call the signer    *)
(* (signer/src/index.ts), which reads the intent, signs, stores the          *)
(* signature and reports it to completeSigningIntent (signing-control.ts).   *)
(*                                                                           *)
(* A request makes one intent and one call of the signer, so an intent names *)
(* its request, its call of the signer and the signature that call makes:    *)
(* no two calls make the same signature of an object.  The claim lease is    *)
(* written and never decides anything, and is left out; the bytes that are   *)
(* signed are immutable, and so are checks of their key, size and digest.    *)
CONSTANTS
    Intents,
    Objects,        \* keys of the objects to sign
    ObjectOf,       \* ObjectOf[i]: the object intent i is for
    Manifests,      \* objects that are distribution manifests
    NoSignature

ASSUME ObjectAssumption ==
    /\ ObjectOf \in [Intents -> Objects]
    /\ Manifests \subseteq Objects

ASSUME SignatureAssumption == NoSignature \notin Intents

VARIABLES
    intents,    \* rows of signing_intents and of the table for manifests
    late,       \* intents past their expires_at
    stored,     \* stored[o]: the signature under the key of o with .sig
    reviewed,   \* objects whose approvals and evidence are current
    requests,   \* callers of the signer
    signers,    \* calls of the signer, and what each works with
    audited     \* signing.completed events: intent and signature

intentVars == <<intents, late, stored, reviewed, requests, signers, audited>>

-----------------------------------------------------------------------------
Signature == Intents \cup {NoSignature}
IntentStatus == {"none", "pending", "signed", "failed", "expired"}
RequestStages == {"off", "waiting", "check", "record", "accepted", "refused"}
SignerStages == {"off", "reset", "claim", "look", "persist", "put", "report",
                 "verify", "complete", "signed", "aborted", "refused"}

SetIntent(i, status) == [intents EXCEPT ![i].status = status]
Requests(i, at) == requests' = [requests EXCEPT ![i] = at]
Signer(i, at) == signers' = [signers EXCEPT ![i].at = at]
SignerWith(i, at, s) == signers' = [signers EXCEPT ![i] = [at |-> at, signature |-> s]]

Of(i) == ObjectOf[i]
IsManifest(i) == Of(i) \in Manifests
Is(i, status) == intents[i].status = status
Evident(i) == Of(i) \in reviewed

IntentInit ==
    /\ intents = [i \in Intents |-> [status |-> "none", signature |-> NoSignature]]
    /\ late = {}
    /\ stored = [o \in Objects |-> NoSignature]
    /\ reviewed = Objects
    /\ requests = [i \in Intents |-> "off"]
    /\ signers = [i \in Intents |-> [at |-> "off", signature |-> NoSignature]]
    /\ audited = {}

-----------------------------------------------------------------------------
(* The caller: signingRequest, requestManifestSignature                      *)

Request(i) ==
    /\ requests[i] = "off"
    /\ Evident(i)
    /\ intents' = SetIntent(i, "pending")
    /\ Requests(i, "waiting")
    /\ Signer(i, "claim")
    /\ UNCHANGED <<late, stored, reviewed, audited>>

(* Faulty variant of Failed: the status is not compared. *)
FailedAnyway(i) == SetIntent(i, "failed")

Failed(i) == IF Is(i, "pending") THEN SetIntent(i, "failed") ELSE intents

(* The signer refused, died or could not be reached; it may still be at work. *)
RequestFails(i) ==
    /\ requests[i] = "waiting"
    /\ intents' = Failed(i)
    /\ Requests(i, "refused")
    /\ UNCHANGED <<late, stored, reviewed, signers, audited>>

RequestAnswered(i) ==
    /\ requests[i] = "waiting"
    /\ signers[i].at = "signed"
    /\ Requests(i, "check")
    /\ UNCHANGED <<intents, late, stored, reviewed, signers, audited>>

(* The head of the signature object: only signingRequest fails its intent.   *)
RequestChecks(i) ==
    /\ requests[i] = "check"
    /\ IF stored[Of(i)] = signers[i].signature
       THEN /\ Requests(i, IF IsManifest(i) THEN "accepted" ELSE "record")
            /\ UNCHANGED intents
       ELSE /\ Requests(i, "refused")
            /\ intents' = IF IsManifest(i) THEN intents ELSE Failed(i)
    /\ UNCHANGED <<late, stored, reviewed, signers, audited>>

RequestRecords(i) ==
    /\ requests[i] = "record"
    /\ intents' = IF Is(i, "pending")
                  THEN [intents EXCEPT ![i] =
                          [status |-> "signed",
                           signature |-> signers[i].signature]]
                  ELSE intents
    /\ Requests(i, "accepted")
    /\ UNCHANGED <<late, stored, reviewed, signers, audited>>

-----------------------------------------------------------------------------
(* claimSigningIntent, claimManifestIntent *)

Expired(i) == IF Is(i, "pending") THEN SetIntent(i, "expired") ELSE intents

(* The intent is read.  One its caller gave up on is reset, a manifest's is  *)
(* handed out as it is.                                                      *)
ClaimRead(i) ==
    /\ signers[i].at = "claim"
    /\ CASE i \in late ->
              intents' = Expired(i) /\ Signer(i, "refused")
         [] i \notin late /\ Is(i, "failed") /\ ~IsManifest(i) ->
              UNCHANGED intents /\ Signer(i, "reset")
         [] OTHER ->
              /\ UNCHANGED intents
              /\ Signer(i, IF Evident(i) THEN "look" ELSE "refused")
    /\ UNCHANGED <<late, stored, reviewed, requests, audited>>

(* resetFailed, the second read and the checks of it. *)
ClaimReset(i) ==
    /\ signers[i].at = "reset"
    /\ intents' = IF Is(i, "failed") /\ i \notin late
                  THEN SetIntent(i, "pending") ELSE intents
    /\ Signer(i, IF intents'[i].status = "pending" /\ Evident(i)
                 THEN "look" ELSE "refused")
    /\ UNCHANGED <<late, stored, reviewed, requests, audited>>

-----------------------------------------------------------------------------
(* handleSign *)

(* readExistingSignatureObject; if there is none, this call signs. *)
SignerLooks(i) ==
    /\ signers[i].at = "look"
    /\ SignerWith(i, "persist",
                  IF stored[Of(i)] = NoSignature THEN i ELSE stored[Of(i)])
    /\ UNCHANGED <<intents, late, stored, reviewed, requests, audited>>

(* Faulty variant of SignerPersists: a signature already there is replaced. *)
SignerReplaces(i) ==
    /\ signers[i].at = "persist"
    /\ Signer(i, "put")
    /\ UNCHANGED <<intents, late, stored, reviewed, requests, audited>>

(* persistSignature looks again, and takes what it finds. *)
SignerPersists(i) ==
    /\ signers[i].at = "persist"
    /\ IF stored[Of(i)] = NoSignature
       THEN Signer(i, "put")
       ELSE SignerWith(i, "report", stored[Of(i)])
    /\ UNCHANGED <<intents, late, stored, reviewed, requests, audited>>

(* The put is unconditional. *)
SignerPuts(i) ==
    /\ signers[i].at = "put"
    /\ stored' = [stored EXCEPT ![Of(i)] = signers[i].signature]
    /\ Signer(i, "report")
    /\ UNCHANGED <<intents, late, reviewed, requests, audited>>

(* Faulty variant of SignerStops: an error of recordAudit is not an error. *)
SignerStopsLater(i) ==
    /\ signers[i].at \in {"claim", "reset", "look", "persist", "put", "report",
                          "verify", "complete"}
    /\ Signer(i, IF signers[i].at = "report" THEN "signed" ELSE "refused")
    /\ UNCHANGED <<intents, late, stored, reviewed, requests, audited>>

(* The call of the signer ends at one of its awaits. *)
SignerStops(i) ==
    /\ signers[i].at \in {"claim", "reset", "look", "persist", "put", "report",
                          "verify", "complete"}
    /\ Signer(i, "refused")
    /\ UNCHANGED <<intents, late, stored, reviewed, requests, audited>>

-----------------------------------------------------------------------------
(* completeSigningIntent, completeManifestSigningIntent *)

Completable(i) == Is(i, "pending") \/ Is(i, "failed")

(* Only a manifest's completion does without the evidence.  A late one is    *)
(* refused, and the intent of a build marked.                                *)
CompleteRead(i) ==
    /\ signers[i].at = "report"
    /\ IF i \in late /\ ~IsManifest(i)
       THEN intents' = Expired(i)
       ELSE UNCHANGED intents
    /\ Signer(i, IF /\ Completable(i)
                    /\ i \notin late
                    /\ Evident(i) \/ IsManifest(i)
                 THEN "verify" ELSE "refused")
    /\ UNCHANGED <<late, stored, reviewed, requests, audited>>

(* verifySignatureObject *)
CompleteVerify(i) ==
    /\ signers[i].at = "verify"
    /\ Signer(i, IF stored[Of(i)] = signers[i].signature
                 THEN "complete" ELSE "refused")
    /\ UNCHANGED <<intents, late, stored, reviewed, requests, audited>>

Recordable(i) == Completable(i) /\ i \notin late

(* The trigger on the table for manifests: every update that names the key's *)
(* fingerprint aborts, and the one that completes an intent names it.        *)
Immutable(i) == IsManifest(i)

(* The batch: the event is inserted when the update matched a row. *)
CompleteWrite(i) ==
    /\ signers[i].at = "complete"
    /\ LET s == signers[i].signature IN
       CASE Recordable(i) /\ ~Immutable(i) ->
              /\ intents' = [intents EXCEPT ![i] =
                               [status |-> "signed", signature |-> s]]
              /\ audited' = audited \cup {<<i, s>>}
              /\ Signer(i, "signed")
         [] Recordable(i) /\ Immutable(i) ->
              /\ Signer(i, "aborted")
              /\ UNCHANGED <<intents, audited>>
         [] ~Recordable(i) ->
              /\ Signer(i, IF intents[i] = [status |-> "signed", signature |-> s]
                           THEN "signed" ELSE "refused")
              /\ UNCHANGED <<intents, audited>>
    /\ UNCHANGED <<late, stored, reviewed, requests>>

-----------------------------------------------------------------------------
(* expires_at passes. *)
Expire(i) ==
    /\ i \notin late /\ ~Is(i, "none")
    /\ late' = late \cup {i}
    /\ UNCHANGED <<intents, stored, reviewed, requests, signers, audited>>

(* Approvals are revoked and given, revisions superseded, workers fenced. *)
EvidenceChanges(o) ==
    /\ reviewed' = IF o \in reviewed THEN reviewed \ {o} ELSE reviewed \cup {o}
    /\ UNCHANGED <<intents, late, stored, requests, signers, audited>>

IntentNext ==
    \/ \E i \in Intents :
         \/ Request(i) \/ RequestFails(i) \/ RequestAnswered(i)
         \/ RequestChecks(i) \/ RequestRecords(i)
         \/ ClaimRead(i) \/ ClaimReset(i)
         \/ SignerLooks(i) \/ SignerPersists(i) \/ SignerPuts(i) \/ SignerStops(i)
         \/ CompleteRead(i) \/ CompleteVerify(i) \/ CompleteWrite(i)
         \/ Expire(i)
    \/ \E o \in Objects : EvidenceChanges(o)

IntentSpec == IntentInit /\ [][IntentNext]_intentVars

-----------------------------------------------------------------------------
(* Rows, calls and stored signatures stay in their types. *)
IntentTypeOK ==
    /\ intents \in [Intents -> [status : IntentStatus, signature : Signature]]
    /\ late \subseteq Intents
    /\ stored \in [Objects -> Signature]
    /\ reviewed \subseteq Objects
    /\ requests \in [Intents -> RequestStages]
    /\ signers \in [Intents -> [at : SignerStages, signature : Signature]]
    /\ audited \subseteq Intents \X Signature

(* docs/signing-design.md step 6, the audit event: an intent is signed       *)
(* exactly when one completion was recorded for it, and names the signature  *)
(* of that event.  The caller's own update of a pending intent (the end of   *)
(* signingRequest) writes no event and must never be the one that matches.   *)
SignedIsAudited ==
    \A i \in Intents :
        IF Is(i, "signed")
        THEN {e \in audited : e[1] = i} = {<<i, intents[i].signature>>}
        ELSE {e \in audited : e[1] = i} = {}

(* A caller that got a signature publishes under it: its intent is recorded  *)
(* as signed with that signature, whatever expired or failed meanwhile.      *)
AcceptedIsRecorded ==
    \A i \in Intents : requests[i] = "accepted" =>
        intents[i] = [status |-> "signed", signature |-> signers[i].signature]

(* A signed or expired intent is final: the failure mark of a caller that    *)
(* lost its connection, a second completion or a reset leave it alone; and   *)
(* no intent becomes signed once it is past its expiry.                      *)
FinalIntentStays ==
    [][\A i \in Intents :
         /\ Is(i, "signed") \/ Is(i, "expired") => intents'[i] = intents[i]
         /\ i \in late => (intents'[i].status = "signed" => Is(i, "signed"))]_intentVars

Settled(o) ==
    /\ stored[o] # NoSignature
    /\ \A i \in Intents : Of(i) = o => signers[i].at # "put"

(* A signature that is in place while no call is about to put another is     *)
(* there for good: callers that try again get it, however many they are.     *)
SettledSignatureStays ==
    [][\A o \in Objects : Settled(o) =>
         stored'[o] = stored[o] /\ Settled(o)']_intentVars

(* The intent, the audit trail and what the signer was told agree: one event *)
(* with the recorded signature for each signed intent, and no acceptance of  *)
(* a signature that is not recorded.                                         *)
SignatureIsRecorded == SignedIsAudited /\ AcceptedIsRecorded
=============================================================================
