---------------------------- MODULE FactoryImages ----------------------------
(***************************************************************************)
(* Private image jobs of a factory attempt (factory-image-run.ts): claimed  *)
(* under a lease of their own, the image uploaded in parts and the job      *)
(* completed with evidence.  Unlike a build, an upload that goes wrong is   *)
(* never taken down: the row stays active and the job fails.  The module    *)
(* also holds the row of a recipe inspection (recipe-inspections.ts).       *)
(***************************************************************************)
EXTENDS BuildUploads

VARIABLES
    image,          \* factory_image_jobs: [status, worker, live, run, artifact]
    iuploads,       \* factory_image_uploads, with the state of their object
    inspection      \* recipe_inspections: [status, att, worker, live, report]

images == <<image, iuploads, inspection>>

(* assertImageLease *)
ImageLeased(w) == image.status = "leased" /\ image.worker = w /\ image.live

ActiveImageUploads == {u \in DOMAIN iuploads : iuploads[u].status = "active"}

(* claimPrivateFactoryImage: a queued job of a running factory attempt *)
ImageClaimable == image.status = "queued" /\ image.run
LeaseImage(w) ==
    /\ ImageClaimable
    /\ image' = [image EXCEPT !.status = "leased", !.worker = w, !.live = TRUE]

(* startFactoryImageUpload: returns the active upload of the same bytes *)
ImageStart(c) ==
    /\ c.op = "istart"
    /\ IF ~ImageLeased(c.w) THEN Refuse(c) /\ UNCHANGED iuploads
       ELSE IF ActiveImageUploads # {}
       THEN /\ LET u == CHOOSE x \in ActiveImageUploads : TRUE IN
               IF iuploads[u].worker = c.w /\ iuploads[u].sha = c.sha
               THEN Accept(c, u, FALSE) ELSE Refuse(c)
            /\ UNCHANGED iuploads
       ELSE /\ iuploads' = Append(iuploads,
                  [worker |-> c.w, sha |-> c.sha, status |-> "active", mp |-> "open",
                   object |-> None, staged |-> [p \in Parts |-> None],
                   parts |-> [p \in Parts |-> None]])
            /\ Accept(c, Len(iuploads) + 1, FALSE)
    /\ UNCHANGED <<coordinatorRows, faults, image, inspection>>

ImageUsable(c) == ImageLeased(c.w) /\ iuploads[c.up].status = "active"

(* uploadFactoryImagePart: a part that is recorded is compared, any other   *)
(* stored and then inserted                                                 *)
ImagePart(c) ==
    /\ c.op = "ipart" /\ c.stage = "read"
    /\ IF ImageUsable(c) /\ iuploads[c.up].parts[c.part] # None
       THEN /\ IF iuploads[c.up].parts[c.part] = c.sha THEN Accept(c, c.up, FALSE)
                                                      ELSE Refuse(c)
            /\ UNCHANGED iuploads
       ELSE IF ImageUsable(c) /\ iuploads[c.up].mp = "open"
       THEN /\ iuploads' = [iuploads EXCEPT ![c.up].staged[c.part] = c.sha]
            /\ Continue(c, "record")
       ELSE Refuse(c) /\ UNCHANGED iuploads
    /\ UNCHANGED <<coordinatorRows, faults, image, inspection>>

ImagePartRecord(c) ==
    /\ c.op = "ipart" /\ c.stage = "record"
    /\ IF iuploads[c.up].parts[c.part] = None
       THEN /\ iuploads' = [iuploads EXCEPT ![c.up].parts[c.part] = c.sha]
            /\ Accept(c, c.up, FALSE)
       ELSE Refuse(c) /\ UNCHANGED iuploads
    /\ UNCHANGED <<coordinatorRows, faults, image, inspection>>

(* completeFactoryImageUpload: complete in storage, hash, then both rows.   *)
(* The upload's row is completed even when the job's is fenced; what is     *)
(* completed already is answered without asking for the lease.              *)
ImageCombine(c) ==
    /\ c.op = "icomplete" /\ c.stage = "read"
    /\ IF iuploads[c.up].status = "completed"
       THEN Accept(c, c.up, TRUE) /\ UNCHANGED iuploads
       ELSE IF ImageUsable(c) /\ PartsRecorded(iuploads[c.up]) /\ iuploads[c.up].mp = "open"
       THEN /\ iuploads' = [iuploads EXCEPT ![c.up].mp = "completed",
                                            ![c.up].object = Combined(iuploads[c.up])]
            /\ Continue(c, "hash")
       ELSE Refuse(c) /\ UNCHANGED iuploads
    /\ UNCHANGED <<coordinatorRows, faults, image, inspection>>

ImageMatches(row) == row.object = row.sha

ImageHash(c) ==
    /\ c.op = "icomplete" /\ c.stage = "hash"
    /\ IF ImageMatches(iuploads[c.up]) THEN Continue(c, "commit") /\ UNCHANGED iuploads
       ELSE /\ iuploads' = [iuploads EXCEPT ![c.up].object = None]
            /\ Refuse(c)
    /\ UNCHANGED <<coordinatorRows, faults, image, inspection>>

ImageCommit(c) ==
    /\ c.op = "icomplete" /\ c.stage = "commit"
    /\ iuploads' = [iuploads EXCEPT ![c.up].status = "completed"]
    /\ IF image.status = "leased" /\ image.worker = c.w
       THEN image' = [image EXCEPT !.artifact = c.up] /\ Accept(c, c.up, TRUE)
       ELSE Refuse(c) /\ UNCHANGED image
    /\ UNCHANGED <<coordinatorRows, faults, inspection>>

(* completePrivateFactoryImage: the evidence binds the uploaded artifact,  *)
(* whose object is verified; the update asks for the lease's token only    *)
Bound(c) == /\ image.artifact # 0 /\ c.up = image.artifact
            /\ ImageMatches(iuploads[image.artifact])
ImageFinishRead(c) ==
    /\ c.op \in {"isucceeded", "ifailed"} /\ c.stage = "read"
    /\ IF image.status = "succeeded" THEN Accept(c, 0, TRUE)
       ELSE IF ImageLeased(c.w) /\ (c.op = "isucceeded" => Bound(c))
       THEN Continue(c, "commit") ELSE Refuse(c)
    /\ UNCHANGED <<coordinatorRows, faults, images>>

ImageFinish(c) ==
    /\ c.op \in {"isucceeded", "ifailed"} /\ c.stage = "commit"
    /\ IF image.status = "leased" /\ image.worker = c.w
       THEN /\ image' = [image EXCEPT !.status =
                            IF c.op = "ifailed" THEN "failed" ELSE "succeeded"]
            /\ Accept(c, 0, TRUE)
       ELSE Refuse(c) /\ UNCHANGED image
    /\ UNCHANGED <<coordinatorRows, faults, iuploads, inspection>>

(* Storage or the database fails under a request: it is an error as it is. *)
ImageFails(c) ==
    /\ c.op \in {"istart", "ipart", "icomplete", "isucceeded", "ifailed",
                 "msucceeded", "mfailed"}
    /\ Fault
    /\ Refuse(c)
    /\ UNCHANGED <<coordinatorRows, images>>

(* completeRecipeInspection: one report of the attempt under its lease *)
InspectionLeased(c) ==
    /\ inspection.status = "leased" /\ inspection.live
    /\ inspection.att = c.att /\ inspection.worker = c.w
Report(c) ==
    /\ c.op \in {"msucceeded", "mfailed"}
    /\ IF InspectionLeased(c)
       THEN /\ inspection' = [inspection EXCEPT !.report = c.att, !.status =
                    IF c.op = "mfailed" THEN "failed" ELSE "succeeded"]
            /\ Accept(c, 0, TRUE)
       ELSE Refuse(c) /\ UNCHANGED inspection
    /\ UNCHANGED <<coordinatorRows, faults, image, iuploads>>

(* claimRecipeInspection, and cancelRecipeInspection *)
InspectionClaimable ==
    \/ inspection.status = "queued"
    \/ inspection.status = "leased" /\ ~inspection.live /\ inspection.att < MaxAttempt
LeaseInspection(w) ==
    /\ InspectionClaimable
    /\ inspection' = [inspection EXCEPT !.status = "leased", !.att = @ + 1,
                                        !.worker = w, !.live = TRUE]

ServeImage(c) ==
    \/ ImageStart(c) \/ ImagePart(c) \/ ImagePartRecord(c)
    \/ ImageCombine(c) \/ ImageHash(c) \/ ImageCommit(c)
    \/ ImageFinishRead(c) \/ ImageFinish(c) \/ Report(c)

(* The factory attempt ends or its lease passes, and with it the job's. *)
EndRun ==
    /\ image.run /\ image.status \in {"queued", "leased"} /\ Fault
    /\ image' = [image EXCEPT !.run = FALSE, !.status = "cancelled"]
    /\ UNCHANGED <<coordinatorRows, calls, answer, iuploads, inspection>>

Lapse ==
    /\ Fault
    /\ \/ /\ image.status = "leased" /\ image.live
          /\ image' = [image EXCEPT !.live = FALSE] /\ UNCHANGED inspection
       \/ /\ inspection.status = "leased" /\ inspection.live
          /\ inspection' = [inspection EXCEPT !.live = FALSE] /\ UNCHANGED image
    /\ UNCHANGED <<coordinatorRows, calls, answer, iuploads>>

CancelInspection ==
    /\ inspection.status \in {"queued", "leased"} /\ Fault
    /\ inspection' = [inspection EXCEPT !.status = "cancelled"]
    /\ UNCHANGED <<coordinatorRows, calls, answer, image, iuploads>>

-----------------------------------------------------------------------------
\* An image job that succeeded names an upload whose object holds the bytes
\* the builder made from the reviewed inputs (completeFactoryImageUpload,
\* completePrivateFactoryImage, verifyFactoryImageSignedInputs).
ImageStored ==
    image.status = "succeeded" =>
        /\ image.artifact # 0
        /\ iuploads[image.artifact].object = [att |-> 1, from |-> "reviewed"]
=============================================================================
