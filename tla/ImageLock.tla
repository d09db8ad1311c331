------------------------------- MODULE ImageLock -------------------------------
(***************************************************************************)
(* omarchy/manifest-client image-lock: on the machine that builds system   *)
(* images, the client verifies a release and keeps all it used of it in a  *)
(* directory, one file after the other; the lock, which names the files    *)
(* and the packages to install, is the last.  The files are plain writes:  *)
(* a run that dies leaves what it wrote, the last file perhaps in part.    *)
(* One run writes to a directory at a time.                                *)
(***************************************************************************)
EXTENDS ManifestClient

CONSTANT Partial    \* what is left of a file written in part

VARIABLES
  role,         \* this machine follows releases, or builds images
  overwrite,    \* the builder's runs are given --overwrite
  dir,          \* the output directory: per file name, None or its content
  image         \* the run: where it is, what it verified, what is to write

imageVars == <<role, overwrite, dir, image>>
allVars == <<vars, imageVars>>
deviceVars == <<config, files, stored, marker, packages, pc, mode, job>>

LockName == <<"release-lock.json">>

(* ------------------------------------------------------------- packages *)

(* An entry of a package list: for a real architecture or any, its archive *)
(* and signature at immutable URLs of the release's origin.                *)
Listed(r, p) ==
  /\ p.arch \in {"x86_64", "aarch64", "any"}
  /\ \A u \in {p.url, p.sig} : Immutable(u) /\ SameOrigin(r.url, u)

(* The repositories whose directory an archive is below.                   *)
RepositoriesOf(r, p) ==
  {q \in Elements(Served(r)) : /\ SameOrigin(q.base, p.url)
                               /\ IsStrictPrefix(q.base.path, p.url.path)}

(* An archive of this architecture lies in one of the repositories; one    *)
(* for any architecture is left out when it lies in none of this one's.    *)
Ours(p) == p.arch \in {Arch, "any"}
Takes(r, p) == Ours(p) /\ Cardinality(RepositoriesOf(r, p)) = 1
Misplaced(r, p) ==
  /\ Ours(p) /\ ~Takes(r, p)
  /\ p.arch = "any" => RepositoriesOf(r, p) # {}

Entries(chunks) == UNION {c.packages : c \in chunks}
PackageSet(r) == {p \in Entries(Elements(r.chunks)) : Takes(r, p)}

(* What is asked of the lists read so far.  Two entries of one file name   *)
(* are the same entry.                                                     *)
ListsFit(r, chunks) ==
  /\ \A p \in Entries(chunks) : Listed(r, p) /\ ~Misplaced(r, p)
  /\ \A p, q \in {e \in Entries(chunks) : Takes(r, e)} :
       Last(p.url.path) = Last(q.url.path) => p = q

(* All lists together count what the release says, and leave this          *)
(* architecture something.                                                 *)
Complete(r) ==
  /\ FoldSeq(LAMBDA c, n : n + Cardinality(c.packages), 0, r.chunks) = r.count
  /\ r.count > 0 => PackageSet(r) # {}

(* ---------------------------------------------------------------- files *)

(* A file and its content: the signed bytes of one object.                 *)
Documents(r) ==
  LET Signed(name, m) == << <<<<name>>, m.id>>, <<<<name, "sig">>, m.id>> >>
  IN Signed("transaction.json", r) \o Signed("system.json", r.sys) \o Signed("opr.json", r.opr)

Databases(r) ==
  FlattenSeq([i \in 1..Len(Served(r)) |->
    LET p == Served(r)[i] IN
    << <<<<"repo", p.name>>, p.db>>, <<<<"repo", p.name, "sig">>, p.db>> >>])

Chunks(r) == [i \in 1..Len(r.chunks) |-> <<<<"package-chunk", i>>, r.chunks[i].url>>]

Retained == [r \in Releases |-> Documents(r) \o Databases(r) \o Chunks(r)]

(* The names a lock refers to, with the contents it records.               *)
Refs(r) == Elements(Retained[r])
LockOf == [r \in Releases |-> [release |-> r.id, refs |-> Refs(r), packages |-> PackageSet(r)]]

(* -------------------------------------------------------------- program *)

AtImage(p) == role = "builder" /\ image.pc = p
NoImage == [pc |-> "idle"]
EndImage == image' = NoImage

ImageBegin(want) ==
  /\ AtImage("idle")
  /\ image' = [pc |-> "verify", want |-> want]
  /\ UNCHANGED <<deviceVars, expired, faults, role, overwrite, dir>>

(* The release is verified like a device does.                             *)
ImageVerify(r) ==
  /\ AtImage("verify")
  /\ Requested(image.want, r) /\ Resolves(r, Releases, expired)
  /\ image' = [pc |-> "retain", want |-> image.want, release |-> r]
  /\ UNCHANGED <<deviceVars, expired, faults, role, overwrite, dir>>

(* It is asked for and fetched again for its bytes; the pointer may have   *)
(* moved since.                                                            *)
ImageRetain(r) ==
  /\ AtImage("retain")
  /\ Requested(image.want, r) /\ Authentic(r) /\ WellFormed(r) /\ Selected(r)
  /\ r = image.release
  /\ Reference(r.sys, "system", expired) /\ Reference(r.opr, "opr", expired)
  /\ ChildrenAgree(r) /\ Placed(r)
  /\ image' = [pc |-> "write", release |-> r, written |-> 0]
  /\ UNCHANGED <<deviceVars, expired, faults, role, overwrite, dir>>

\* Mutant: a file that is there already is replaced.
MayWriteAlways(name) == TRUE

(* A file that is there is only replaced when told to.                     *)
MayWrite(name) == overwrite \/ dir[name] = None

(* A database that is fetched is the snapshot the release names.           *)
Fetches(r, f) == f \in Elements(Databases(r)) => SnapshotsAgree(r)

NextFile == Retained[image.release][image.written + 1]
AllKept == image.written = Len(Retained[image.release])
NextName == IF AllKept THEN LockName ELSE NextFile[1]
ChunksKept ==
  LET r == image.release
      before == Len(Retained[r]) - Len(r.chunks)
  IN {r.chunks[i] : i \in 1..(image.written - before)}
Writable ==
  /\ MayWrite(NextName)
  /\ ListsFit(image.release, ChunksKept)
  /\ IF AllKept THEN Complete(image.release) ELSE Fetches(image.release, NextFile)

ImageWrite ==
  /\ AtImage("write") /\ Writable /\ ~AllKept
  /\ dir' = [dir EXCEPT ![NextName] = NextFile[2]]
  /\ image' = [image EXCEPT !.written = @ + 1]
  /\ UNCHANGED <<deviceVars, expired, faults, role, overwrite>>

ImageFinish ==
  /\ AtImage("write") /\ Writable /\ AllKept
  /\ dir' = [dir EXCEPT ![LockName] = LockOf[image.release]]
  /\ EndImage
  /\ UNCHANGED <<deviceVars, expired, faults, role, overwrite>>

(* A check fails, or a file is there: the run ends.                        *)
ImageRefused ==
  /\ AtImage("verify") \/ AtImage("retain") \/ (AtImage("write") /\ ~Writable)
  /\ EndImage
  /\ UNCHANGED <<deviceVars, expired, faults, role, overwrite, dir>>

(* A fetch fails, or the run dies, with a file written in part perhaps.    *)
ImageDies ==
  /\ AtImage("write") /\ Fault
  /\ \E content \in {dir[NextName], Partial} :
       /\ content = Partial => Writable
       /\ dir' = [dir EXCEPT ![NextName] = content]
  /\ EndImage
  /\ UNCHANGED <<deviceVars, expired, role, overwrite>>

ImageNext ==
  \/ \E want \in Channels \cup {None} : ImageBegin(want)
  \/ \E r \in Releases : ImageVerify(r) \/ ImageRetain(r)
  \/ ImageWrite \/ ImageFinish \/ ImageRefused \/ ImageDies

OnDevice(A) == role = "device" /\ A /\ UNCHANGED imageVars

HostNext == OnDevice(Next) \/ ImageNext

FileNames == {f[1] : f \in UNION {Refs(r) : r \in Releases}} \cup {LockName}

ImageInit ==
  /\ role \in {"device", "builder"} /\ overwrite \in BOOLEAN
  /\ role = "device" => ~overwrite
  /\ dir = [n \in FileNames |-> None] /\ image = NoImage

(* ----------------------------------------------------------- properties *)

(* A whole lock describes the directory it lies in: every file it names    *)
(* holds the bytes it names, all of one release, though runs for other     *)
(* releases end or die in the same directory.  Where runs are told to      *)
(* overwrite, it is promised of the lock being written only                *)
(* (writeImageLock, write).                                                *)
LockDescribesDirectory ==
  [][LET lock == dir'[LockName] IN
     lock \notin {None, Partial} /\ (lock # dir[LockName] \/ ~overwrite) =>
       \A f \in lock.refs : dir'[f[1]] = f[2]]_dir
=============================================================================
