-------------------------- MODULE ManifestClientMC --------------------------
(* An upgrade, the signed recovery from it, an OPR update that reuses the  *)
(* recovered system, a release of the edge channel, and some to refuse.    *)
EXTENDS ImageLock

At1(path) == [scheme |-> "https", host |-> "repo", path |-> path]
Sign(url) ==
  [url |-> [url EXCEPT !.path = Front(@) \o <<Last(@) \o ".sig">>], status |-> {},
   keys |-> <<PinnedKey>>]

Manifest(lane, id, seq, version, channel) ==
  LET url == At1(<<"repo", IF lane = "system" THEN "releases" ELSE "opr", channel, id,
                   "manifest.json">>) IN
  [lane |-> lane, id |-> id, seq |-> seq, version |-> version, channel |-> channel,
   archs |-> {"x86_64", "aarch64"}, url |-> url, signature |-> Sign(url),
   cohorts |-> <<[id |-> "base", revision |-> seq]>>]

V1 == [numbers |-> <<4, 0, 3>>, text |-> 1]
V2 == [numbers |-> <<4, 1, 0>>, text |-> 2]
A == Manifest("system", "sys-a", 1, V1, "stable")
B == Manifest("system", "sys-b", 2, V2, "stable")
X == Manifest("opr", "opr-x", 1, V1, "stable")
Y == Manifest("opr", "opr-y", 2, V1, "stable")
SysE == Manifest("system", "sys-e", 1, V1, "edge")

Repository(name, arch, tree, id) ==
  LET below == <<"repo", tree, id, name, arch>> IN
  [name |-> name, arch |-> arch, db |-> At1(Append(below, name \o ".db")),
   sig |-> At1(Append(below, name \o ".db.sig")), base |-> At1(below)]

Package(below, file, arch) ==
  [arch |-> arch, url |-> At1(Append(below, file)), sig |-> At1(Append(below, file \o ".sig"))]

(* The lists of both lanes, for both architectures.                        *)
ListsOf(sys, opr) ==
  LET core(a) == <<"repo", "releases", sys.id, "core", a>>
      chunk(m, ps) == [url |-> At1(<<"repo", "distribution", "chunks", m.id>>),
                       index |-> 0, count |-> 1, packages |-> ps]
  IN << chunk(sys, {Package(core("x86_64"), "linux.pkg", "x86_64"),
                    Package(core("aarch64"), "linux.pkg", "aarch64"),
                    Package(core("x86_64"), "docs.pkg", "any"),
                    Package(core("aarch64"), "docs.pkg", "any")}),
        chunk(opr, {}) >>

Plain(id, channel, seq, sys, opr) ==
  LET url == At1(<<"repo", "transactions", channel, id, "manifest.json">>) IN
  [id |-> id, channel |-> channel, seq |-> seq, sys |-> sys, opr |-> opr,
   archs |-> {"x86_64"}, url |-> url, signature |-> Sign(url),
   cohorts |-> <<[id |-> "base", revision |-> 1]>>,
   repos |-> <<Repository("core", "x86_64", "releases", sys.id),
               Repository("multilib", "x86_64", "releases", sys.id),
               Repository("omapkg", "x86_64", "opr", opr.id)>>,
   chunks |-> ListsOf(sys, opr), count |-> 4,
   authorized |-> FALSE, from |-> None, target |-> None]

R1 == Plain("r1", "stable", 1, A, X)
R2 == Plain("r2", "stable", 2, B, X)
R3 == [Plain("r3", "stable", 3, A, X) EXCEPT !.authorized = TRUE, !.from = "r2", !.target = "r1"]
R4 == Plain("r4", "stable", 4, A, Y)
Stray == Package(<<"repo", "elsewhere">>, "tool.pkg", "x86_64")
(* A package of none of the repositories, which only an image build reads. *)
R5 == [Plain("r5", "edge", 1, SysE, Y) EXCEPT !.chunks[2].packages = {Stray}, !.count = 5]
(* Refused: a system sequence reused for other bytes, databases that are   *)
(* not the signed ones, a lane of the quarantine channel, whose manifest's *)
(* URL moves, and a signature by another key.                              *)
R6 == Plain("r6", "stable", 5, [B EXCEPT !.id = "sys-c"], Y)
R7 == Plain("r7", "stable", 6, B, Y)
R8 == Plain("r8", "edge", 2, SysE, Manifest("opr", "opr-q", 2, V1, "quarantine"))
R9 == [Plain("r9", "stable", 7, B, Y) EXCEPT !.signature.keys = <<"other">>]
(* As the service publishes them: every repository for both architectures. *)
R10 == [Plain("r10", "stable", 8, B, Y) EXCEPT
          !.archs = {"x86_64", "aarch64"},
          !.repos = <<Repository("core", "x86_64", "releases", "sys-b"),
                      Repository("core", "aarch64", "releases", "sys-b"),
                      Repository("omapkg", "x86_64", "opr", "opr-y"),
                      Repository("omapkg", "aarch64", "opr", "opr-y")>>]

MCReleases == {R1, R2, R3, R4, R5, R6, R7, R8, R9, R10}
MCChannels == {"stable", "edge"}
(* Any of the sections, in any order.                                      *)
MCConfigs ==
  LET Orders == UNION {[1..n -> {"core", "multilib", "omapkg"}] : n \in 0..3}
  IN [local : Locals, repos : {None} \cup {Lanes(r) : r \in MCReleases},
      sections : {s \in Orders : \A i, j \in DOMAIN s : s[i] = s[j] => i = j}]
Typed(r) == [kind |-> "typed", at |-> r.url, url |-> r.url, channel |-> None]
Answer(r, kind) ==
  [kind |-> kind, url |-> r.url, channel |-> r.channel,
   at |-> At1(<<"repo", "channels", r.channel, "manifest.json">>)]
MCAnswers ==
  {Answer(r, "release") : r \in MCReleases \ {R5}} \cup {Answer(R5, "redirect")}
    \cup {Typed(r) : r \in MCReleases}

(* The image was installed from R1, with every repository in pacman.conf   *)
(* or with the one that is often commented out missing.  Two faults may    *)
(* hit a device, one an image build.                                       *)
MCInit ==
  /\ Init /\ ImageInit
  /\ packages = Lanes(R1)
  /\ config.local = "plain"
  /\ config.sections \in {<<"core", "multilib", "omapkg">>, <<"core", "omapkg">>}
  /\ faults = IF role = "builder" THEN 1 ELSE 0
  /\ role = "builder" => config.sections = <<"core", "omapkg">>

MCSpec == MCInit /\ [][HostNext]_allVars /\ WF_allVars(OnDevice(Work))
=============================================================================
