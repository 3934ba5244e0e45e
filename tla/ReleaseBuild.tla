------------------------------ MODULE ReleaseBuild ------------------------------
(***************************************************************************)
(* The scripts that make the release's files, and those that verify the    *)
(* files: the addon (scripts/acquire-better-sqlite3-prebuild.mjs), the     *)
(* core runtime (stage-core-package.mjs), the wallet assets                *)
(* (build-wallet-assets.mjs, verify-wallet-assets.mjs), the origin service *)
(* (build-origin-service-release.mjs, verify-origin-service-release.mjs),  *)
(* the packages and the artifact directory (pack-release-subject.mjs,      *)
(* verify-release.mjs) and the collected evidence                          *)
(* (collect-provenance-inputs.mjs).                                        *)
(*                                                                         *)
(* A script is a sequence of steps on files.  Any step may throw, which    *)
(* leads to the finally blocks below it; the process may be killed between *)
(* any two steps, and the script run again; the source tree may change     *)
(* under it.  Scripts whose outputs are created exclusively may race with  *)
(* one another, the others run alone.  A file is Absent, or the versions   *)
(* of the source its bytes come from and whether it was written to its     *)
(* end.  Cleaning up is assumed to succeed.                                *)
(***************************************************************************)
EXTENDS Naturals, FiniteSets, FiniteSetsExt, Sequences

CONSTANTS
    Procs,          \* processes
    Versions,       \* versions of the source tree, and of a download
    Pinned,         \* the versions of the addon with the pinned hash
    Absent          \* no file, no value

VARIABLES
    proc,           \* what each process runs
    disk,           \* the files at their final places
    source,         \* the version of the source tree
    accepted,       \* the files a verifier accepted, as it returned
    job             \* the scripts of this behaviour

buildVars == <<proc, disk, source, accepted, job>>

Shared == {"addon", "runtime", "declarationStage", "declaration", "assets",
           "manifest", "archive", "checksum", "tarball", "report", "evidence"}

Private == {"temporary", "subject", "packed", "retained", "staging",
            "extracted", "rebuilt"}

Idle == [script |-> Absent, pc |-> 1, threw |-> Absent, mem |-> {}, held |-> FALSE,
         child |-> "none", files |-> [f \in Private |-> Absent]]

-----------------------------------------------------------------------------
(* Steps. *)

Step(op, a, b) == [op |-> op, a |-> a, b |-> b]

RequireAbsent(f) == <<Step("requireAbsent", f, Absent)>>  \* refuse if f exists
Read             == <<Step("read", Absent, Absent)>>    \* read a source file
Fetch            == <<Step("fetch", Absent, Absent)>>   \* read a download
Load(f)          == <<Step("load", f, Absent)>>       \* read f, to its end
Forget           == <<Step("forget", Absent, Absent)>>  \* what was read is gone
RequireSame      == <<Step("requireSame", Absent, Absent)>> \* of one version
RequirePinned    == <<Step("requirePinned", Absent, Absent)>>
Compare(f)       == <<Step("compare", f, Absent)>>    \* f is what was read
Matches(f, g)    == <<Step("matches", f, g)>>       \* two files of one origin
MkTemp(f)        == <<Step("mkTemp", f, Absent)>>     \* a new, empty f
CopyInto(f)      == <<Step("copyInto", f, Absent)>>   \* a source file into f
Copy(f, g)       == <<Step("truncate", g, Absent), Step("copy", f, g)>>
Write(f)         == <<Step("create", f, Absent), Step("fill", f, Absent)>>
Overwrite(f)     == <<Step("truncate", f, Absent), Step("fill", f, Absent)>>
Link(f, g)       == <<Step("link", f, g)>>          \* refuse if g exists
MoveTree(f, g)   == <<Step("moveTree", f, g)>>      \* refuse if g exists
MoveFile(f, g)   == <<Step("moveFile", f, g)>>
Unlink(f)        == <<Step("remove", f, Absent)>>
Spawn            == <<Step("spawn", Absent, Absent)>>
Poll             == <<Step("poll", Absent, Absent)>>
Return           == <<Step("return", Absent, Absent)>>  \* the caller has retained
Accept(fs)       == <<Step("accept", fs, Absent)>>    \* the verifier returns

\* finally { rm f }, catch { rm f } of a failed write of g, and the finally
\* that stops the child and the one that removes what was handed over.
Finally(f)       == <<Step("finally", f, Absent)>>
Catch(f, g)      == <<Step("catch", f, g)>>
FinallyStop      == <<Step("stop", Absent, Absent)>>
FinallyHeld(f)   == <<Step("finallyHeld", f, Absent)>>

Cleanups == {"finally", "catch", "stop", "finallyHeld"}

-----------------------------------------------------------------------------
(* The scripts. *)

stageAddonAtomically ==
    RequireAbsent("addon") \o Write("temporary") \o Link("temporary", "addon")
        \o Finally("temporary")

acquireBetterSqlite3Prebuild ==
    Fetch \o RequirePinned \o stageAddonAtomically

stageCorePackage ==
    MkTemp("temporary") \o CopyInto("temporary") \o CopyInto("temporary")
        \o Forget \o Read \o Overwrite("declarationStage")
        \o Unlink("runtime") \o MoveTree("temporary", "runtime")
        \o MoveFile("declarationStage", "declaration")
        \o Finally("temporary") \o Finally("declarationStage")

\* Every source is read and checked before anything is written.
buildWalletAssets ==
    Forget \o Read \o Read \o Unlink("assets") \o Overwrite("assets")
        \o Overwrite("manifest")

\* verifyManifestAndAssets: the assets are those of the manifest, and of
\* the built output.
verifyManifestAndAssets ==
    Load("manifest") \o Compare("assets") \o Forget \o Read \o Read
        \o Compare("assets")

\* compareRegeneration: a rebuild into a private directory is the same.
compareRegeneration ==
    Compare("rebuilt") \o Matches("rebuilt", "manifest")
        \o Matches("rebuilt", "assets")

verifyWalletAssets ==
    verifyManifestAndAssets \o MkTemp("rebuilt") \o Forget \o Read \o Read
        \o Overwrite("rebuilt") \o compareRegeneration \o Finally("rebuilt")
        \o Accept({"manifest", "assets"})

\* validateBuiltOrigin: the page's files are those of its integrity.json.
validateBuiltOrigin == Forget \o Read \o Read \o RequireSame

\* The mutated form: the checksum is written first.
buildChecksumFirst ==
    Forget \o Load("staging") \o RequireSame
        \o RequireAbsent("archive") \o RequireAbsent("checksum")
        \o Write("checksum") \o Write("archive")

\* The staged bytes are read once; what is checked is what is packed.
buildOriginServiceArchive ==
    Forget \o Load("staging") \o RequireSame
        \o RequireAbsent("archive") \o RequireAbsent("checksum")
        \o Write("archive") \o Write("checksum")
        \o Catch("archive", "checksum")

\* npm ci has removed the addon of an earlier run.
buildProductionOriginServiceRelease ==
    Unlink("addon") \o acquireBetterSqlite3Prebuild \o validateBuiltOrigin
        \o MkTemp("staging") \o CopyInto("staging") \o CopyInto("staging")
        \o buildOriginServiceArchive \o Finally("staging")

\* The mutated form: the service is stopped after a check that went well.
runHealthCheckUnguarded == Spawn \o Poll \o <<Step("stopNow", Absent, Absent)>>

\* The service runs from the extracted files until it is stopped.
runHealthCheck == Spawn \o Poll \o FinallyStop

\* The mutated form: the archive is not compared with its checksum.
verifyArchiveOnly ==
    Forget \o Load("archive")
        \o MkTemp("extracted") \o Overwrite("extracted") \o runHealthCheck
        \o Finally("extracted") \o Accept({"archive", "checksum"})

verifyOriginServiceRelease ==
    Forget \o Load("archive") \o Compare("checksum")
        \o MkTemp("extracted") \o Overwrite("extracted") \o runHealthCheck
        \o Finally("extracted") \o Accept({"archive", "checksum"})

\* The manifest is read, the tree copied, npm packs it into the output.
packWorkspaceReleaseSubject(output) ==
    Forget \o Read \o MkTemp("subject") \o CopyInto("subject")
        \o Forget \o Load("subject") \o Overwrite(output)
        \o Finally("subject")

packAndVerifyPackages ==
    MkTemp("packed") \o stageCorePackage \o packWorkspaceReleaseSubject("packed")
        \o MkTemp("retained") \o Copy("packed", "retained") \o Return
        \o Finally("packed")

\* The artifact directory is empty; the report is written last.
emitArtifacts ==
    RequireAbsent("tarball") \o RequireAbsent("archive")
        \o RequireAbsent("report") \o Copy("retained", "tarball")
        \o buildProductionOriginServiceRelease \o verifyOriginServiceRelease
        \o Forget \o Load("tarball") \o Write("report")

verifyReleaseMain ==
    packAndVerifyPackages \o emitArtifacts \o FinallyHeld("retained")

\* publishEvidenceDirectory, for an output that must not exist.
publishEvidenceDirectory ==
    RequireAbsent("evidence") \o Forget \o Read \o MkTemp("temporary")
        \o Overwrite("temporary") \o RequireAbsent("evidence")
        \o MoveTree("temporary", "evidence") \o Finally("temporary")

Scripts ==
    [acquire  |-> acquireBetterSqlite3Prebuild,
     core     |-> stageCorePackage,
     assets   |-> buildWalletAssets,
     check    |-> verifyWalletAssets,
     origin   |-> buildProductionOriginServiceRelease,
     verify   |-> verifyOriginServiceRelease,
     emit     |-> verifyReleaseMain,
     evidence |-> publishEvidenceDirectory]

ScriptNames == DOMAIN Scripts

\* No value is no script, no step and no file.
ASSUME BuildAssumption ==
    /\ Absent \notin ScriptNames
    /\ \A s \in ScriptNames : \A i \in DOMAIN Scripts[s] : Scripts[s][i] # Absent
    /\ Absent \notin [of : SUBSET Versions, whole : BOOLEAN]

\* Scripts of different jobs have no file in common but the source.
Jobs == {{"acquire"}, {"core"}, {"assets", "check"}, {"origin", "verify"},
         {"emit"}, {"evidence"}}

\* The scripts that may run while another process runs the same one.
Exclusive == {"acquire", "evidence"}

-----------------------------------------------------------------------------
(* Running them. *)

ScriptOf(p) == Scripts[proc[p].script]

Running(p) == proc[p].script # Absent /\ proc[p].pc <= Len(ScriptOf(p))

Now(p) == ScriptOf(p)[proc[p].pc]

File(p, f) == IF f \in Private THEN proc[p].files[f] ELSE disk[f]

IsWhole(file) == file # Absent /\ file.whole

\* The next step: while an exception is on its way, the next cleanup.
NextPc(p, threw) ==
    IF threw = Absent THEN proc[p].pc + 1
    ELSE Min({i \in (proc[p].pc + 1) .. Len(ScriptOf(p)) :
                 ScriptOf(p)[i].op \in Cleanups} \cup {Len(ScriptOf(p)) + 1})

\* The step ends well, leaving r.
Ends(p, r) ==
    proc' = [proc EXCEPT ![p] = [r EXCEPT !.pc = NextPc(p, r.threw)]]

Keeps(p, r) == Ends(p, r) /\ UNCHANGED <<disk, source, accepted, job>>

Throws(p) == Keeps(p, [proc[p] EXCEPT !.threw = Now(p)])

\* The step ends well and file f becomes v.
Sets(p, f, v) ==
    /\ IF f \in Private
       THEN Ends(p, [proc[p] EXCEPT !.files[f] = v]) /\ UNCHANGED disk
       ELSE Ends(p, proc[p]) /\ disk' = [disk EXCEPT ![f] = v]
    /\ UNCHANGED <<source, accepted, job>>

\* The file f is now at g.
Moves(p, f, g) ==
    /\ Ends(p, [proc[p] EXCEPT !.files =
                   [h \in Private |-> IF h = f THEN Absent ELSE @[h]]])
    /\ disk' = [h \in Shared |-> IF h = g THEN File(p, f)
                                 ELSE IF h = f THEN Absent ELSE disk[h]]
    /\ UNCHANGED <<source, accepted, job>>

Does(p, op) == Running(p) /\ Now(p).op = op

DoRequireAbsent(p) ==
    /\ Does(p, "requireAbsent")
    /\ File(p, Now(p).a) = Absent
    /\ Keeps(p, proc[p])

DoRead(p) ==
    /\ Does(p, "read")
    /\ Keeps(p, [proc[p] EXCEPT !.mem = @ \cup {source}])

DoFetch(p) ==
    /\ Does(p, "fetch")
    /\ \E v \in Versions : Keeps(p, [proc[p] EXCEPT !.mem = {v}])

\* A file read to its end; one that was cut short does not parse.
DoLoad(p) ==
    /\ Does(p, "load")
    /\ IsWhole(File(p, Now(p).a))
    /\ Keeps(p, [proc[p] EXCEPT !.mem = File(p, Now(p).a).of])

DoForget(p) ==
    /\ Does(p, "forget")
    /\ Keeps(p, [proc[p] EXCEPT !.mem = {}])

DoRequireSame(p) ==
    /\ Does(p, "requireSame")
    /\ Cardinality(proc[p].mem) = 1
    /\ Keeps(p, proc[p])

DoRequirePinned(p) ==
    /\ Does(p, "requirePinned")
    /\ proc[p].mem \subseteq Pinned
    /\ Keeps(p, proc[p])

DoCompare(p) ==
    /\ Does(p, "compare")
    /\ IsWhole(File(p, Now(p).a))
    /\ File(p, Now(p).a).of = proc[p].mem
    /\ Keeps(p, proc[p])

DoMatches(p) ==
    /\ Does(p, "matches")
    /\ File(p, Now(p).b) = File(p, Now(p).a)
    /\ Keeps(p, proc[p])

DoMkTemp(p) ==
    /\ Does(p, "mkTemp")
    /\ Sets(p, Now(p).a, [of |-> {}, whole |-> FALSE])

\* A directory is whole with the last of the files it is to have.
DoCopyInto(p) ==
    /\ Does(p, "copyInto")
    /\ LET last == ScriptOf(p)[proc[p].pc + 1].op # "copyInto" IN
       Sets(p, Now(p).a, [of |-> File(p, Now(p).a).of \cup {source},
                          whole |-> last])

DoCreate(p) ==
    /\ Does(p, "create")
    /\ File(p, Now(p).a) = Absent
    /\ Sets(p, Now(p).a, [of |-> proc[p].mem, whole |-> FALSE])

DoTruncate(p) ==
    /\ Does(p, "truncate")
    /\ Sets(p, Now(p).a, [of |-> proc[p].mem, whole |-> FALSE])

DoFill(p) ==
    /\ Does(p, "fill")
    /\ Sets(p, Now(p).a, [of |-> proc[p].mem, whole |-> TRUE])

DoCopy(p) ==
    /\ Does(p, "copy")
    /\ File(p, Now(p).a) # Absent
    /\ Sets(p, Now(p).b, File(p, Now(p).a))

DoLink(p) ==
    /\ Does(p, "link")
    /\ disk[Now(p).b] = Absent
    /\ Sets(p, Now(p).b, File(p, Now(p).a))

DoMoveTree(p) ==
    /\ Does(p, "moveTree")
    /\ disk[Now(p).b] = Absent
    /\ Moves(p, Now(p).a, Now(p).b)

DoMoveFile(p) ==
    /\ Does(p, "moveFile")
    /\ File(p, Now(p).a) # Absent
    /\ Moves(p, Now(p).a, Now(p).b)

DoRemove(p) ==
    /\ Running(p)
    /\ Now(p).op \in {"remove", "finally"}
    /\ Sets(p, Now(p).a, Absent)

DoCatch(p) ==
    /\ Does(p, "catch")
    /\ LET t == proc[p].threw IN
       IF t # Absent /\ t.op \in {"create", "fill"} /\ t.a = Now(p).b
       THEN Sets(p, Now(p).a, Absent)
       ELSE Keeps(p, proc[p])

DoFinallyHeld(p) ==
    /\ Does(p, "finallyHeld")
    /\ IF proc[p].held THEN Sets(p, Now(p).a, Absent) ELSE Keeps(p, proc[p])

DoReturn(p) ==
    /\ Does(p, "return")
    /\ Keeps(p, [proc[p] EXCEPT !.held = TRUE])

DoSpawn(p) ==
    /\ Does(p, "spawn")
    /\ Keeps(p, [proc[p] EXCEPT !.child = "running"])

\* Healthy before the deadline; a deadline that passes, and a service that
\* exits, throw.
DoPoll(p) ==
    /\ Does(p, "poll")
    /\ proc[p].child = "running"
    /\ Keeps(p, proc[p])

\* SIGTERM and, three seconds later, SIGKILL.
stopChild(p) ==
    /\ Running(p)
    /\ Now(p).op \in {"stop", "stopNow"}
    /\ Keeps(p, [proc[p] EXCEPT !.child = "none"])

ChildExits(p) ==
    /\ proc[p].child = "running"
    /\ proc' = [proc EXCEPT ![p].child = "exited"]
    /\ UNCHANGED <<disk, source, accepted, job>>

DoAccept(p) ==
    /\ Does(p, "accept")
    /\ Ends(p, proc[p])
    /\ accepted' = Now(p).a
    /\ UNCHANGED <<disk, source, job>>

\* A check fails, or the system does: any step but a cleanup may throw.
StepThrows(p) ==
    /\ Running(p)
    /\ Now(p).op \notin Cleanups \cup {"return", "forget", "accept"}
    /\ Throws(p)

Start(p) ==
    /\ proc[p].script = Absent
    /\ \E s \in job :
          /\ \A q \in Procs \ {p} :
                proc[q].script # Absent =>
                    proc[q].script = s /\ s \in Exclusive
          /\ proc' = [proc EXCEPT ![p] = [Idle EXCEPT !.script = s]]
    /\ accepted' = {}
    /\ UNCHANGED <<disk, source, job>>

\* Subjects that were not handed over stay in a directory nobody names.
End(p) ==
    /\ proc[p].script # Absent
    /\ proc[p].pc > Len(ScriptOf(p))
    /\ proc' = [proc EXCEPT ![p] =
           [Idle EXCEPT !.child = proc[p].child,
                        !.files = [proc[p].files EXCEPT !["retained"] = Absent]]]
    /\ UNCHANGED <<disk, source, accepted, job>>

\* Killed: no finally runs.  What it had made for itself has a name that no
\* other process will use.
Killed(p) ==
    /\ proc[p].script # Absent
    /\ proc' = [proc EXCEPT ![p] = Idle]
    /\ UNCHANGED <<disk, source, accepted, job>>

EditSource ==
    /\ source' \in Versions
    /\ UNCHANGED <<proc, disk, accepted, job>>

\* Somebody tidies up before the next run: an output that is in the way of
\* an exclusive write, or the artifact directory.
Tidy ==
    /\ \A p \in Procs : proc[p].script = Absent
    /\ \E fs \in {{"addon"}, {"evidence"},
                  {"archive", "checksum", "tarball", "report"}} :
          disk' = [f \in Shared |-> IF f \in fs THEN Absent ELSE disk[f]]
    /\ accepted' = {}
    /\ UNCHANGED <<proc, source, job>>

BuildInit ==
    /\ proc = [p \in Procs |-> Idle]
    /\ disk = [f \in Shared |-> Absent]
    /\ source \in Versions
    /\ accepted = {}
    /\ job \in Jobs

BuildNext ==
    \/ \E p \in Procs : DoRequireAbsent(p)
    \/ \E p \in Procs : DoRead(p)
    \/ \E p \in Procs : DoFetch(p)
    \/ \E p \in Procs : DoLoad(p)
    \/ \E p \in Procs : DoForget(p)
    \/ \E p \in Procs : DoRequireSame(p)
    \/ \E p \in Procs : DoRequirePinned(p)
    \/ \E p \in Procs : DoCompare(p)
    \/ \E p \in Procs : DoMatches(p)
    \/ \E p \in Procs : DoMkTemp(p)
    \/ \E p \in Procs : DoCopyInto(p)
    \/ \E p \in Procs : DoCreate(p)
    \/ \E p \in Procs : DoTruncate(p)
    \/ \E p \in Procs : DoFill(p)
    \/ \E p \in Procs : DoCopy(p)
    \/ \E p \in Procs : DoLink(p)
    \/ \E p \in Procs : DoMoveTree(p)
    \/ \E p \in Procs : DoMoveFile(p)
    \/ \E p \in Procs : DoRemove(p)
    \/ \E p \in Procs : DoCatch(p)
    \/ \E p \in Procs : DoFinallyHeld(p)
    \/ \E p \in Procs : DoReturn(p)
    \/ \E p \in Procs : DoSpawn(p)
    \/ \E p \in Procs : DoPoll(p)
    \/ \E p \in Procs : stopChild(p)
    \/ \E p \in Procs : ChildExits(p)
    \/ \E p \in Procs : DoAccept(p)
    \/ \E p \in Procs : StepThrows(p)
    \/ \E p \in Procs : Start(p)
    \/ \E p \in Procs : End(p)
    \/ \E p \in Procs : Killed(p)
    \/ EditSource
    \/ Tidy

BuildSpec == BuildInit /\ [][BuildNext]_buildVars

-----------------------------------------------------------------------------
(* Properties. *)

(***************************************************************************)
(* However a build fails, is killed or races with another, a file at its   *)
(* final place is never half of one: the addon is the pinned download, the *)
(* core runtime and the evidence directory are complete, a checksum that   *)
(* is whole stands beside the whole archive it is of, whose page is of one *)
(* source version although the tree may change while it is staged, and a   *)
(* report stands beside everything it reports.                             *)
(***************************************************************************)
FinalFilesAreWhole ==
    /\ \A f \in {"addon", "runtime", "declaration", "evidence"} :
          disk[f] # Absent => disk[f].whole
    /\ disk["addon"] # Absent => disk["addon"].of \subseteq Pinned
    /\ IsWhole(disk["checksum"]) =>
           /\ disk["checksum"] = disk["archive"]
           /\ Cardinality(disk["archive"].of) = 1
    /\ disk["report"] # Absent =>
           \A f \in {"tarball", "archive", "checksum"} : IsWhole(disk[f])

(***************************************************************************)
(* What a verifier accepts is complete and belongs together, whatever an   *)
(* earlier build that was killed left: the asset manifest with the assets  *)
(* it names, the archive with its checksum.                                *)
(***************************************************************************)
AcceptedBelongsTogether ==
    \A f, g \in accepted : IsWhole(disk[f]) /\ disk[f] = disk[g]

(***************************************************************************)
(* A script that was not killed leaves neither the service it started nor  *)
(* any of its private directories behind, wherever it failed, and the      *)
(* service never outlives the directory it runs from.  (The packed         *)
(* subjects are the exception: a failed copy leaves their directory.)      *)
(***************************************************************************)
EndedLeavesNothing ==
    \A p \in Procs :
        /\ proc[p].script = Absent =>
               /\ proc[p].child = "none"
               /\ \A f \in Private : proc[p].files[f] = Absent
        /\ proc[p].child # "none" => proc[p].files["extracted"] # Absent

(* However the jobs and builds overlap and end, what they leave on the     *)
(* disk is whole and belongs together (the build scripts).                 *)
BuildsAreSound == FinalFilesAreWhole /\ AcceptedBelongsTogether /\ EndedLeavesNothing

=============================================================================
