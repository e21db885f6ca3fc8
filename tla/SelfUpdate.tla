------------------------------ MODULE SelfUpdate ------------------------------
(***************************************************************************)
(* memento-mcp update and the update notice (internal/app/update.go).       *)
(* Commands may run side by side; each stages a download next to the        *)
(* executable and renames it over when it has been verified.  On Windows    *)
(* the rename is left to a helper that outlives the command.                *)
(***************************************************************************)
EXTENDS Naturals, Sequences

CONSTANTS Updaters,         \* update commands
          Releases,         \* what the project may publish: records of
                            \*   version, listed, assets, sidecar, reports
          FirstBinary,      \* the executable installed at first
          NoBinary,
          MaxUpdates        \* bound: update commands begun

\* A binary is what was published as a version, whole or cut short, and what it
\* answers when it is asked for its version.
Binary == [version : Seq(Nat), whole : BOOLEAN, reports : Seq(Nat)]
ASSUME UpdateAssumption ==
    /\ Releases \subseteq [version : Seq(Nat), listed : BOOLEAN, assets : BOOLEAN,
                            sidecar : {"matches", "differs", "malformed"}, reports : Seq(Nat)]
    /\ FirstBinary \in Binary /\ NoBinary \in Binary

VARIABLES
    upSetting,      \* "plain", "windows", "symlink" or "plugin"
    upPublished,    \* the releases the service lists
    upTarget,       \* the installed executable
    upStaged,       \* Windows: target.update
    upHelpers,      \* Windows: helpers that have not ended
    upStep, upRelease, upTemp,  \* per command
    upCache,        \* update-check.json: the latest version and its age
    upNotice,       \* the background check of a server that has started
    upRuns
upVars == <<upSetting, upPublished, upTarget, upStaged, upHelpers, upStep,
            upRelease, upTemp, upCache, upNotice, upRuns>>

-----------------------------------------------------------------------------
(* Versions are triples of numbers; any other string does not parse (<<>>). *)

Comparable(a, b) == Len(a) = 3 /\ Len(b) = 3
Newer(a, b) ==      \* compareVersions(a, b) > 0
    /\ Comparable(a, b)
    /\ \E i \in 1..3 : a[i] > b[i] /\ \A j \in 1..(i - 1) : a[j] = b[j]

\* A draft, a prerelease, another tag and a version that does not parse are
\* passed over.
ServerReleases == {r \in upPublished : r.listed /\ Len(r.version) = 3}
IsLatest(r) == r \in ServerReleases
               /\ \A other \in ServerReleases : ~Newer(other.version, r.version)

\* The asset and its sidecar are both there, and the sidecar is well formed.
Installable(r) == r.assets /\ r.sidecar # "malformed"

UpdateInit ==
    /\ upSetting \in {"plain", "windows", "symlink", "plugin"}
    /\ upPublished = {} /\ upTarget = FirstBinary
    /\ upStaged = NoBinary /\ upHelpers = 0
    /\ upStep = [u \in Updaters |-> "idle"]
    /\ upRelease = [u \in Updaters |-> NoBinary]
    /\ upTemp = [u \in Updaters |-> NoBinary]
    /\ upCache = [latest |-> <<>>, fresh |-> FALSE] /\ upNotice = "none" /\ upRuns = 0

-----------------------------------------------------------------------------
(* One update command                                                       *)

\* runUpdate up to the choice of the release: an installation managed by a
\* plugin is refused, and so is a release that is not newer; a development
\* build compares with nothing and takes the latest.
UpdateChooses(u) ==
    /\ upStep[u] = "idle" /\ upSetting # "plugin"
    /\ upRuns < MaxUpdates /\ upRuns' = upRuns + 1
    /\ \E r \in upPublished :
        /\ IsLatest(r)
        /\ Comparable(r.version, upTarget.reports) => Newer(r.version, upTarget.reports)
        /\ upRelease' = [upRelease EXCEPT ![u] = r]
    /\ upStep' = [upStep EXCEPT ![u] = "chosen"]
    /\ UNCHANGED <<upSetting, upPublished, upTarget, upStaged, upHelpers, upTemp, upCache, upNotice>>

\* install up to the end of the copy: a body cut short need not be an error.
UpdateDownloads(u) ==
    /\ upStep[u] = "chosen" /\ upSetting # "symlink" /\ Installable(upRelease[u])
    /\ \E whole \in BOOLEAN : upTemp' = [upTemp EXCEPT ![u] =
            [version |-> upRelease[u].version, whole |-> whole, reports |-> upRelease[u].reports]]
    /\ upStep' = [upStep EXCEPT ![u] = "downloaded"]
    /\ UNCHANGED <<upSetting, upPublished, upTarget, upStaged, upHelpers, upRelease, upCache, upNotice, upRuns>>

\* Faulty variant: the sum of what has been copied is compared with nothing.
UpdateTrusts(u) ==
    /\ upStep[u] = "downloaded"
    /\ upStep' = [upStep EXCEPT ![u] = "verified"]
    /\ UNCHANGED <<upSetting, upPublished, upTarget, upStaged, upHelpers, upRelease, upTemp, upCache, upNotice, upRuns>>

UpdateVerifies(u) ==
    /\ upStep[u] = "downloaded"
    /\ upTemp[u].whole /\ upRelease[u].sidecar = "matches"
    /\ upStep' = [upStep EXCEPT ![u] = "verified"]
    /\ UNCHANGED <<upSetting, upPublished, upTarget, upStaged, upHelpers, upRelease, upTemp, upCache, upNotice, upRuns>>

\* validateReleaseBinary: the staged file is run and asked for its version.
UpdateValidates(u) ==
    /\ upStep[u] = "verified" /\ upTemp[u].reports = upRelease[u].version
    /\ upStep' = [upStep EXCEPT ![u] = "ready"]
    /\ UNCHANGED <<upSetting, upPublished, upTarget, upStaged, upHelpers, upRelease, upTemp, upCache, upNotice, upRuns>>

Ended(u) == /\ upStep' = [upStep EXCEPT ![u] = "idle"]
            /\ upTemp' = [upTemp EXCEPT ![u] = NoBinary]
            /\ upRelease' = [upRelease EXCEPT ![u] = NoBinary]

\* replaceExecutable.
UpdateReplaces(u) ==
    /\ upStep[u] = "ready" /\ Ended(u)
    /\ IF upSetting = "windows"
       THEN upStaged' = upTemp[u] /\ upHelpers' = upHelpers + 1 /\ UNCHANGED upTarget
       ELSE upTarget' = upTemp[u] /\ UNCHANGED <<upStaged, upHelpers>>
    /\ UNCHANGED <<upSetting, upPublished, upCache, upNotice, upRuns>>

\* Windows: the helper cannot be written or started, and nothing stays staged.
UpdateHelperMissing(u) ==
    /\ upStep[u] = "ready" /\ upSetting = "windows" /\ Ended(u)
    /\ upStaged' = NoBinary
    /\ UNCHANGED <<upSetting, upPublished, upTarget, upHelpers, upCache, upNotice, upRuns>>

\* Any error, the 30 seconds of the command's context, or its death: at every
\* step what it staged is left to itself.
UpdateFails(u) ==
    /\ upStep[u] # "idle" /\ Ended(u)
    /\ UNCHANGED <<upSetting, upPublished, upTarget, upStaged, upHelpers, upCache, upNotice, upRuns>>

\* The helper moves whatever is staged when it gets to it; it may be another
\* command's, and it may find nothing fifty times.
HelperMoves ==
    /\ upHelpers > 0 /\ upHelpers' = upHelpers - 1
    /\ upTarget' = IF upStaged = NoBinary THEN upTarget ELSE upStaged
    /\ upStaged' = NoBinary
    /\ UNCHANGED <<upSetting, upPublished, upStep, upRelease, upTemp, upCache, upNotice, upRuns>>
HelperGivesUp ==
    /\ upHelpers > 0 /\ upHelpers' = upHelpers - 1
    /\ UNCHANGED <<upSetting, upPublished, upTarget, upStaged, upStep, upRelease, upTemp, upCache, upNotice, upRuns>>

-----------------------------------------------------------------------------
(* The notice a server prints when it starts                                *)

\* startUpdateNotice: a cache younger than a day is used, else a goroutine asks.
NoticeStarts ==
    /\ upNotice = "none" /\ Len(upTarget.reports) = 3
    /\ upNotice' = IF upCache.fresh THEN "shown" ELSE "asking"
    /\ UNCHANGED <<upSetting, upPublished, upTarget, upStaged, upHelpers, upStep, upRelease, upTemp, upCache, upRuns>>
NoticeAsks ==
    /\ upNotice = "asking" /\ upNotice' = "shown"
    /\ \E r \in upPublished : IsLatest(r) /\ upCache' = [latest |-> r.version, fresh |-> TRUE]
    /\ UNCHANGED <<upSetting, upPublished, upTarget, upStaged, upHelpers, upStep, upRelease, upTemp, upRuns>>

\* The next server to start, on the same day or a later one.
ServerStarts ==
    /\ upNotice # "none" /\ upNotice' = "none"
    /\ \E fresh \in BOOLEAN : upCache' = [upCache EXCEPT !.fresh = @ /\ fresh]
    /\ UNCHANGED <<upSetting, upPublished, upTarget, upStaged, upHelpers, upStep, upRelease, upTemp, upRuns>>

Publish(r) ==
    /\ r \notin upPublished /\ upPublished' = upPublished \union {r}
    /\ UNCHANGED <<upSetting, upTarget, upStaged, upHelpers, upStep, upRelease, upTemp, upCache, upNotice, upRuns>>

UpdateNext ==
    \/ \E u \in Updaters : \/ UpdateChooses(u) \/ UpdateDownloads(u) \/ UpdateVerifies(u)
                           \/ UpdateValidates(u) \/ UpdateReplaces(u)
                           \/ UpdateHelperMissing(u) \/ UpdateFails(u)
    \/ HelperMoves \/ HelperGivesUp \/ NoticeStarts \/ NoticeAsks \/ ServerStarts
    \/ \E r \in Releases : Publish(r)

UpdateSpec == UpdateInit /\ [][UpdateNext]_upVars

-----------------------------------------------------------------------------
(* Properties                                                               *)

\* Whatever fails, dies or runs beside it, the installed executable is the one
\* the user had or a whole download of a published release that is newer, that
\* reports the version it was published as and that matched its sidecar.
ExecutableIsWhole ==
    \/ upTarget = FirstBinary
    \/ /\ upTarget.whole /\ upTarget.reports = upTarget.version
       /\ Comparable(FirstBinary.reports, FirstBinary.reports)
             => Newer(upTarget.version, FirstBinary.reports)
       /\ \E r \in upPublished : r.version = upTarget.version /\ r.listed /\ r.sidecar = "matches"
=============================================================================
