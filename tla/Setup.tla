-------------------------------- MODULE Setup --------------------------------
(***************************************************************************)
(* memento-mcp setup, doctor and claude-md (internal/app): a client's       *)
(* registrations live in a file the client also writes, or behind the       *)
(* client's own command.  Every client is planned before the first is       *)
(* written; the writes then go one by one.                                  *)
(***************************************************************************)
EXTENDS Naturals, Sequences, SequencesExt

CONSTANTS SetupClients,     \* the clients selected, in the order of knownClients
          CommandClients,   \* those of them registered with a command
          Snapshotted,      \* those of these whose registration is removed first
                            \*   to be replaced (claude)
          OtherEntries,     \* what else a client keeps in its file
          Guides,           \* what CLAUDE.local.md may hold at first
          MaxSaves          \* bound: saves by the clients themselves
GuideItems == {"mine", "guide", "start", "end"}
ASSUME SetupAssumption ==
    /\ SetupClients \in Seq(STRING) /\ Guides \subseteq Seq(GuideItems)
    /\ MaxSaves \in Nat

VARIABLES
    stConfig,       \* per client: [file, canonical, legacy, others]
    stForce, stCommand,     \* --force; whether the commands are installed
    stPhase,        \* "begun", "removed", "refused", "failed", "killed", "done"
    stNext,         \* the position of the client being planned, then written
    stPlan,         \* per client, what is to be written (NoConfig: not planned)
    stSnapshot,     \* the configuration before a registration was removed
    stGuide,        \* CLAUDE.local.md: the user's text, the guidance, the markers
    stDoctor,       \* the last verdict of doctor
    stSeen, stHad, stWrote, stMine, stSaves     \* history
stVars == <<stConfig, stForce, stCommand, stPhase, stNext, stPlan, stSnapshot, stGuide,
            stDoctor, stSeen, stHad, stWrote, stMine, stSaves>>

Selected == {SetupClients[i] : i \in DOMAIN SetupClients}
NoConfig == [file |-> "none", canonical |-> "none", legacy |-> "none", others |-> {}]
NotRegistered == [NoConfig EXCEPT !.file = "absent"]

\* inspectServerEntries, inspectJSONConfig, inspectCLIClient.  An empty file,
\* invalid JSON and an entry of another form are "bad".
Status(config) ==
    IF config.file = "bad" \/ (config.canonical # "none" /\ config.legacy # "none")
    THEN "error"
    ELSE IF config.file = "absent" \/ (config.canonical = "none" /\ config.legacy = "none")
    THEN "not configured"
    ELSE IF "ours" \in {config.canonical, config.legacy} THEN "configured"
    ELSE "stale"

\* Faulty variant: a file without a registration of its own is written afresh.
RegisteredAfresh(config) ==
    IF Status(config) = "not configured"
    THEN [NotRegistered EXCEPT !.canonical = "ours", !.file = "json"]
    ELSE [config EXCEPT !.canonical = "ours", !.file = "json"]

\* upsertNamedConfig, and what the clients' own add does: the name an entry has
\* is kept, and so is everything else.
Registered(config) ==
    IF config.legacy # "none" /\ config.canonical = "none"
    THEN [config EXCEPT !.legacy = "ours", !.file = "json"]
    ELSE [config EXCEPT !.canonical = "ours", !.file = "json"]
Unregistered(config) == [config EXCEPT !.canonical = "none", !.legacy = "none"]

-----------------------------------------------------------------------------
(* claude-md: the block between the first pair of markers is replaced.       *)

Block == <<"start", "guide", "end">>
BlockStart(text) == SelectInSeq(text, LAMBDA item : item = "start")
BlockEnd(text) ==
    LET after == SubSeq(text, BlockStart(text) + 1, Len(text))
        end == SelectInSeq(after, LAMBDA item : item = "end")
    IN  IF end = 0 THEN 0 ELSE BlockStart(text) + end
Unpaired(text) ==
    IF BlockStart(text) = 0 THEN Contains(text, "end") ELSE BlockEnd(text) = 0
Outside(text) ==
    IF BlockStart(text) = 0 \/ BlockEnd(text) = 0 THEN text
    ELSE SubSeq(text, 1, BlockStart(text) - 1)
         \o SubSeq(text, BlockEnd(text) + 1, Len(text))
WithGuidance(text) ==   \* upsertClaudeLocalMD
    IF BlockStart(text) = 0 THEN text \o Block
    ELSE SubSeq(text, 1, BlockStart(text) - 1) \o Block
         \o SubSeq(text, BlockEnd(text) + 1, Len(text))

-----------------------------------------------------------------------------
SetupInit ==
    /\ stConfig \in [Selected ->
            [file : {"json"}, canonical : {"none", "theirs"}, legacy : {"none", "theirs"},
             others : {OtherEntries}]
            \union {NotRegistered, [NotRegistered EXCEPT !.file = "bad"]}]
    /\ stForce \in BOOLEAN /\ stCommand \in BOOLEAN
    /\ stPhase = "begun" /\ stNext = 1
    /\ stPlan = [c \in Selected |-> NoConfig] /\ stSnapshot = NoConfig
    /\ stGuide \in Guides /\ stDoctor = "none"
    /\ stSeen = [c \in Selected |-> {}]
    /\ stHad = {c \in Selected : Status(stConfig[c]) \in {"configured", "stale"}}
    /\ stWrote = {} /\ stMine = Outside(stGuide) /\ stSaves = 0

Planning == stPhase = "begun" /\ stNext <= Len(SetupClients)
Planned == stPhase = "begun" /\ stNext > Len(SetupClients)
Current == SetupClients[IF Planning THEN stNext ELSE stNext - Len(SetupClients)]
Writing == Planned /\ stNext <= 2 * Len(SetupClients)
NextClient == IF stNext = 2 * Len(SetupClients)
              THEN stPhase' = "done" /\ UNCHANGED stNext
              ELSE stPhase' = "begun" /\ stNext' = stNext + 1

\* The first loop of configureClients: whatever is wrong with one client
\* refuses them all.
Refusable(c) ==
    IF c \in CommandClients
    THEN \/ ~stCommand
         \/ Status(stConfig[c]) = "error"
         \/ Status(stConfig[c]) = "stale" /\ ~stForce
    ELSE Status(stConfig[c]) = "error"

SetupPlans ==
    LET c == Current
    IN  /\ Planning
        /\ IF Refusable(c)
           THEN stPhase' = "refused" /\ UNCHANGED <<stNext, stPlan, stSeen>>
           ELSE /\ stPhase' = "begun" /\ stNext' = stNext + 1
                /\ stPlan' = [stPlan EXCEPT ![c] =
                        IF c \in CommandClients THEN stConfig[c] ELSE Registered(stConfig[c])]
                /\ stSeen' = [stSeen EXCEPT ![c] = stConfig[c].others]
        /\ UNCHANGED <<stConfig, stForce, stCommand, stSnapshot, stGuide, stDoctor, stHad, stWrote, stMine, stSaves>>

\* The second loop: a file is written as it was planned, what the client has
\* saved since is lost; a registration made with a command is not replaced.
WritesFile ==
    LET c == Current
    IN  /\ Writing /\ c \notin CommandClients
        /\ stConfig' = [stConfig EXCEPT ![c] = stPlan[c]]
        /\ stWrote' = IF stConfig[c] = stPlan[c] THEN stWrote ELSE stWrote \union {c}
        /\ NextClient
        /\ UNCHANGED <<stForce, stCommand, stPlan, stSnapshot, stGuide, stDoctor, stSeen, stHad, stMine, stSaves>>
Replaces(c) == c \in Snapshotted /\ Status(stPlan[c]) = "stale"
RunsAdd ==
    LET c == Current
    IN  /\ Writing /\ c \in CommandClients /\ ~Replaces(c)
        /\ IF Status(stPlan[c]) = "configured"
           THEN UNCHANGED <<stConfig, stWrote>>
           ELSE /\ stConfig' = [stConfig EXCEPT ![c] = Registered(@)]
                /\ stWrote' = stWrote \union {c}
        /\ NextClient
        /\ UNCHANGED <<stForce, stCommand, stPlan, stSnapshot, stGuide, stDoctor, stSeen, stHad, stMine, stSaves>>

\* configureCLIClient: snapshot, remove, add; the snapshot is put back when the
\* add fails, over what the client has saved in between.
RunsRemove ==
    LET c == Current
    IN  /\ Writing /\ c \in CommandClients /\ Replaces(c)
        /\ stSnapshot' = stConfig[c]
        /\ stConfig' = [stConfig EXCEPT ![c] = Unregistered(@)]
        /\ stWrote' = stWrote \union {c} /\ stPhase' = "removed"
        /\ UNCHANGED <<stNext, stForce, stCommand, stPlan, stGuide, stDoctor, stSeen, stHad, stMine, stSaves>>
RunsAddAgain ==
    LET c == SetupClients[stNext - Len(SetupClients)]
    IN  /\ stPhase = "removed"
        /\ stConfig' = [stConfig EXCEPT ![c].canonical =
                            IF stSnapshot.canonical = "none" THEN "none" ELSE "ours",
                                        ![c].legacy =
                            IF stSnapshot.canonical = "none" THEN "ours" ELSE "none"]
        /\ NextClient
        /\ UNCHANGED <<stForce, stCommand, stPlan, stSnapshot, stGuide, stDoctor, stSeen, stHad, stWrote, stMine, stSaves>>
RestoresSnapshot ==
    LET c == SetupClients[stNext - Len(SetupClients)]
    IN  /\ stPhase = "removed" /\ stPhase' = "failed"
        /\ stConfig' = [stConfig EXCEPT ![c] = stSnapshot]
        /\ UNCHANGED <<stNext, stForce, stCommand, stPlan, stSnapshot, stGuide, stDoctor, stSeen, stHad, stWrote, stMine, stSaves>>

\* A write, a command or a restore fails, or the process dies: what has been
\* written stays.  Between remove and add the registration is lost with it.
SetupStops ==
    /\ stPhase \in {"begun", "removed"}
    /\ stPhase' = IF stPhase = "removed" THEN "killed" ELSE "failed"
    /\ UNCHANGED <<stConfig, stNext, stForce, stCommand, stPlan, stSnapshot, stGuide, stDoctor, stSeen, stHad, stWrote, stMine, stSaves>>

\* The client saves its own file at any time.
ClientSaves(c) ==
    /\ stConfig[c].file = "json" /\ stSaves < MaxSaves /\ stSaves' = stSaves + 1
    /\ stConfig' = [stConfig EXCEPT ![c].others = @ \union {"saved"}]
    /\ UNCHANGED <<stForce, stCommand, stPhase, stNext, stPlan, stSnapshot, stGuide, stDoctor, stSeen, stHad, stWrote, stMine>>

\* doctorClients for named clients, and doctorSemantic's share of the verdict: an unreachable
\* runtime fails only where semantic search is required.
DoctorRuns ==
    /\ stPhase \notin {"begun", "removed"}
    /\ \E required, reachable \in BOOLEAN :
        LET unwell == {c \in Selected : \/ Status(stConfig[c]) # "configured"
                                        \/ c \in CommandClients /\ ~stCommand}
        IN  stDoctor' = IF unwell = {} /\ (required => reachable) THEN "healthy" ELSE "failing"
    /\ UNCHANGED <<stConfig, stForce, stCommand, stPhase, stNext, stPlan, stSnapshot, stGuide, stSeen, stHad, stWrote, stMine, stSaves>>

ClaudeMD ==
    /\ ~Unpaired(stGuide) /\ stGuide' = WithGuidance(stGuide)
    /\ UNCHANGED <<stConfig, stForce, stCommand, stPhase, stNext, stPlan, stSnapshot, stDoctor, stSeen, stHad, stWrote, stMine, stSaves>>

SetupNext ==
    \/ SetupPlans \/ WritesFile \/ RunsAdd \/ RunsRemove \/ RunsAddAgain
    \/ RestoresSnapshot \/ SetupStops \/ DoctorRuns \/ ClaudeMD
    \/ \E c \in Selected : ClientSaves(c)

SetupSpec == SetupInit /\ [][SetupNext]_stVars

-----------------------------------------------------------------------------
(* Properties                                                               *)

\* What setup found beside its own entry is still there, whatever failed; a
\* client that was registered still is, unless setup died between removing and
\* adding; a client that cannot be configured has the whole command refused
\* before another one is written; and the text outside the guidance block is the
\* user's.
UserContentKept ==
    /\ \A c \in Selected : stSeen[c] \subseteq stConfig[c].others
    /\ stPhase \notin {"removed", "killed"} =>
            \A c \in stHad : Status(stConfig[c]) # "not configured"
    /\ stPhase = "refused" => stWrote = {}
    /\ Outside(stGuide) = stMine
=============================================================================
