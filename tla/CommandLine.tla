------------------------------ MODULE CommandLine ------------------------------
(***************************************************************************)
(* The commands of cli/main.py, run by hand, one after the other or at the *)
(* same time, over one working copy, one state database and one set of     *)
(* topics: clone-source, discover, parse-repository (clone, discovery,     *)
(* manifest and the loop over the files), parse-file and replay-file, the  *)
(* last three with Kafka or, by default, as dry runs that write JSON lines.*)
(*                                                                         *)
(* A batch is published whole here and edges go the way of the nodes:      *)
(* ParserRun has the failures of a publication, and the events.            *)
(***************************************************************************)
EXTENDS SourceRepository

CONSTANTS
    Processes,      \* the terminals commands are typed in
    Commands,       \* the command lines in use
    Commits,        \* what upstream's HEAD may be when it is cloned
    Tree,           \* by commit, the files it has
    NoCommit,       \* nothing has been cloned
    NoFile,         \* no file is being processed
    NoPreview,      \* the command is not a replay
    MaxCommands, MaxEdits, MaxFaults    \* bounds

Walking == {"clone-source", "discover", "parse-repository"}

(* The limit of a run is 0 if it is not given or not positive.             *)
ASSUME CommandAssumption ==
    /\ Tree \in [Commits -> [Files -> Contents \cup {Missing}]]
    /\ NoCommit \notin Commits /\ "broken" \notin Commits /\ NoCommit # "broken"
    /\ NoFile \notin Files /\ NoRow \notin Row
    /\ \A c \in Commands :
         /\ c.kind \in Walking \cup {"parse-file", "replay-file"}
         /\ c.writer \in {"kafka", "jsonl"}
         /\ c.kind \in {"parse-file", "replay-file"} => c.file \in Files
         /\ c.kind = "parse-repository" => c.limit \in Nat

VARIABLES
    repository,  \* .git: absent, left half cloned, or at a commit
    disk,        \* the working copy
    store,       \* the table file_state
    log,         \* by writer and file, the batches written
    manifest,    \* by manifest file, its records
    proc,        \* by terminal, the process that runs in it
    typed, edits, faults,  \* how many there were
    contended,   \* history: files processed by two at a time, or abandoned
    dryRows,     \* history: files whose row a dry run committed
    changed,     \* history: processes whose file changed under them
    mixed        \* history: manifests two processes were writing at a time

envVars == <<repository, disk>>
counts == <<typed, edits, faults>>
histVars == <<contended, dryRows, changed, mixed>>
vars == <<envVars, store, log, manifest, proc, counts, histVars>>

Writers == {"kafka", "jsonl"}
NoCommand == [kind |-> "none"]
Idle == [pc |-> "idle", cmd |-> NoCommand, raw |-> << >>, todo |-> << >>, file |-> NoFile,
         content |-> Missing, row |-> NoRow, preview |-> NoPreview, result |-> "none"]
InService == {"read", "load", "publish", "commit"}

Batch(row, g) == [gen |-> g, removed |-> RemovedNodes(row, g)]

(* What a consumer that applies the batches in order is left with.         *)
LiveNodes(f) ==
    LET batches == log["kafka"][f]
    IN {n \in Nodes : \E i \in DOMAIN batches :
          /\ n \in NodesOf(batches[i].gen)
          /\ \A j \in DOMAIN batches : j > i => n \notin batches[j].removed}

(* The manifest of a run: eligible and final share one, which is also where*)
(* discover writes whatever its scope is; other scopes have one each.      *)
ManifestOf(c) ==
    IF c.kind = "discover" \/ c.scope = "eligible" THEN "final" ELSE c.scope
Manifests == {ManifestOf(c) : c \in {c \in Commands : c.kind \in Walking}}

At(p, pc) == proc[p].pc = pc
Cmd(p) == proc[p].cmd

(* The process ends, returning or by an exception.                         *)
Exit(p) == proc' = [proc EXCEPT ![p] = Idle]

Init ==
    /\ repository = NoCommit
    /\ disk = [f \in Files |-> Missing]
    /\ store = [f \in Files |-> NoRow]
    /\ log = [w \in Writers |-> [f \in Files |-> << >>]]
    /\ manifest = [k \in Manifests |-> << >>]
    /\ proc = [p \in Processes |-> Idle]
    /\ typed = 0 /\ edits = 0 /\ faults = 0
    /\ contended = {} /\ dryRows = {} /\ changed = {} /\ mixed = {}
-----------------------------------------------------------------------------
(* A command is typed; the adapters are built, and the output directory is *)
(* emptied if --clean-output says so.                                      *)
Type(p, c) ==
    /\ At(p, "idle")
    /\ typed < MaxCommands
    /\ typed' = typed + 1
    /\ proc' = [proc EXCEPT ![p] =
         [@ EXCEPT !.pc = IF c.kind \in Walking THEN "clone" ELSE "check", !.cmd = c]]
    /\ log' = IF c.writer = "jsonl" /\ c.clean
              THEN [log EXCEPT !["jsonl"] = [f \in Files |-> << >>]] ELSE log
    /\ changed' = changed \ {p}
    /\ UNCHANGED <<envVars, store, manifest, edits, faults,
                   contended, dryRows, mixed>>

(* clone_repository: nothing if there is a .git; else a shallow clone of   *)
(* what HEAD is.  No other commit is in the copy, so that the checkout of  *)
(* a target_commit, whose outcome nobody looks at, changes nothing.        *)
Clone(p) ==
    /\ At(p, "clone")
    /\ IF repository = NoCommit
       THEN \E head \in Commits : repository' = head /\ disk' = Tree[head]
       ELSE UNCHANGED envVars
    /\ proc' = [proc EXCEPT ![p] = [@ EXCEPT !.pc = "walk"]]
    /\ UNCHANGED <<store, log, manifest, counts, histVars>>

(* get_commit_hash raises in a copy whose clone was interrupted.           *)
ListRaw(p) ==
    /\ At(p, "walk")
    /\ IF repository = "broken" \/ Cmd(p).kind = "clone-source" THEN Exit(p)
       ELSE proc' = [proc EXCEPT ![p] =
              [@ EXCEPT !.pc = "select", !.raw = ListPythonFiles(disk)]]
    /\ UNCHANGED <<envVars, store, log, manifest, counts, histVars>>

Writing(k) == {p \in Processes : At(p, "manifest") /\ ManifestOf(Cmd(p)) = k}

Mixes(k) == mixed' = IF Writing(k) = {} THEN mixed \ {k} ELSE mixed \cup {k}

(* Mutant: the file is opened without being emptied.                       *)
OpenManifestKept(k) == UNCHANGED manifest /\ Mixes(k)

OpenManifest(k) == manifest' = [manifest EXCEPT ![k] = << >>] /\ Mixes(k)

(* list_files, the records, and the manifest opened for writing, which     *)
(* empties it.  The files to process are those of the first walk that the  *)
(* second one selected.                                                    *)
Discover(p) ==
    LET name == Cmd(p).scope
        selected == Range(ListFiles(disk, name))
        raw == proc[p].raw
    IN /\ At(p, "select")
       /\ IF \E f \in Range(raw) : disk[f] = Missing
          THEN Exit(p) /\ UNCHANGED <<manifest, mixed>>
          ELSE /\ proc' = [proc EXCEPT ![p] = [@ EXCEPT
                     !.pc = "manifest",
                     !.raw = [i \in DOMAIN raw |->
                         ManifestRecord(raw[i], disk, selected, name, repository)],
                     !.todo = InOrder(Range(raw) \cap selected)]]
               /\ OpenManifest(ManifestOf(Cmd(p)))
       /\ UNCHANGED <<envVars, store, log, counts, contended, dryRows, changed>>

(* discover ends with the manifest; --limit, if positive, cuts a run.      *)
AfterManifest(p) ==
    LET limit == Cmd(p).limit  todo == proc[p].todo
    IN IF Cmd(p).kind = "discover" THEN Exit(p)
       ELSE proc' = [proc EXCEPT ![p] = [@ EXCEPT
              !.pc = "next", !.raw = << >>,
              !.todo = IF limit > 0 THEN Prefix(todo, limit) ELSE todo]]

(* The records are written from the start of the file on, over those that  *)
(* another process may have written since.                                 *)
WriteManifest(p) ==
    LET written == proc[p].raw
    IN /\ At(p, "manifest")
       /\ manifest' = [manifest EXCEPT ![ManifestOf(Cmd(p))] =
                         written \o SubSeq(@, Len(written) + 1, Len(@))]
       /\ AfterManifest(p)
       /\ UNCHANGED <<envVars, store, log, counts, histVars>>

NextFile(p) ==
    /\ At(p, "next")
    /\ IF proc[p].todo = << >> THEN Exit(p)
       ELSE proc' = [proc EXCEPT ![p] = [@ EXCEPT
              !.pc = "read", !.file = Head(proc[p].todo), !.todo = Tail(proc[p].todo),
              !.result = "none"]]
    /\ UNCHANGED <<envVars, store, log, manifest, counts, histVars>>

(* parse-file and replay-file exit if the file, or the commit, is missing. *)
CheckFile(p) ==
    /\ At(p, "check")
    /\ IF disk[Cmd(p).file] = Missing \/ repository = "broken" THEN Exit(p)
       ELSE proc' = [proc EXCEPT ![p] = [@ EXCEPT
              !.pc = IF Cmd(p).kind = "replay-file" THEN "preview" ELSE "read",
              !.file = Cmd(p).file]]
    /\ UNCHANGED <<envVars, store, log, manifest, counts, histVars>>

(* What a replay will report: it reads the row and the file for itself,    *)
(* and parses; a file that does not parse has no counts, one that cannot   *)
(* be read ends the command.                                               *)
Counts(row, c) ==
    IF c \in Unparsable THEN <<0, 0>>
    ELSE <<Cardinality(RemovedNodes(row, <<c, 1>>)), Len(ParsedNodes[<<c, 1>>])>>

(* Mutant: the difference is taken to nothing.                             *)
PreviewAfresh(p) ==
    /\ At(p, "preview")
    /\ IF disk[proc[p].file] = Missing THEN Exit(p)
       ELSE proc' = [proc EXCEPT ![p] =
              [@ EXCEPT !.pc = "read", !.preview = Counts(NoRow, disk[proc[p].file])]]
    /\ UNCHANGED <<envVars, store, log, manifest, counts, histVars>>

Preview(p) ==
    /\ At(p, "preview")
    /\ LET f == proc[p].file
       IN IF disk[f] = Missing THEN Exit(p)
          ELSE proc' = [proc EXCEPT ![p] =
                 [@ EXCEPT !.pc = "read", !.preview = Counts(store[f], disk[f])]]
    /\ UNCHANGED <<envVars, store, log, manifest, counts, histVars>>

-----------------------------------------------------------------------------
(* execute returns: a loop goes on, a command reports and exits.           *)
Done(p, result) ==
    IF Cmd(p).kind = "parse-repository"
    THEN proc' = [proc EXCEPT ![p] = [@ EXCEPT
           !.pc = "next", !.file = NoFile, !.content = Missing, !.row = NoRow,
           !.result = result]]
    ELSE proc' = [proc EXCEPT ![p] = [@ EXCEPT !.pc = "report", !.result = result]]

ReadFile(p) ==
    /\ At(p, "read")
    /\ IF disk[proc[p].file] = Missing THEN Done(p, "FAILED")
       ELSE proc' = [proc EXCEPT ![p] =
              [@ EXCEPT !.pc = "load", !.content = disk[proc[p].file]]]
    /\ UNCHANGED <<envVars, store, log, manifest, counts, histVars>>

Skips(p, row) == Unchanged(row, <<proc[p].content, 1>>)

(* The row is loaded, a file that has not changed is skipped, the others   *)
(* are parsed and compared with it.                                        *)
LoadRow(p) ==
    LET f == proc[p].file
        row == store[f]
        others == {q \in Processes \ {p} :
                     proc[q].file = f /\ proc[q].pc \in {"publish", "commit"}}
    IN /\ At(p, "load")
       /\ \/ Skips(p, row) /\ Done(p, "SKIPPED_UNCHANGED")
          \/ ~ Skips(p, row) /\ proc[p].content \in Unparsable /\ Done(p, "FAILED")
          \/ ~ Skips(p, row) /\ proc[p].content \notin Unparsable
                             /\ proc' = [proc EXCEPT ![p] =
                                            [@ EXCEPT !.pc = "publish", !.row = row]]
       /\ contended' = contended \cup (IF others = {} THEN {} ELSE {f})
       /\ UNCHANGED <<envVars, store, log, manifest, counts, dryRows, changed, mixed>>

Publish(p) ==
    LET f == proc[p].file
    IN /\ At(p, "publish")
       /\ log' = [log EXCEPT ![Cmd(p).writer][f] =
                    Append(@, Batch(proc[p].row, <<proc[p].content, 1>>))]
       /\ proc' = [proc EXCEPT ![p] = [@ EXCEPT !.pc = "commit"]]
       /\ UNCHANGED <<envVars, store, manifest, counts, histVars>>

Commit(p) ==
    LET f == proc[p].file
    IN /\ At(p, "commit")
       /\ store' = [store EXCEPT ![f] = RowFor(<<proc[p].content, 1>>)]
       /\ dryRows' = dryRows \cup (IF Cmd(p).writer = "jsonl" THEN {f} ELSE {})
       /\ changed' = changed \cup {q \in Processes \ {p} : proc[q].file = f}
       /\ Done(p, "SUCCESS")
       /\ UNCHANGED <<envVars, log, manifest, counts, contended, mixed>>

Report(p) ==
    /\ At(p, "report")
    /\ Exit(p)
    /\ UNCHANGED <<envVars, store, log, manifest, counts, histVars>>

-----------------------------------------------------------------------------
Edit(f, c) ==
    /\ repository \in Commits
    /\ edits < MaxEdits
    /\ edits' = edits + 1
    /\ c # disk[f]
    /\ disk' = [disk EXCEPT ![f] = c]
    /\ changed' = changed \cup {q \in Processes : proc[q].file = f}
    /\ UNCHANGED <<repository, store, log, manifest, proc, typed, faults,
                   contended, dryRows, mixed>>

(* A process is killed.  A batch it has published is never committed, and  *)
(* a clone it was making stays behind half made.                           *)
Kill(p) ==
    /\ ~ At(p, "idle")
    /\ faults < MaxFaults
    /\ faults' = faults + 1
    /\ Exit(p)
    /\ repository' = IF At(p, "clone") /\ repository = NoCommit THEN "broken" ELSE repository
    /\ contended' = contended \cup (IF At(p, "commit") THEN {proc[p].file} ELSE {})
    /\ UNCHANGED <<disk, store, log, manifest, typed, edits, dryRows, changed, mixed>>

Proceed(p) ==
    \/ Clone(p) \/ ListRaw(p) \/ Discover(p) \/ WriteManifest(p) \/ NextFile(p)
    \/ CheckFile(p) \/ Preview(p)
    \/ ReadFile(p) \/ LoadRow(p) \/ Publish(p) \/ Commit(p) \/ Report(p)

Next ==
    \/ \E p \in Processes : Proceed(p) \/ Kill(p) \/ \E c \in Commands : Type(p, c)
    \/ \E f \in Files, c \in Contents \cup {Missing} : Edit(f, c)

Spec == Init /\ [][Next]_vars
-----------------------------------------------------------------------------
(* RunStaysInScope: whatever appears and vanishes between the two walks    *)
(* and the reads, a run takes up no file that a rule of its scope, or of   *)
(* one it extends, excludes, and no more files than max_files and --limit. *)
Rules[name \in DOMAIN Filters] ==
    Key(Filters[name], "exclude", << >>)
      \o (IF "extends" \in DOMAIN Filters[name] THEN Rules[Filters[name].extends] ELSE << >>)

RunStaysInScope ==
    \A p \in Processes :
        /\ proc[p].pc \in {"next"} \cup InService
        /\ Cmd(p).kind = "parse-repository" /\ Cmd(p).scope \in DOMAIN Filters
        =>  LET scope == Filters[Cmd(p).scope]
                running == Range(proc[p].todo) \cup ({proc[p].file} \ {NoFile})
            IN /\ \A f \in running : \A i \in DOMAIN Rules[Cmd(p).scope] :
                    f \notin Rules[Cmd(p).scope][i].paths
               /\ "max_files" \in DOMAIN scope => Cardinality(running) <= scope.max_files
               /\ Cmd(p).limit > 0 => Cardinality(running) <= Cmd(p).limit

(* ManifestIsOfOneRun: a manifest that no two discoveries were writing at  *)
(* a time describes one discovery of the copy there is: every file once,   *)
(* of one scope, at the commit the copy is at.                             *)
ManifestIsOfOneRun ==
    \A k \in Manifests : \A i, j \in DOMAIN manifest[k] :
        LET r == manifest[k][i]  s == manifest[k][j]
        IN /\ r.commit = repository
           /\ i < j /\ k \notin mixed => r.path < s.path /\ r.scope = s.scope

(* SequentialIsExact: files no two processes worked on at a time, and whose*)
(* publications were all committed with Kafka as the writer, have in the   *)
(* topics what their row says, whatever commands came in between.          *)
SequentialIsExact ==
    \A f \in Files \ (contended \cup dryRows) :
        (\A p \in Processes : proc[p].file = f => ~ At(p, "commit"))
            => LiveNodes(f) = RowNodes(store[f])

(* PreviewIsPublished: a replay that succeeds, and whose file and row no   *)
(* one else changed meanwhile, reports what it wrote.                      *)
PreviewIsPublished ==
    \A p \in Processes :
        /\ At(p, "report") /\ proc[p].preview # NoPreview
        /\ proc[p].result = "SUCCESS" /\ p \notin changed
        => LET batch == Batch(proc[p].row, <<proc[p].content, 1>>)
           IN proc[p].preview = <<Cardinality(batch.removed), Len(ParsedNodes[batch.gen])>>

(* PublishingRunsPublish: what a command with Kafka skips is in Kafka.     *)
PublishingRunsPublish ==
    [][\A p \in Processes :
         At(p, "load") /\ proc'[p].result = "SKIPPED_UNCHANGED"
           /\ proc'[p].pc # "load" /\ Cmd(p).writer = "kafka"
         => \E i \in DOMAIN log["kafka"][proc[p].file] :
                log["kafka"][proc[p].file][i].gen = <<proc[p].content, 1>>]_vars
=============================================================================
