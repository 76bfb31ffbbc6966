------------------------------ MODULE Migration ------------------------------
(***************************************************************************)
(* Which store a process keeps its sessions in: initSessionStore             *)
(* (pkg/agent/instance.go) imports the files of the legacy SessionManager    *)
(* (pkg/session/manager.go) into the JSONL store (memory/migration.go), and  *)
(* falls back to the SessionManager when that fails.  Processes end at any   *)
(* moment and start again on the same directory.                             *)
(*                                                                          *)
(* A history is the set of its messages; the JSONL store is SessionStore,    *)
(* whose SetHistory replaces it in one step.  What a session holds when the  *)
(* first process starts is its message Old.                                  *)
(***************************************************************************)
EXTENDS Naturals, Sequences, FiniteSets, SequencesExt

CONSTANTS
    SessionKeys, \* sessions, each with a file of its own
    Chatter,     \* messages of the conversations
    Old,         \* what the legacy file of a session holds at first
    MaxStarts,   \* bound: processes
    MaxIOErrors  \* bound: writes and renames that fail

ASSUME MigrationAssumption ==
    /\ IsFiniteSet(SessionKeys) /\ Old \notin Chatter
    /\ MaxStarts \in Nat \ {0} /\ MaxIOErrors \in Nat

VARIABLES
    json,     \* session -> its legacy file, {} if there is none
    backup,   \* session -> its file .json.migrated
    jsonl,    \* session -> its history in the JSONL store
    meta,     \* sessions with a metadata file of the JSONL store
    backend,  \* what the process does: down, migrating, jsonl or json
    todo,     \* the legacy files still to be imported
    step,     \* where the import of the first of them is
    sessions, \* session -> its messages in the memory of the SessionManager
    starts, ioErrors, \* what is left of the bounds
    said,     \* history: session -> the messages the store has acknowledged
    unsaved   \* history: session -> messages since its last Save, SessionManager

diskVars == <<json, backup, jsonl, meta>>
migrationVars == <<diskVars, backend, todo, step, sessions, starts, ioErrors, said, unsaved>>

NoFile == {}
Empty == [k \in SessionKeys |-> {}]

MigrationInit ==
    /\ json = [k \in SessionKeys |-> {Old}]
    /\ backup = Empty /\ jsonl = Empty /\ meta = {}
    /\ backend = "down" /\ todo = <<>> /\ step = "history"
    /\ sessions = Empty /\ starts = 0 /\ ioErrors = 0
    /\ said = [k \in SessionKeys |-> {Old}] /\ unsaved = Empty

IOError == ioErrors < MaxIOErrors /\ ioErrors' = ioErrors + 1

-------------------------------------------------------------------------------
(* MigrateFromJSON, file by file in the order of the directory *)

\* The files that are imported.  Faulty variant: those of the metadata, which
\* hold no messages, too.
JSONFiles == {k \in SessionKeys : json[k] # NoFile \/ k \in meta}
LegacyFiles == {k \in SessionKeys : json[k] # NoFile}

StartProcess ==
    /\ backend = "down" /\ starts < MaxStarts
    /\ starts' = starts + 1
    /\ backend' = "migrating" /\ step' = "history"
    /\ todo' \in SetToSeqs(LegacyFiles)
    /\ UNCHANGED <<diskVars, sessions, ioErrors, said, unsaved>>

\* loadSessions: the file of the metadata, which has the key and no messages,
\* comes after the legacy file of the same session and takes its place.
Loaded == [k \in SessionKeys |-> IF k \in meta' THEN {} ELSE json[k]]

FallBack ==
    /\ backend' = "json" /\ todo' = <<>> /\ step' = "history"
    /\ sessions' = Loaded

ImportUnchanged == UNCHANGED <<starts, said, unsaved>>

\* SetHistory replaces what the session has, so that an import can be repeated.
\* It writes the metadata first.
ImportHistory ==
    /\ backend = "migrating" /\ todo # <<>> /\ step = "history"
    /\ \/ /\ jsonl' = [jsonl EXCEPT ![Head(todo)] = json[Head(todo)]]
          /\ meta' = meta \cup {Head(todo)}
          /\ step' = "summary"
          /\ UNCHANGED <<backend, todo, sessions, ioErrors>>
       \/ IOError /\ UNCHANGED jsonl /\ meta' \in {meta, meta \cup {Head(todo)}} /\ FallBack
    /\ ImportUnchanged /\ UNCHANGED <<json, backup>>

ImportSummary ==
    /\ backend = "migrating" /\ step = "summary"
    /\ UNCHANGED diskVars
    /\ \/ step' = "rename" /\ UNCHANGED <<backend, todo, sessions, ioErrors>>
       \/ IOError /\ FallBack
    /\ ImportUnchanged

\* The rename replaces an older backup; its failure is logged only.
RenameLegacy ==
    /\ backend = "migrating" /\ step = "rename"
    /\ \/ /\ backup' = [backup EXCEPT ![Head(todo)] = json[Head(todo)]]
          /\ json' = [json EXCEPT ![Head(todo)] = NoFile]
          /\ UNCHANGED ioErrors
       \/ IOError /\ UNCHANGED <<json, backup>>
    /\ todo' = Tail(todo) /\ step' = "history"
    /\ ImportUnchanged /\ UNCHANGED <<jsonl, meta, backend, sessions>>

MigrationDone ==
    /\ backend = "migrating" /\ todo = <<>> /\ backend' = "jsonl"
    /\ ImportUnchanged /\ UNCHANGED <<diskVars, todo, step, sessions, ioErrors>>

-------------------------------------------------------------------------------
(* The conversations go on *)

\* AddFullMessage of either store; JSONL is durable at once.
AddFullMessage(k, m) ==
    /\ \A i \in SessionKeys : m \notin said[i] \cup unsaved[i]
    /\ \/ /\ backend = "jsonl"
          /\ jsonl' = [jsonl EXCEPT ![k] = @ \cup {m}] /\ meta' = meta \cup {k}
          /\ said' = [said EXCEPT ![k] = @ \cup {m}]
          /\ UNCHANGED <<sessions, unsaved>>
       \/ /\ backend = "json"
          /\ sessions' = [sessions EXCEPT ![k] = @ \cup {m}]
          /\ unsaved' = [unsaved EXCEPT ![k] = @ \cup {m}]
          /\ UNCHANGED <<jsonl, meta, said>>
    /\ UNCHANGED <<json, backup, backend, todo, step, starts, ioErrors>>

\* Save of the SessionManager replaces the file by what is in memory.
SaveSession(k) ==
    /\ backend = "json" /\ unsaved[k] # {}
    /\ json' = [json EXCEPT ![k] = sessions[k]]
    /\ said' = [said EXCEPT ![k] = @ \cup unsaved[k]]
    /\ unsaved' = [unsaved EXCEPT ![k] = {}]
    /\ UNCHANGED <<backup, jsonl, meta, backend, todo, step, sessions, starts, ioErrors>>

\* The process ends, by a crash or in order.
EndProcess ==
    /\ backend # "down" /\ backend' = "down"
    /\ todo' = <<>> /\ step' = "history" /\ sessions' = Empty /\ unsaved' = Empty
    /\ UNCHANGED <<diskVars, starts, ioErrors, said>>

MigrationNext ==
    \/ StartProcess \/ EndProcess
    \/ ImportHistory \/ ImportSummary \/ RenameLegacy \/ MigrationDone
    \/ \E k \in SessionKeys : SaveSession(k) \/ \E m \in Chatter : AddFullMessage(k, m)

MigrationSpec == MigrationInit /\ [][MigrationNext]_migrationVars

-------------------------------------------------------------------------------
(* Properties *)

Histories == SUBSET (Chatter \cup {Old})

MigrationTypeOK ==
    /\ json \in [SessionKeys -> Histories] /\ backup \in [SessionKeys -> Histories]
    /\ meta \subseteq SessionKeys
    /\ jsonl \in [SessionKeys -> Histories] /\ sessions \in [SessionKeys -> Histories]
    /\ said \in [SessionKeys -> Histories] /\ unsaved \in [SessionKeys -> SUBSET Chatter]
    /\ backend \in {"down", "migrating", "jsonl", "json"}
    /\ step \in {"history", "summary", "rename"}
    /\ IsInjective(todo) /\ ToSet(todo) \subseteq SessionKeys
    /\ starts \in 0..MaxStarts /\ ioErrors \in 0..MaxIOErrors

\* What the running store shows of a session.
HistoryOf(k) == IF backend = "json" THEN sessions[k] ELSE jsonl[k]

\* However often the process ends, in the middle of an import too, the store
\* that is opened shows everything it has acknowledged, and imports nothing
\* twice, as long as no write fails ("making the function idempotent").
ImportSurvivesCrashes ==
    ioErrors = 0 => /\ backend = "jsonl" => \A k \in SessionKeys : HistoryOf(k) = said[k]
                    /\ \A k \in SessionKeys : said[k] \subseteq json[k] \cup jsonl[k]
===============================================================================
