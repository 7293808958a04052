------------------------------ MODULE Process ------------------------------
(***************************************************************************)
(* The server process from its start to its end (main.c, config_file.c,    *)
(* init_ssl_al, game_init): the configuration file is read line by line    *)
(* over the defaults, the parts of the server take what they need from it  *)
(* and it is freed; each step may fail; the main loop ends by SIGINT or by *)
(* an error; the parts are freed again, from wherever the start got to.    *)
(* The main loop itself is Connections and Game.                           *)
(***************************************************************************)
EXTENDS Naturals, Sequences

CONSTANTS
    Files,  \* the contents of the configuration file: sequences of lines
    None    \* a pointer that is NULL, a setting that was not made

(***************************************************************************)
(* The settings of one kind behave alike; these stand for the 33 of        *)
(* config_t.  LOG_FILE_PATH points to a string on the heap, which is named *)
(* after the line that it was copied from: 0 is the default "log.txt".     *)
(***************************************************************************)
Defaults ==
    [INITIAL_LIFE_UNITS |-> 10, LIFE_UNIT_TO_TIME |-> 126, DENSITY_NOURRITURE |-> 100,
     DELAY_AVANCE |-> 7, DELAY_INCANTATION |-> 300, SPAWN_MORE_RESOURCES |-> 1,
     SPAWN_MORE_RESOURCES_TIME |-> 100, SPAWN_MORE_RESOURCES_NOURRITURE |-> 50, LOG_LEVEL |-> 2,
     LOG_FILE_PATH |-> 0]

Keys == DOMAIN Defaults

(***************************************************************************)
(* A line (or what fgets returns of a long one): its key and what atoi,    *)
(* strtod (in hundredths) or the test for y, Y and 1 make of its value.    *)
(* Comments, empty lines and lines without = have the key "#".             *)
(***************************************************************************)
Lines == [key : STRING, val : Nat]

ASSUME ProcessAssumption ==
    /\ Files \subseteq Seq(Lines)
    /\ None \notin [Keys -> Nat]

VARIABLES
    stage,     \* where main is
    file,      \* the configuration file
    line,      \* the number of the next line
    config,    \* m_config_content
    strings,   \* the strings on the heap that LOG_FILE_PATH points to or pointed to
    held,      \* what is allocated or open: log, ctx, table, socket, time, game
    settings,  \* what log_init and game_init took from the configuration; the log keeps
               \* the pointer to its path
    rc         \* what main will return

vars == <<stage, file, line, config, strings, held, settings, rc>>

Init ==
    /\ stage = "parse_config"
    /\ file \in Files
    /\ line = 1
    /\ config = None
    /\ strings = {}
    /\ held = {}
    /\ settings = [k \in Keys |-> None]
    /\ rc = 0

At(here, there) == stage = here /\ stage' = there

----------------------------------------------------------------------------
(* Configuration *)

\* parse_config until its loop: the defaults, then fopen, which may fail.
parse_config ==
    /\ \E there \in {"read", "error"} : At("parse_config", there)
    /\ config' = Defaults
    /\ strings' = strings \cup {Defaults["LOG_FILE_PATH"]}
    /\ UNCHANGED <<file, line, held, settings, rc>>

\* Mutant: a key that occurs twice keeps its first value.
FirstWins(conf, key, val) ==
    IF key \in Keys /\ conf[key] = Defaults[key] THEN [conf EXCEPT ![key] = val] ELSE conf

\* The chain of comparisons with the keys; unknown ones are passed over.
SetKey(conf, key, val) ==
    IF key \in Keys THEN [conf EXCEPT ![key] = val] ELSE conf

\* What line i gives its key: its value, or the copy of its text.
Given(i) == IF file[i].key = "LOG_FILE_PATH" THEN i ELSE file[i].val

\* The former path is freed before the new one is copied.
ReadsLine ==
    /\ At("read", "read")
    /\ line <= Len(file)
    /\ config' = SetKey(config, file[line].key, Given(line))
    /\ strings' = IF file[line].key = "LOG_FILE_PATH"
                  THEN (strings \ {config["LOG_FILE_PATH"]}) \cup {line}
                  ELSE strings
    /\ line' = line + 1
    /\ UNCHANGED <<file, held, settings, rc>>

EndOfFile ==
    /\ At("read", "log_init")
    /\ line > Len(file)
    /\ UNCHANGED <<file, line, config, strings, held, settings, rc>>

\* The parse_set functions but that of the log leave their argument alone when there is no
\* configuration; the log always has one.
Taken(keys) ==
    [k \in Keys |-> IF k \in keys /\ config # None THEN config[k] ELSE settings[k]]

LogKeys == {"LOG_LEVEL", "LOG_FILE_PATH"}

\* main ignores that the log could not be opened.
log_init ==
    /\ At("log_init", "parse_args")
    /\ settings' = Taken(LogKeys)
    /\ held' \in {held, held \cup {"log"}}
    /\ UNCHANGED <<file, line, config, strings, rc>>

\* Without an argument, the usage and exit; parse_args returns at once.
parse_args ==
    /\ \E there \in {"init_server", "exited"} : At("parse_args", there)
    /\ UNCHANGED <<file, line, config, strings, held, settings, rc>>

----------------------------------------------------------------------------
(* Start *)

(***************************************************************************)
(* init_ssl_al: the context, the certificate and the key, the table, the   *)
(* socket; a failure leaves what was made before it.                       *)
(***************************************************************************)
init_server ==
    /\ \/ /\ At("init_server", "time_api_init_local")
          /\ held' = held \cup {"ctx", "table", "socket"}
       \/ /\ At("init_server", "error")
          /\ \E made \in {{}, {"ctx"}, {"ctx", "table"}} : held' = held \cup made
    /\ UNCHANGED <<file, line, config, strings, settings, rc>>

time_api_init_local ==
    /\ \/ At("time_api_init_local", "game_init") /\ held' = held \cup {"time"}
       \/ At("time_api_init_local", "error") /\ UNCHANGED held
    /\ UNCHANGED <<file, line, config, strings, settings, rc>>

GameKeys == Keys \ LogKeys

game_init ==
    /\ At("game_init", "parse_free_config")
    /\ held' = held \cup {"game"}
    /\ settings' = Taken(GameKeys)
    /\ UNCHANGED <<file, line, config, strings, rc>>

\* The structure is freed, the string of its LOG_FILE_PATH is not.
parse_free_config ==
    /\ At("parse_free_config", "main_loop")
    /\ config' = None
    /\ UNCHANGED <<file, line, strings, held, settings, rc>>

----------------------------------------------------------------------------
(* Running and end *)

\* The loop ends when SIGINT has set m_die, or when server_select fails.
main_loop ==
    /\ At("main_loop", "game_clean")
    /\ UNCHANGED <<file, line, config, strings, held, settings, rc>>

\* The label error: parse_free_config, and the clean-up of main_loop.
Error ==
    /\ At("error", "game_clean")
    /\ rc' = 1
    /\ config' = None
    /\ UNCHANGED <<file, line, strings, held, settings>>

game_clean ==
    /\ At("game_clean", "time_api_free")
    /\ held' = held \ {"game"}
    /\ UNCHANGED <<file, line, config, strings, settings, rc>>

time_api_free ==
    /\ At("time_api_free", "cleanup_server")
    /\ held' = held \ {"time"}
    /\ UNCHANGED <<file, line, config, strings, settings, rc>>

\* Mutant: only what the watched descriptors need is cleaned up.
CleanupWatched(parts) == IF "socket" \in parts THEN parts \ {"socket", "ctx", "table"} ELSE parts

(***************************************************************************)
(* cleanup_server removes the watched descriptors, among them the listening*)
(* socket, and calls cleanup_ssl_al and ssl_table_free.                    *)
(***************************************************************************)
Cleanup(parts) == parts \ {"socket", "ctx", "table"}

cleanup_server ==
    /\ At("cleanup_server", "return")
    /\ held' = Cleanup(held)
    /\ UNCHANGED <<file, line, config, strings, settings, rc>>

\* The log is closed on the way from main_loop and not on the one from the error label.
Returns ==
    /\ At("return", "returned")
    /\ held' = IF rc = 0 THEN held \ {"log"} ELSE held
    /\ UNCHANGED <<file, line, config, strings, settings, rc>>

Next ==
    \/ parse_config \/ ReadsLine \/ EndOfFile \/ log_init \/ parse_args
    \/ init_server \/ time_api_init_local \/ game_init \/ parse_free_config
    \/ main_loop \/ Error
    \/ game_clean \/ time_api_free \/ cleanup_server \/ Returns

Spec == Init /\ [][Next]_vars

----------------------------------------------------------------------------
(* Properties *)

(***************************************************************************)
(* The server runs with the settings of its file: for every key the last   *)
(* line that has it, or the default.  Whatever reads the configuration     *)
(* does so after the file was read and before the configuration is freed;  *)
(* the path that the log has taken from it outlives it.                    *)
(***************************************************************************)
LinesOf(key) == {i \in DOMAIN file : file[i].key = key}

ConfigInEffect ==
    stage = "main_loop" =>
        /\ \A k \in Keys :
              \/ LinesOf(k) = {} /\ settings[k] = Defaults[k]
              \/ \E i \in LinesOf(k) : /\ \A j \in LinesOf(k) : j <= i
                                      /\ settings[k] = Given(i)
        /\ settings["LOG_FILE_PATH"] \in strings

(***************************************************************************)
(* Whichever step of the start failed, and after a run, main returns with  *)
(* all parts freed and closed, but for the log after a failure and one     *)
(* string: the path that was in force, which nothing frees, however many   *)
(* lines set it.                                                           *)
(***************************************************************************)
Released ==
    stage = "returned" =>
        /\ config = None
        /\ held \subseteq (IF rc = 0 THEN {} ELSE {"log"})
        /\ \A s, t \in strings : s = t

=============================================================================
