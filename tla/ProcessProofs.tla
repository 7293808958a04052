--------------------------- MODULE ProcessProofs ---------------------------
(***************************************************************************)
(* The properties of Process, for every set of configuration files.        *)
(***************************************************************************)
EXTENDS Process, TLAPS

\* What line i of f gives its key: Given, for any file.
GivenBy(f, i) == IF f[i].key = "LOG_FILE_PATH" THEN i ELSE f[i].val

(***************************************************************************)
(* conf has, for every key, the value of its last line among the first n   *)
(* lines of f, or the default when none of these lines has the key.        *)
(***************************************************************************)
InForce(conf, f, n) ==
    \A k \in Keys :
        \/ conf[k] = Defaults[k] /\ \A i \in 1 .. n : f[i].key # k
        \/ \E i \in 1 .. n : /\ f[i].key = k /\ conf[k] = GivenBy(f, i)
                             /\ \A j \in i + 1 .. n : f[j].key # k

\* The steps of main in which the whole file has been read into config.
Configured == {"log_init", "parse_args", "init_server", "time_api_init_local", "game_init"}

\* The configuration on its way: into config, from there to settings.
ConfigInv ==
    /\ file \in Seq(Lines)
    /\ line \in 1 .. Len(file) + 1
    /\ stage = "parse_config" => line = 1
    /\ stage \in {"read"} \cup Configured => config \in [Keys -> Nat]
    /\ stage = "read" => InForce(config, file, line - 1)
    /\ stage \in Configured => InForce(config, file, Len(file))
    /\ stage \in Configured \ {"log_init"} =>
          \A k \in LogKeys : settings[k] = config[k]
    /\ stage \in {"parse_free_config", "main_loop"} => InForce(settings, file, Len(file))

(***************************************************************************)
(* One path is on the heap at a time: that of config, then that which the  *)
(* log has taken from it, and at the end one that nothing points to.       *)
(***************************************************************************)
StringsInv ==
    /\ stage = "parse_config" => strings = {}
    /\ stage \in {"read"} \cup Configured => strings = {config["LOG_FILE_PATH"]}
    /\ stage \in {"parse_free_config", "main_loop"} => strings = {settings["LOG_FILE_PATH"]}
    /\ \A s, t \in strings : s = t

\* What may still be held, or must have been given back, at each step of the end.
HeldInv ==
    /\ rc \in {0, 1}
    /\ stage \in {"main_loop", "game_clean", "time_api_free", "cleanup_server", "return",
                  "returned"} => config = None
    /\ held \subseteq {"log", "ctx", "table", "socket", "time", "game"}
    /\ stage \in {"time_api_free", "cleanup_server", "return", "returned"} => "game" \notin held
    /\ stage \in {"cleanup_server", "return", "returned"} => "time" \notin held
    /\ stage \in {"return", "returned"} => held \subseteq {"log"}
    /\ stage = "returned" /\ rc = 0 => held = {}

\* The defaults are numbers, and what the log takes is among them.
LEMMA DefaultsAreNumbers ==
    Defaults \in [Keys -> Nat] /\ LogKeys \subseteq Keys
<1>1. Keys = {"INITIAL_LIFE_UNITS", "LIFE_UNIT_TO_TIME", "DENSITY_NOURRITURE", "DELAY_AVANCE",
              "DELAY_INCANTATION", "SPAWN_MORE_RESOURCES", "SPAWN_MORE_RESOURCES_TIME",
              "SPAWN_MORE_RESOURCES_NOURRITURE", "LOG_LEVEL", "LOG_FILE_PATH"}
  BY DEF Defaults, Keys
<1>2. \A k \in Keys : Defaults[k] \in Nat
  BY <1>1 DEF Defaults
<1>3. Defaults = [k \in Keys |-> Defaults[k]]
  BY <1>1 DEF Defaults
<1> QED
  BY <1>1, <1>2, <1>3 DEF LogKeys

\* One more line of the file is in force once SetKey has applied it.
LEMMA SetKeyInForce ==
  ASSUME NEW f \in Seq(Lines), NEW n \in 1 .. Len(f),
         NEW conf \in [Keys -> Nat], InForce(conf, f, n - 1)
  PROVE  LET new == SetKey(conf, f[n].key, GivenBy(f, n))
         IN  new \in [Keys -> Nat] /\ InForce(new, f, n)
<1> DEFINE new == SetKey(conf, f[n].key, GivenBy(f, n))
<1>1. f[n] \in Lines
  OBVIOUS
<1>2. GivenBy(f, n) \in Nat
  BY <1>1 DEF Lines, GivenBy
<1>3. new \in [Keys -> Nat]
  BY <1>2 DEF SetKey
<1>4. \A k \in Keys : new[k] = IF k = f[n].key THEN GivenBy(f, n) ELSE conf[k]
  BY DEF SetKey
<1> HIDE DEF new
<1>5. InForce(new, f, n)
  <2> SUFFICES ASSUME NEW k \in Keys
               PROVE  \/ new[k] = Defaults[k] /\ \A i \in 1 .. n : f[i].key # k
                      \/ \E i \in 1 .. n : /\ f[i].key = k /\ new[k] = GivenBy(f, i)
                                           /\ \A j \in i + 1 .. n : f[j].key # k
    BY DEF InForce
  <2>1. CASE k = f[n].key
    BY <2>1, <1>4
  <2>2. CASE k # f[n].key
    <3>1. new[k] = conf[k]
      BY <2>2, <1>4
    <3>2. CASE conf[k] = Defaults[k] /\ \A i \in 1 .. n - 1 : f[i].key # k
      BY <2>2, <3>1, <3>2
    <3>3. CASE \E i \in 1 .. n - 1 : /\ f[i].key = k /\ conf[k] = GivenBy(f, i)
                                     /\ \A j \in i + 1 .. n - 1 : f[j].key # k
      BY <2>2, <3>1, <3>3
    <3> QED
      BY <3>2, <3>3 DEF InForce
  <2> QED
    BY <2>1, <2>2
<1> QED
  BY <1>3, <1>5 DEF new

LEMMA InitInv == Init => ConfigInv /\ StringsInv /\ HeldInv
BY ProcessAssumption DEF Init, ConfigInv, StringsInv, HeldInv, Configured

\* Reading, taking and freeing the configuration keep it in force.
LEMMA NextConfigInv == ConfigInv /\ [Next]_vars => ConfigInv'
<1> SUFFICES ASSUME ConfigInv, [Next]_vars PROVE ConfigInv'
  OBVIOUS
<1> USE DEF At
<1>0. /\ file \in Seq(Lines) /\ Len(file) \in Nat /\ line \in 1 .. Len(file) + 1
      /\ Defaults \in [Keys -> Nat] /\ LogKeys \subseteq Keys
  BY DefaultsAreNumbers DEF ConfigInv
<1>1. CASE parse_config
  <2>1. InForce(Defaults, file, 0)
    BY DEF InForce
  <2> QED
    BY <1>0, <1>1, <2>1 DEF parse_config, ConfigInv, Configured
<1>2. CASE ReadsLine
  <2>1. /\ line \in 1 .. Len(file)
        /\ config \in [Keys -> Nat]
        /\ InForce(config, file, line - 1)
        /\ config' = SetKey(config, file[line].key, GivenBy(file, line))
        /\ line' = line + 1 /\ UNCHANGED file
    BY <1>0, <1>2 DEF ReadsLine, ConfigInv, Given, GivenBy
  <2>2. config' \in [Keys -> Nat] /\ InForce(config', file, line)
    BY <1>0, <2>1, SetKeyInForce
  <2>3. line' - 1 = line
    BY <2>1
  <2> QED
    BY <1>0, <1>2, <2>1, <2>2, <2>3 DEF ReadsLine, ConfigInv, Configured
<1>3. CASE EndOfFile
  <2>1. line - 1 = Len(file)
    BY <1>0, <1>3 DEF EndOfFile
  <2> QED
    BY <1>0, <1>3, <2>1 DEF EndOfFile, ConfigInv, Configured
<1>4. CASE log_init
  <2>1. config # None
    BY <1>4, ProcessAssumption DEF log_init, ConfigInv, Configured
  <2>2. \A k \in LogKeys : settings'[k] = config[k]
    BY <1>0, <1>4, <2>1 DEF log_init, Taken
  <2> QED
    BY <1>0, <1>4, <2>2 DEF log_init, ConfigInv, Configured
<1>5. CASE game_init
  <2>1. config # None /\ \A k \in LogKeys : settings[k] = config[k]
    BY <1>5, ProcessAssumption DEF game_init, ConfigInv, Configured
  <2>2. \A k \in Keys : settings'[k] = config[k]
    BY <1>0, <1>5, <2>1 DEF game_init, Taken, GameKeys
  <2>3. InForce(settings', file, Len(file))
    BY <1>5, <2>2 DEF game_init, ConfigInv, Configured, InForce
  <2> QED
    BY <1>0, <1>5, <2>3 DEF game_init, ConfigInv, Configured
<1>6. CASE parse_args \/ init_server \/ time_api_init_local
  BY <1>0, <1>6 DEF parse_args, init_server, time_api_init_local, ConfigInv, Configured
<1>7. CASE parse_free_config \/ main_loop \/ Error
  BY <1>0, <1>7 DEF parse_free_config, main_loop, Error, ConfigInv, Configured
<1>8. CASE game_clean \/ time_api_free \/ cleanup_server \/ Returns
  BY <1>0, <1>8 DEF game_clean, time_api_free, cleanup_server, Returns, ConfigInv, Configured
<1>9. CASE UNCHANGED vars
  BY <1>9 DEF vars, ConfigInv
<1> QED
  BY <1>1, <1>2, <1>3, <1>4, <1>5, <1>6, <1>7, <1>8, <1>9 DEF Next

\* A new path takes the place of the former; after the file nothing touches it.
LEMMA NextStringsInv == ConfigInv /\ StringsInv /\ [Next]_vars => StringsInv'
<1> SUFFICES ASSUME ConfigInv, StringsInv, [Next]_vars PROVE StringsInv'
  OBVIOUS
<1> USE DEF At, StringsInv
<1>0. "LOG_FILE_PATH" \in Keys /\ "LOG_FILE_PATH" \in LogKeys
  BY DefaultsAreNumbers DEF LogKeys
<1>1. CASE parse_config
  BY <1>1 DEF parse_config, Configured
<1>2. CASE ReadsLine
  <2>1. config \in [Keys -> Nat] /\ strings = {config["LOG_FILE_PATH"]}
    BY <1>2 DEF ReadsLine, ConfigInv
  <2>2. CASE file[line].key = "LOG_FILE_PATH"
    <3>1. config' = [config EXCEPT !["LOG_FILE_PATH"] = line] /\ strings' = {line}
      BY <1>0, <1>2, <2>1, <2>2 DEF ReadsLine, SetKey, Given
    <3>2. strings' = {config'["LOG_FILE_PATH"]}
      BY <1>0, <2>1, <3>1
    <3> QED
      BY <1>2, <3>2 DEF ReadsLine, Configured
  <2>3. CASE file[line].key # "LOG_FILE_PATH"
    <3>1. config'["LOG_FILE_PATH"] = config["LOG_FILE_PATH"] /\ strings' = strings
      BY <1>0, <1>2, <2>1, <2>3 DEF ReadsLine, SetKey
    <3> QED
      BY <1>2, <2>1, <3>1 DEF ReadsLine, Configured
  <2> QED
    BY <2>2, <2>3
<1>3. CASE EndOfFile \/ log_init \/ parse_args \/ init_server \/ time_api_init_local
  BY <1>3 DEF EndOfFile, log_init, parse_args, init_server, time_api_init_local, Configured
<1>4. CASE game_init
  <2>1. strings = {config["LOG_FILE_PATH"]}
    BY <1>4 DEF game_init, Configured
  <2>2. settings'["LOG_FILE_PATH"] = config["LOG_FILE_PATH"]
    <3>1. settings["LOG_FILE_PATH"] = config["LOG_FILE_PATH"]
      BY <1>0, <1>4 DEF game_init, ConfigInv, Configured
    <3> QED
      BY <1>0, <1>4, <3>1 DEF game_init, Taken
  <2> QED
    BY <1>4, <2>1, <2>2 DEF game_init, Configured
<1>5. CASE parse_free_config \/ main_loop \/ Error
  BY <1>5 DEF parse_free_config, main_loop, Error, Configured
<1>6. CASE game_clean \/ time_api_free \/ cleanup_server \/ Returns
  BY <1>6 DEF game_clean, time_api_free, cleanup_server, Returns, Configured
<1>7. CASE UNCHANGED vars
  BY <1>7 DEF vars
<1> QED
  BY <1>1, <1>2, <1>3, <1>4, <1>5, <1>6, <1>7 DEF Next

\* Whatever the start got hold of, each part of the end gives its share back.
LEMMA NextHeldInv == HeldInv /\ [Next]_vars => HeldInv'
<1> SUFFICES ASSUME HeldInv, [Next]_vars PROVE HeldInv'
  OBVIOUS
<1> USE DEF At, HeldInv
<1>1. CASE parse_config \/ ReadsLine \/ EndOfFile \/ log_init \/ parse_args
  BY <1>1 DEF parse_config, ReadsLine, EndOfFile, log_init, parse_args
<1>2. CASE init_server \/ time_api_init_local \/ game_init \/ parse_free_config
  BY <1>2 DEF init_server, time_api_init_local, game_init, parse_free_config
<1>3. CASE main_loop \/ Error
  BY <1>3 DEF main_loop, Error
<1>4. CASE game_clean
  BY <1>4 DEF game_clean
<1>5. CASE time_api_free
  BY <1>5 DEF time_api_free
<1>6. CASE cleanup_server
  BY <1>6 DEF cleanup_server, Cleanup
<1>7. CASE Returns
  BY <1>7 DEF Returns
<1>8. CASE UNCHANGED vars
  BY <1>8 DEF vars
<1> QED
  BY <1>1, <1>2, <1>3, <1>4, <1>5, <1>6, <1>7, <1>8 DEF Next

(***************************************************************************)
(* The server plays with the settings of its file, however long the file   *)
(* is: main reads all of it before log_init and game_init take from it,    *)
(* and frees it after both; the path of the log is a string of its own,    *)
(* which is not freed with it.                                             *)
(***************************************************************************)
THEOREM ConfigInEffectCorrect == Spec => []ConfigInEffect
<1>1. StringsInv => (stage = "main_loop" => settings["LOG_FILE_PATH"] \in strings)
  BY DEF StringsInv
<1>2. ConfigInv => (stage = "main_loop" =>
          \A k \in Keys :
              \/ LinesOf(k) = {} /\ settings[k] = Defaults[k]
              \/ \E i \in LinesOf(k) : /\ \A j \in LinesOf(k) : j <= i
                                      /\ settings[k] = Given(i))
  <2> SUFFICES ASSUME ConfigInv, stage = "main_loop", NEW k \in Keys
               PROVE  \/ LinesOf(k) = {} /\ settings[k] = Defaults[k]
                      \/ \E i \in LinesOf(k) : /\ \A j \in LinesOf(k) : j <= i
                                               /\ settings[k] = Given(i)
    OBVIOUS
  <2>1. DOMAIN file = 1 .. Len(file) /\ Len(file) \in Nat
    BY DEF ConfigInv
  <2>2. InForce(settings, file, Len(file))
    BY DEF ConfigInv
  <2>3. CASE settings[k] = Defaults[k] /\ \A i \in 1 .. Len(file) : file[i].key # k
    BY <2>1, <2>3 DEF LinesOf
  <2>4. ASSUME NEW i \in 1 .. Len(file), file[i].key = k, settings[k] = GivenBy(file, i),
               \A j \in i + 1 .. Len(file) : file[j].key # k
        PROVE  i \in LinesOf(k) /\ settings[k] = Given(i) /\ \A j \in LinesOf(k) : j <= i
    BY <2>1, <2>4 DEF LinesOf, Given, GivenBy
  <2> QED
    BY <2>2, <2>3, <2>4 DEF InForce
<1>3. ConfigInv /\ StringsInv => ConfigInEffect
  BY <1>1, <1>2 DEF ConfigInEffect
<1> QED
  BY <1>3, InitInv, NextConfigInv, NextStringsInv, PTL DEF Spec

(***************************************************************************)
(* main returns with everything freed and closed, but for the log after a  *)
(* failed start and, on every path, the one string of LOG_FILE_PATH that   *)
(* parse_free_config leaves.                                               *)
(***************************************************************************)
THEOREM ReleasedCorrect == Spec => []Released
<1>1. HeldInv /\ StringsInv => Released
  BY DEF HeldInv, StringsInv, Released
<1> QED
  BY <1>1, InitInv, NextConfigInv, NextStringsInv, NextHeldInv, PTL DEF Spec

=============================================================================
