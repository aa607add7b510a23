---- MODULE Configuration ----
(***************************************************************************)
(* How the agent (app/agent_config.go) and the server (config/config.go)   *)
(* find their settings: a flag, an environment variable, the JSON file and *)
(* a default for each.  A value is an opaque string; None is the one that  *)
(* is not given, which for a key is the empty key.                         *)
(***************************************************************************)
None == "none"

AgentDefaults ==
  [address |-> "localhost:8080", report |-> "10s", poll |-> "2s", rate |-> "1",
   key |-> None, crypto |-> None]

ServerDefaults ==
  [address |-> "localhost:8080", interval |-> "300s", file |-> "/tmp/metrics-db.json",
   restore |-> "true", dsn |-> None, key |-> None, crypto |-> None]

\* Where the JSON file comes from: -c, or else CONFIG.  One that cannot be
\* read or parsed stops the program.
FileOf(src) == IF src.config.flag # None THEN src.config.flag ELSE src.config.env
FileLoads(src) == FileOf(src) # "unreadable"
JSONOf(src, x) == IF FileOf(src) = None THEN None ELSE src[x].json

\* What the command line parser makes of a flag.
FlagOf(src, x, defaults) == IF src[x].flag = None THEN defaults[x] ELSE src[x].flag

\* Mutant: the file comes before the environment.
Merged_FileFirst(src, x, defaults) ==
  IF FlagOf(src, x, defaults) # defaults[x] THEN src[x].flag
  ELSE IF JSONOf(src, x) # None THEN JSONOf(src, x)
  ELSE IF src[x].env # None THEN src[x].env
  ELSE defaults[x]

\* The environment is written over what the file gave; a flag counts if it is
\* not the default; what no flag gives is taken from the former.
Merged(src, x, defaults) ==
  IF FlagOf(src, x, defaults) # defaults[x] THEN src[x].flag
  ELSE IF src[x].env # None THEN src[x].env
  ELSE IF JSONOf(src, x) # None THEN JSONOf(src, x)
  ELSE defaults[x]

\* KEY and RATE_LIMIT are not settings of the file: they are written over the
\* flags.
OverFlag(src, x, defaults) ==
  IF src[x].env # None THEN src[x].env ELSE FlagOf(src, x, defaults)

\* A RESTORE that is no boolean is passed over.
BooleanOf(v) ==
  IF v \in {"true", "1"} THEN "true" ELSE IF v \in {"false", "0"} THEN "false" ELSE None

\* The flag of restore is parsed and not looked at.
RestoreOf(src) ==
  IF BooleanOf(src.restore.env) # None THEN BooleanOf(src.restore.env)
  ELSE IF JSONOf(src, "restore") # None THEN JSONOf(src, "restore")
  ELSE ServerDefaults.restore

AgentConfig(src) ==
  [x \in DOMAIN AgentDefaults |->
     IF x \in {"key", "rate"}
     THEN OverFlag(src, x, AgentDefaults) ELSE Merged(src, x, AgentDefaults)]

ServerConfig(src) ==
  [x \in DOMAIN ServerDefaults |->
     CASE x = "key"     -> OverFlag(src, x, ServerDefaults)
       [] x = "restore" -> RestoreOf(src)
       [] OTHER         -> Merged(src, x, ServerDefaults)]

\* ParseDurationToSeconds: not what does not parse, and not what is no second.
IsSeconds(v) == v \notin {"0s", "500ms", "soon"}

\* A positive number.
IsRate(v) == v \notin {"0", "many"}

\* ParseAgentConfig and Load return no error.
AgentStarts(src) ==
  /\ FileLoads(src)
  /\ src.rate.env # None => IsRate(src.rate.env)
  /\ IsSeconds(AgentConfig(src).report) /\ IsSeconds(AgentConfig(src).poll)
  /\ IsRate(AgentConfig(src).rate)

ServerStarts(src) ==
  /\ FileLoads(src)
  /\ IsSeconds(ServerConfig(src).interval)
====
