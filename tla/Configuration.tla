--------------------------- MODULE Configuration ----------------------------
(***************************************************************************)
(* The configuration of a process and its schema (pkg/conf/conf.go),       *)
(* package variables without a lock, and the Origin check that reads the   *)
(* configuration (internal/helpers/domains.go).                            *)
(*                                                                         *)
(* A long-running server compiles the configuration when it starts.  The   *)
(* serverless entry points (api/*.go) compile it for every request, while  *)
(* the requests that run beside it read it.  Compile reads both variables  *)
(* again to validate, and GetConf reads the configuration twice (a build   *)
(* that reads it once is the case where nobody writes in between).         *)
(***************************************************************************)
EXTENDS Naturals

CONSTANTS
  Served,      \* the requests one process serves
  Hosts,       \* the hosts an Origin header can name
  Configs,     \* what the file can hold
  NoConfig,    \* a nil configuration, or a file that cannot be read
  MaxMishaps   \* changes of the file, and failures to read it or the schema

VARIABLES
  file,     \* what the file at CnfPath holds
  cnf,      \* the package variable
  sch,      \* the other one: whether there is a schema
  found,    \* the requests in a GetConf that has found cnf, to read it again
  load,     \* what each request in the process has done about it
  mishaps   \* how many mishaps there have been

vars == <<file, cnf, sch, found, load, mishaps>>

\* A configuration has lists of domains under any of the keys "blacklist" and
\* "whitelist", says whether the method "basic" is supported and whether it
\* sets an expiry of tokens, and passes the schema or not.
IsConfig(c) ==
  /\ DOMAIN c = {"domains", "basic", "exp", "valid"}
  /\ DOMAIN c.domains \subseteq {"blacklist", "whitelist"}
  /\ \A k \in DOMAIN c.domains : c.domains[k] \subseteq Hosts
  /\ {c.basic, c.exp, c.valid} \subseteq BOOLEAN

\* "left" counts the calls of Compile still to come, this one included; "mine"
\* are the configurations the request has read, "met" those and the ones read by
\* the requests it ran beside (both history).
Load == [stage: {"out", "schema", "read", "assign", "validate", "loaded",
                 "failed", "crashed"},
         left: 0..2, got: Configs \cup {NoConfig},
         mine: SUBSET (Configs \cup {NoConfig}),
         met: SUBSET (Configs \cup {NoConfig})]

Out == [stage |-> "out", left |-> 0, got |-> NoConfig, mine |-> {}, met |-> {}]

Inside == {x \in Served : load[x].stage # "out"}

-----------------------------------------------------------------------------

\* A serverless process starts with no configuration, a long-running server has
\* compiled one.
Init ==
  /\ file \in Configs
  /\ cnf \in {NoConfig} \cup {c \in {file} : c.valid}
  /\ sch = (cnf # NoConfig)
  /\ found = {}
  /\ load = [x \in Served |-> Out]
  /\ mishaps = 0

Mishap ==
  /\ mishaps < MaxMishaps
  /\ mishaps' = mishaps + 1

ChangeFile ==
  /\ Mishap
  /\ file' \in (Configs \cup {NoConfig}) \ {file}
  /\ UNCHANGED <<cnf, sch, found, load>>

\* A request reaches its entry point, which will call Compile n times (never,
\* in a long-running server).
Enter(x, n) ==
  /\ load[x].stage = "out"
  /\ load' = [load EXCEPT ![x] =
       [stage |-> IF n = 0 THEN "loaded" ELSE "schema", left |-> n,
        got |-> NoConfig, mine |-> {},
        met |-> (UNION {load[y].mine : y \in Inside}) \cup
                (IF n = 0 THEN {cnf} ELSE {})]]
  /\ UNCHANGED <<file, cnf, sch, found, mishaps>>

\* What c.Compile returns becomes sch, nil if it fails; cnf is left alone then.
CompileSchema(x) ==
  /\ load[x].stage = "schema"
  /\ \/ /\ sch' = TRUE
        /\ load' = [load EXCEPT ![x].stage = "read"] /\ UNCHANGED mishaps
     \/ /\ sch' = FALSE
        /\ load' = [load EXCEPT ![x].stage = "failed"] /\ Mishap
  /\ UNCHANGED <<file, cnf, found>>

\* readConf returns what the file holds, or nil.
ReadConf(x) ==
  /\ load[x].stage = "read"
  /\ \E c \in {file, NoConfig} :
       /\ IF c = file THEN UNCHANGED mishaps ELSE Mishap
       /\ load' = [y \in Served |->
            IF y = x THEN [load[x] EXCEPT !.stage = "assign", !.got = c,
                             !.mine = @ \cup {c}, !.met = @ \cup {c}]
            ELSE IF y \in Inside THEN [load[y] EXCEPT !.met = @ \cup {c}]
            ELSE load[y]]
  /\ UNCHANGED <<file, cnf, sch, found>>

Assigned(x) ==
  load' = [load EXCEPT
    ![x].stage = IF load[x].got = NoConfig THEN "failed" ELSE "validate"]

\* Mutant: a configuration that is there is kept.
AssignOnce(x) ==
  /\ load[x].stage = "assign"
  /\ cnf' = IF cnf = NoConfig THEN load[x].got ELSE cnf
  /\ Assigned(x)
  /\ UNCHANGED <<file, sch, found, mishaps>>

\* cnf becomes what was read, nil included.
Assign(x) ==
  /\ load[x].stage = "assign"
  /\ cnf' = load[x].got
  /\ Assigned(x)
  /\ UNCHANGED <<file, sch, found, mishaps>>

\* The schema there is, which may be nil by now, is applied to the configuration
\* there is by now, which may be another request's.  The schema is not part of
\* the repository: an empty configuration may pass it or not.
Validate(x) ==
  /\ load[x].stage = "validate"
  /\ \/ ~ sch /\ load' = [load EXCEPT ![x].stage = "crashed"]
     \/ /\ sch /\ cnf \notin {c \in Configs : c.valid}
        /\ load' = [load EXCEPT ![x].stage = "failed"]
     \/ /\ sch /\ cnf \notin {c \in Configs : ~ c.valid}
        /\ load' = [load EXCEPT
             ![x].stage = IF load[x].left > 1 THEN "schema" ELSE "loaded",
             ![x].left = @ - 1]
  /\ UNCHANGED <<file, cnf, sch, found, mishaps>>

Compile(x) == CompileSchema(x) \/ ReadConf(x) \/ Assign(x) \/ Validate(x)

Leave(x) ==
  /\ load' = [load EXCEPT ![x] = Out]
  /\ found' = found \ {x}
  /\ UNCHANGED <<file, cnf, sch, mishaps>>

(***************************************************************************)
(* What the readers do with it.                                            *)
(***************************************************************************)

\* The first read of a GetConf finds a configuration, the second is to come.
GetConfFinds(x) ==
  /\ cnf # NoConfig
  /\ x \notin found
  /\ found' = found \cup {x}
  /\ UNCHANGED <<file, cnf, sch, load, mishaps>>

\* The first read finds none: GetConf panics.
Missing(x) == cnf = NoConfig /\ x \notin found

\* The second read ends a GetConf.  It may find none all the same; then there is
\* nothing under any key.
GetConfEnds(x) ==
  /\ found' = found \ {x}
  /\ UNCHANGED <<file, cnf, sch, load, mishaps>>

\* getDomainsList.
Domains(c) == IF c = NoConfig THEN <<>> ELSE c.domains

\* GetDomainsListType.
DomainsType(c) ==
  IF "blacklist" \in DOMAIN Domains(c) THEN "blacklist"
  ELSE IF "whitelist" \in DOMAIN Domains(c) THEN "whitelist" ELSE "none"

\* CheckOriginHeader and ValidateDomain, of an Origin that names a host or
\* cannot be parsed.
Admits(c, origin) ==
  /\ origin \in Hosts
  /\ DomainsType(c) = "blacklist" => origin \notin Domains(c)["blacklist"]
  /\ DomainsType(c) = "whitelist" => origin \in Domains(c)["whitelist"]

TypeOK ==
  /\ \A c \in Configs : IsConfig(c)
  /\ {file, cnf} \subseteq Configs \cup {NoConfig}
  /\ sch \in BOOLEAN
  /\ found \subseteq Served
  /\ load \in [Served -> Load]
  /\ mishaps \in 0..MaxMishaps
=============================================================================
