---------------------------------- MODULE Ci ----------------------------------
(***************************************************************************)
(* The CI job (ci/cve2-rtl-ci-steps.yml), which joins the configuration    *)
(* tool and the check of the tools' versions: for one configuration after  *)
(* the other it sets CVE2_CONFIG_OPTS, lints, runs the compliance tests    *)
(* and runs CoreMark.  FuseSoC (external) takes the options apart, calls   *)
(* the hooks of all cores that the .core files bring into a build, and     *)
(* runs the tool, which may fail.                                          *)
(***************************************************************************)
EXTENDS Cve2Config, ToolRequirements

CONSTANTS Configs,      \* the sequence of names of configurations
          Declared,     \* the core's parameters: a kind and a default for each
          Files,        \* what cve2_configs.yaml may be
          Tables,       \* what tool_requirements.py may define
          Installations,\* what the tools may report
          None          \* no simulator, no job

ASSUME ConfigsAssumption == Len(Configs) \in Nat \ {0}

\* No string is a flag; FuseSoC knows a boolean as a flag that is off unless
\* it is given.
ASSUME FilesAssumption ==
  \A f \in Files \ {Unparsable} :
    /\ Len(f) \in Nat
    /\ \A i \in { j \in 1 .. Len(f) : f[j].config # NotMapping } :
         \A p \in DOMAIN f[i].config :
           /\ f[i].config[p].val # Flag
           /\ IsBool(f[i].config[p]) =>
                /\ f[i].config[p].val \in {0, 1}
                /\ p \in DOMAIN Declared =>
                     Declared[p].kind = "bool" /\ Declared[p].default = 0

\* A version has numbers.  A service pack stands behind two of them, and the
\* hash of a commit behind three.
IsVersion(v) == /\ v.nums \in Seq(Nat) /\ v.sp \in Nat /\ v.patch \in Nat
                /\ v.sp > 0 => Len(v.nums) = 2
                /\ v.tail = "hash" => Len(v.nums) = 3 /\ v.sp = 0 /\ v.patch = 0

\* Every tool in a table reports something, or is unavailable.
ASSUME VersionsAssumption ==
  /\ \A t \in Tables \ {Malformed} : \A tool \in DOMAIN t :
       ~ReqErr(t[tool]) => IsVersion(Req(t[tool]).min_version)
  /\ \A i \in Installations :
       /\ \A tool \in DOMAIN i : i[tool] # Unavailable => IsVersion(i[tool])
       /\ \A t \in Tables \ {Malformed} : DOMAIN t \subseteq DOMAIN i

ASSUME JobAssumption == None \notin {"running", "green", "red"}

VARIABLES
  file, table, installed,   \* the environment of the job
  job,                      \* "running", "green" or "red"; None without a job
  n, step,                  \* where it is
  opts,                     \* CVE2_CONFIG_OPTS
  simulator,                \* the parameters of the one that runs CoreMark
  ran,                      \* history: what was run on which parameters
  issues                    \* history: the configurations with a logged issue

ciEnv  == <<file, table, installed>>
ciVars == <<ciEnv, job, n, step, opts, simulator, ran, issues>>

Steps == <<"config", "lint_verilator", "lint_verible", "compliance", "coremark">>
Checks == {"lint_verilator", "lint_verible", "compliance"}

Config(i) == parse_config(Configs[i], file)

-----------------------------------------------------------------------------
(* FuseSoC.                                                                *)

Understood ==
  \A o \in opts : /\ o.name \in DOMAIN Declared
                  /\ Declared[o.name].kind = "bool" <=> o.text = Flag
                  /\ Declared[o.name].kind = "int" => o.text \in Int

\* A parameter that is not given has its default.
Given == [p \in DOMAIN Declared |->
            IF \E o \in opts : o.name = p
            THEN LET text == (CHOOSE o \in opts : o.name = p).text
                 IN  IF text = Flag THEN 1 ELSE text
            ELSE Declared[p].default]

\* What a step builds, and with which tool.
Core == [lint_verilator |-> "vcve2_top_tracing", lint_verible |-> "vcve2_top_tracing",
         compliance |-> "cve2_riscv_compliance", coremark |-> "cve2_simple_system_cosim"]
Tool(s) == IF s = "lint_verible" THEN "veriblelint" ELSE "verilator"

\* The cores that the targets of a core depend on, those left out that lead to
\* nothing more (cve2_top_tracing.core 8-11 and 100-108, cve2_tracer.core 8-20,
\* cve2_riscv_compliance.core 8-11 and 93-97, sim_shared.core 8-24,
\* prim_assert.core 18-45, lint/common.core 22-32).  Of the cores of prim,
\* Verilator and Verible take the common waivers alike.  The core for CoreMark is
\* not in the repository.
depend == [vcve2_top_tracing        |-> {"vcve2_tracer"},
           vcve2_tracer             |-> {"prim_assert"},
           cve2_riscv_compliance    |-> {"vcve2_top_tracing", "sim_shared"},
           sim_shared               |-> {"prim_assert"},
           prim_assert              |-> {"lint_common"},
           lint_common              |-> {"check_tool_requirements"},
           check_tool_requirements  |-> {},
           cve2_simple_system_cosim |-> {}]

\* FuseSoC takes in what a core depends on, what that depends on, and so on.
Closed(cores) == \A c \in cores : depend[c] \subseteq cores
Needs(c, d)   == \A cores \in SUBSET DOMAIN depend : c \in cores /\ Closed(cores) => d \in cores

\* The pre_build hook comes with check_tool_requirements, is for Verilator only,
\* and names no tool.
Hooked  == { c \in DOMAIN depend : Needs(c, "check_tool_requirements") }
Hook(s) == Tool(s) = "verilator" /\ Core[s] \in Hooked => all_good(table, {}, installed)

MayBuild(s) == Understood /\ Hook(s)

Ran(params) == [step |-> Steps[step], config |-> n, params |-> params]

-----------------------------------------------------------------------------
(* The steps.                                                              *)

\* After the last step the next configuration is the job's.
Advance == \/ /\ step < Len(Steps)
              /\ step' = step + 1
              /\ UNCHANGED <<n, job>>
           \/ /\ step = Len(Steps) /\ n < Len(Configs)
              /\ step' = 1 /\ n' = n + 1
              /\ UNCHANGED job
           \/ /\ step = Len(Steps) /\ n = Len(Configs)
              /\ job' = "green"
              /\ UNCHANGED <<n, step>>

At(s) == job = "running" /\ Steps[step] = s

Fail == job' = "red" /\ UNCHANGED <<n, step>>

\* mutant: the step goes on after an error.
GoesOn == FALSE

\* set -e
Exits == Config(n) = NoConfig

Configure ==
  /\ At("config")
  /\ \/ Exits /\ Fail /\ UNCHANGED opts
     \/ /\ ~Exits
        /\ opts' = IF Config(n) = NoConfig THEN {} ELSE FusesocOpts(Config(n))
        /\ Advance
  /\ UNCHANGED <<ciEnv, simulator, ran, issues>>

Check(s) ==
  /\ s \in Checks /\ At(s)
  /\ \/ Fail /\ UNCHANGED ran
     \/ MayBuild(s) /\ ran' = ran \cup {Ran(Given)} /\ Advance
  /\ UNCHANGED <<ciEnv, opts, simulator, issues>>

\* mutant: only a run that fails is logged.
OnlyRun(built, ok) == ~ok

Logged(built, ok) == ~built \/ ~ok

\* A build that fails is logged, and the simulator that is there, that of an
\* earlier configuration, is run nevertheless; the step always passes.
CoreMark ==
  /\ At("coremark")
  /\ \E built, ok \in BOOLEAN :
       /\ built => MayBuild("coremark")
       /\ simulator' = IF built THEN Given ELSE simulator
       /\ simulator' = None => ~ok
       /\ ran' = IF simulator' = None THEN ran ELSE ran \cup {Ran(simulator')}
       /\ issues' = IF Logged(built, ok) THEN issues \cup {n} ELSE issues
  /\ Advance
  /\ UNCHANGED <<ciEnv, opts>>

CiNext == Configure \/ (\E s \in Checks : Check(s)) \/ CoreMark

\* A tool that is not in the table makes no difference.
Asked(t) == table # Malformed /\ t \in DOMAIN table

CiInit ==
  /\ file \in Files /\ table \in Tables
  /\ installed \in Installations
  /\ \A t \in DOMAIN installed : Asked(t) \/ installed[t] = Unavailable
  /\ job = "running" /\ n = 1 /\ step = 1
  /\ opts = {} /\ simulator = None /\ ran = {} /\ issues = {}

-----------------------------------------------------------------------------
(* Reference definitions.                                                  *)

\* A version as a vendor orders it.
Order(v) == Padded(v.nums) \o <<v.sp, v.patch>>

RecentEnough(t) ==
  /\ t \in DOMAIN table
  /\ installed[t] # Unavailable
  /\ ~Before(Order(installed[t]), Order(Req(table[t]).min_version))

Required(tools) == tools \cup { t \in DOMAIN table : ~Req(table[t]).as_needed }

\* The versions that the check compares as the vendors do.
Comparable(t, v) ==
  CASE t = "vcs"     -> v.sp > 0
    [] t = "verible" -> v.tail = "hash"
    [] OTHER         -> IsStrict(PlainSemver(v))

Readable == file # Unparsable /\ \A i \in 1 .. Len(file) : file[i].config # NotMapping

\* The parameters a configuration stands for.
Meant(name) ==
  { [p \in DOMAIN Declared |-> IF p \in DOMAIN file[i].config THEN file[i].config[p].val
                               ELSE Declared[p].default] :
      i \in { j \in 1 .. Len(file) : file[j].name = name } }

-----------------------------------------------------------------------------
(* Properties.                                                             *)

\* The service packs and patches of VCS that to_semver can put together with a
\* month: of one digit, and of two.
Fits(v) == v.sp \in 0 .. 9 /\ v.patch \in 0 .. 99

\* All of them are such, and a minimum has a service pack, as the one of
\* tool_requirements.py.
VcsComparable ==
  /\ \A t \in Tables \ {Malformed} : "vcs" \in DOMAIN t /\ ~ReqErr(t["vcs"]) =>
       Fits(Req(t["vcs"]).min_version) /\ Req(t["vcs"]).min_version.sp > 0
  /\ \A i \in Installations : "vcs" \in DOMAIN i /\ i["vcs"] # Unavailable => Fits(i["vcs"])

\* A job that passes has run every check on every configuration, with exactly
\* the parameters the file gives to it, by tools that are recent enough; a file
\* with an error, a wrong name or an old tool never goes unnoticed, and no
\* configuration is left with a default where another one sets a parameter
\* (ci/cve2-rtl-ci-steps.yml, cve2_config.py, check_tool_requirements.py).
GreenMeansChecked ==
  job = "green" =>
    /\ Readable
    /\ \A i \in 1 .. Len(Configs), s \in Checks :
         \E m \in Meant(Configs[i]) : [step |-> s, config |-> i, params |-> m] \in ran
    /\ \A i, j \in 1 .. Len(file) : DOMAIN file[i].config = DOMAIN file[j].config
    /\ \A t \in Required({}) : RecentEnough(t)

\* CoreMark was run on the configuration the step names, or an issue is logged
\* (the last step of ci/cve2-rtl-ci-steps.yml, which never fails).
CoreMarkOrIssue ==
  \A i \in 1 .. Len(Configs) :
    (i < n \/ job = "green") /\ i \notin issues
      => \E m \in Meant(Configs[i]) :
           [step |-> "coremark", config |-> i, params |-> m] \in ran

\* The check of the tools, for whatever tools it is asked, passes only if these
\* and all that are always needed are known and recent enough (main of
\* check_tool_requirements.py).  And it passes if they are, and all versions
\* have the form StrictVersion takes; a release of VCS without a service pack
\* excepted, whose month and number are put together wrongly
\* (VcsToolReq.to_semver).
CheckExact ==
  job = "running" =>
    /\ \A tools \in SUBSET DOMAIN installed :
         all_good(table, tools, installed) => \A t \in Required(tools) : RecentEnough(t)
    /\ table # Malformed /\ (\A t \in DOMAIN table : ~ReqErr(table[t])) =>
         \A tools \in SUBSET DOMAIN table :
           (\A t \in Required(tools) :
              /\ RecentEnough(t)
              /\ IsStrict(to_semver(t, Req(table[t]).min_version, TRUE))
              /\ Comparable(t, installed[t]))
           => all_good(table, tools, installed)
=============================================================================
