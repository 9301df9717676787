------------------------------- MODULE MCBuild -------------------------------
(***************************************************************************)
(* Model checking Build: two configurations out of files like              *)
(* cve2_configs.yaml and files with one error each, the requirements of    *)
(* tool_requirements.py and tables with errors, and versions around the    *)
(* minimum; two formal targets with a package, a module that --define-if   *)
(* matches, a header and a file that is left alone.                        *)
(***************************************************************************)
EXTENDS Build

CONSTANTS small, otp, Fast, Single, YOSYS, SYNTHESIS, slow_mull, fast_mull

Str(s)  == [kind |-> "str", val |-> s]
Num(k)  == [kind |-> "int", val |-> k]
Bool(b) == [kind |-> "bool", val |-> b]

MCDeclared == [RV32M |-> [kind |-> "str", default |-> Fast],
               PMPNumRegions |-> [kind |-> "int", default |-> 4],
               FPGA_XILINX |-> [kind |-> "bool", default |-> 0]]

MCConfigs == <<small, otp>>

Entry(name, config) == [name |-> name, config |-> config]
Params(m, p, b) == [RV32M |-> m, PMPNumRegions |-> p, FPGA_XILINX |-> b]

SmallConfig == Params(Str(Fast), Num(4), Bool(0))
OtpConfig   == Params(Str(Single), Num(16), Bool(1))
Without(c, p) == [q \in DOMAIN c \ {p} |-> c[q]]

MCFiles == {
  <<Entry(small, SmallConfig), Entry(otp, OtpConfig)>>,
  <<Entry(otp, Without(OtpConfig, "FPGA_XILINX")),
    Entry(small, Without(SmallConfig, "FPGA_XILINX"))>>,
  <<Entry(small, Without(SmallConfig, "PMPNumRegions")), Entry(otp, OtpConfig)>>,
  <<Entry(small, SmallConfig), Entry(otp, Without(OtpConfig, "RV32M"))>>,
  <<Entry(small, SmallConfig), Entry(otp, NotMapping)>>,
  <<Entry(small, SmallConfig), Entry(otp, [OtpConfig EXCEPT !.RV32M = [kind |-> "float", val |-> 1]])>>,
  <<Entry(small, [SmallConfig EXCEPT !.FPGA_XILINX = Num(0)]), Entry(otp, OtpConfig)>>,
  <<Entry(small, SmallConfig)>>,
  Unparsable }

Plain(x, y, z) == Version(<<x, y, z>>, 0, 0, "")
Vcs(y, m, sp, patch) == Version(<<y, m>>, sp, patch, "")

Repository == [verilator |-> Version(<<4, 28>>, 0, 0, ""),
               edalize   |-> Plain(0, 2, 0),
               vcs       |-> [min_version |-> Vcs(2020, 3, 2, 0), as_needed |-> TRUE]]

MCTables == {
  Repository,
  [Repository EXCEPT !.vcs = [min_version |-> Vcs(2020, 3, 2, 0)]],
  [Repository EXCEPT !.vcs = [as_needed |-> TRUE]],
  [Repository EXCEPT !.vcs = [@ EXCEPT !.as_needed = Malformed]],
  [Repository EXCEPT !.verilator = Version(<<4, 28>>, 0, 0, "other")],
  [Repository EXCEPT !.edalize = [min_version |-> Plain(0, 2, 0), extra |-> TRUE]],
  [verilator |-> Version(<<4, 28>>, 0, 0, ""), edalize |-> Plain(0, 2, 0),
   verible |-> Version(<<0, 0, 808>>, 0, 0, "hash")],
  Malformed }

MCInstallations ==
  { [verilator |-> a, edalize |-> b, verible |-> c, vcs |-> d] :
      a \in {Version(<<4, 28>>, 0, 0, ""), Version(<<4, 26>>, 0, 0, ""),
             Version(<<5, 20>>, 0, 0, ""), Version(<<4, 200>>, 0, 0, "other"), Unavailable},
      b \in {Plain(0, 1, 6), Plain(0, 2, 0), Version(<<1>>, 0, 0, ""), Unavailable},
      c \in {Version(<<0, 0, 808>>, 0, 0, "hash"), Version(<<0, 0, 99>>, 0, 0, "hash"),
             Version(<<0, 0, 1213>>, 0, 0, "hash"), Plain(0, 0, 808), Unavailable},
      d \in {Vcs(2020, 3, 2, 0), Vcs(2020, 3, 1, 99), Vcs(2020, 12, 1, 0), Vcs(2020, 12, 0, 0),
             Vcs(2019, 12, 9, 1), Vcs(2021, 9, 1, 1), Unavailable,
             Version(<<2020, 3>>, 2, 1, "other")} }

Path(ext, pkg, defs) == [ext |-> ext, pkg |-> pkg, defines_if |-> defs]

MCPaths == <<Path("svh", FALSE, {}), Path("sv", TRUE, {}),
             Path("vlt", FALSE, {}), Path("sv", FALSE, {SYNTHESIS})>>

MCBuildRoot == [t \in {slow_mull, fast_mull} |-> t]

\* What the exactness of the check of versions rests on.
ASSUME VersionsAreComparable == VcsComparable
=============================================================================
