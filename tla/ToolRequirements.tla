--------------------------- MODULE ToolRequirements ---------------------------
(***************************************************************************)
(* util/check_tool_requirements.py and tool_requirements.py: checks that   *)
(* the tools a build needs are installed and recent enough.                *)
(*                                                                         *)
(* A version is a record of the numbers between its dots, the service pack *)
(* and the patch that VCS adds to them, and what follows: nothing, the     *)
(* hash of a commit (Verible) or other text.  A number of VCS's that is a  *)
(* month is written with two digits.                                       *)
(***************************************************************************)
EXTENDS Integers, Sequences

CONSTANTS Malformed,    \* a value that is neither a string nor a mapping, or
                        \* has the wrong type
          Unavailable   \* the tool cannot be run, or its output has no version

Version(nums, sp, patch, tail) == [nums |-> nums, sp |-> sp, patch |-> patch, tail |-> tail]

-----------------------------------------------------------------------------
(* Reading the requirements.                                               *)

\* A string stands for a mapping with a minimum version only.
IsString(raw) == "nums" \in DOMAIN raw
AsDict(raw)   == IF IsString(raw) THEN [min_version |-> raw] ELSE raw

\* What dict_to_tool_req refuses.
ReqErr(raw) ==
  \/ raw = Malformed
  \/ LET dict == AsDict(raw)
     IN  \/ "min_version" \notin DOMAIN dict
         \/ dict.min_version = Malformed
         \/ "as_needed" \in DOMAIN dict /\ dict.as_needed \notin BOOLEAN
         \/ DOMAIN dict \ {"min_version", "as_needed"} # {}

Req(raw) == LET dict == AsDict(raw)
            IN  [min_version |-> dict.min_version,
                 as_needed   |-> "as_needed" \in DOMAIN dict /\ dict.as_needed]

-----------------------------------------------------------------------------
(* One requirement.                                                        *)

Bad == <<>>             \* ValueError

Digits(n) == CHOOSE d \in 1 .. 6 : n < 10 ^ d /\ (d = 1 \/ n >= 10 ^ (d - 1))

\* The decimal digits of b behind those of a.
Joined(a, b) == a * 10 ^ Digits(b) + b

\* Versions of VCS have two numbers.
VcsSemver(v, from_req) ==
  IF Len(v.nums) # 2 \/ (from_req /\ v.tail # "") THEN Bad
  ELSE <<v.nums[1], Joined(v.nums[2], v.sp * 100 + v.patch)>>

VeribleSemver(v) == IF Len(v.nums) = 3 /\ v.tail = "hash" THEN v.nums ELSE Bad

PlainSemver(v) == IF v.sp = 0 /\ v.patch = 0 /\ v.tail = "" THEN v.nums ELSE Bad

to_semver(tool, v, from_req) ==
  CASE tool = "vcs"     -> VcsSemver(v, from_req)
    [] tool = "verible" -> VeribleSemver(v)
    [] OTHER            -> PlainSemver(v)

\* distutils' StrictVersion: two or three numbers, the third 0 by default.
IsStrict(s) == Len(s) \in {2, 3}
Padded(s) == IF Len(s) = 2 THEN Append(s, 0) ELSE s

Before(s, t) == \E n \in 1 .. Len(s) : /\ \A m \in 1 .. n - 1 : s[m] = t[m]
                                       /\ s[n] < t[n]

\* mutant: every number has to reach the minimum's.
SomeLess(actual, min) == \E n \in 1 .. 3 : Padded(actual)[n] < Padded(min)[n]

TooOld(actual, min) == Before(Padded(actual), Padded(min))

\* ToolReq.check
Good(tool, req, version) ==
  LET min    == to_semver(tool, req.min_version, TRUE)
      actual == to_semver(tool, version, FALSE)
  IN  /\ IsStrict(min)
      /\ version # Unavailable
      /\ IsStrict(actual)
      /\ ~TooOld(actual, min)

-----------------------------------------------------------------------------
(* main: table is what tool_requirements.py defines, tools the command     *)
(* line, installed the version each tool reports.                          *)

Checked(table, tools) == { t \in DOMAIN table : Req(table[t]).as_needed => t \in tools }

missing_tools(table, tools, installed) ==
  { t \in Checked(table, tools) : ~Good(t, Req(table[t]), installed[t]) }

pending_tools(table, tools) == tools \ Checked(table, tools)

all_good(table, tools, installed) ==
  /\ table # Malformed /\ \A t \in DOMAIN table : ~ReqErr(table[t])
  /\ missing_tools(table, tools, installed) = {}
  /\ pending_tools(table, tools) = {}
=============================================================================
