------------------------------ MODULE Cve2Config ------------------------------
(***************************************************************************)
(* util/cve2_config.py: reads the named configuration of the core from     *)
(* cve2_configs.yaml and turns its parameters into the options of FuseSoC. *)
(* The options of simulators are left out: nothing here asks for them.     *)
(*                                                                         *)
(* A configuration maps parameters to values; a value has a kind, which is *)
(* its Python type, and booleans are 0 or 1.  A file is the sequence of    *)
(* its configurations, in the order in which Python reads them.  The text  *)
(* of an option is the value it is written from; quoting is left out.      *)
(***************************************************************************)
EXTENDS Integers, Sequences

CONSTANTS Unparsable,   \* a file that is no YAML, or no mapping
          NotMapping,   \* a configuration that is no mapping
          NoConfig,     \* no configuration: the program exits with an error
          Flag          \* the text of an option without a value

\* isinstance: a boolean is an integer, too.
IsBool(v) == v.kind = "bool"
IsInt(v)  == v.kind \in {"int", "bool"}
IsStr(v)  == v.kind = "str"

_verify_config(config) ==
  /\ config # NotMapping
  /\ \A p \in DOMAIN config : IsInt(config[p]) \/ IsStr(config[p])

\* No parameter is in one of the first and another configuration only.
_verify_config_parameters(file) ==
  \A n \in 2 .. Len(file) :
    LET first == DOMAIN file[1].config
        this  == DOMAIN file[n].config
    IN  (first \ this) \cup (this \ first) = {}

\* get_config_dicts
Accepted(file) == /\ file # Unparsable
                  /\ \A n \in 1 .. Len(file) : _verify_config(file[n].config)
                  /\ _verify_config_parameters(file)

\* The configuration called name, or an exit with an error.
parse_config(name, file) ==
  IF Accepted(file) /\ \E n \in 1 .. Len(file) : file[n].name = name
  THEN file[CHOOSE n \in 1 .. Len(file) : file[n].name = name].config
  ELSE NoConfig

-----------------------------------------------------------------------------
(* FuseSoC: a boolean is a flag that is there or not.                      *)

FusesocOpts(config) ==
  { [name |-> p, text |-> IF IsBool(config[p]) THEN Flag ELSE config[p].val] :
      p \in { q \in DOMAIN config : IsBool(config[q]) => config[q].val = 1 } }
=============================================================================
