------------------------------ MODULE MCStartup ------------------------------
(* A small instance of Startup for TLC.                                        *)
EXTENDS Startup

(* Complete or partial, accepted or rejected, other ports, swapped ports, one  *)
(* port for both, a port or a version that does not exist.                     *)
MCContents ==
  {Absent, Denied, NotUtf8}
    \union {Text(keys) : keys \in
         {[mc_version |-> "1.21.1"],
          [mc_version |-> "1.19"],
          [host |-> "0.0.0.0"],
          [mc_port |-> "8080", api_port |-> "25565"],
          [mc_port |-> "8080"],
          [mc_port |-> "70000"],
          [api_port |-> "70000"],
          [api_port |-> "?"]}}

MCOtherPrograms == {"8080"}
==============================================================================
