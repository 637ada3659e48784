------------------------------- MODULE ExitCodes ------------------------------
(* crates/deep-diff-forge-core/src/exit.rs: the documented exit codes of the two command  *)
(* families.                                                                              *)
EXTENDS Naturals

SUCCESS == 0
USAGE == 2
IO == 3
INVALID_INPUT == 4
DAEMON_OR_TERMINAL == 6
INPUT_CONTRACT_REFUSED == 7
PANIC == 101
SIGNAL_BASE == 128
COUNCIL_REFUSED == 4
COUNCIL_HOLD == 7

EXIT_CODES(family) == IF family = "council" THEN {SUCCESS, COUNCIL_REFUSED, COUNCIL_HOLD}
                      ELSE {SUCCESS, USAGE, IO, INVALID_INPUT, DAEMON_OR_TERMINAL,
                            INPUT_CONTRACT_REFUSED, PANIC}

lookup(family, code) == IF code \in EXIT_CODES(family) THEN "named" ELSE "undocumented"
=============================================================================
