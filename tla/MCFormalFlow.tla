---------------------------- MODULE MCFormalFlow ----------------------------
(* Instances of FormalFlow: logs with no mark, one mark or two; the marks of  *)
(* the three kinds of mismatch are treated alike, so one stands for them.     *)
EXTENDS FormalFlow

CONSTANTS t1, t2

MCTests == {t1, t2}
MCOne   == {t1}
MCLogs  == {{}, {"PASS"}, {"NOTHING_TO_COMPARE"},
            {"PASS", "NOTHING_TO_COMPARE"}, {"YOSYS_READ_FAIL", "SYNLIG_READ_FAIL"}}
MCTwoLogs == {{}, {"PASS"}, {"YOSYS_READ_FAIL"}}
=============================================================================
