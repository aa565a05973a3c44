----------------------------- MODULE MCChanFix -----------------------------
\* Instances of ChanFix for TLC: the sets of options that are switched on.
EXTENDS ChanFix

MCConfigs == {{"autofix"},
              {"deop_below_threshold_on_fix", "clear_modes_on_fix", "clear_bans_on_fix"}}
=============================================================================
