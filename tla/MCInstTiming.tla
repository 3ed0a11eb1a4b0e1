---------------------------- MODULE MCInstTiming ----------------------------
(***************************************************************************)
(* inst-timing itself, and programs with the templates it does not use and *)
(* with a selector that is not known.                                      *)
(***************************************************************************)
EXTENDS InstTiming

Others == {<<REPEAT_INST("mix_add"), REPEAT_INST("rand_add")>>,
           <<REPEAT_INST("load"), REPEAT_INST("addrspacecast_to")>>, <<>>}
MCSources == {main} \cup Others
=============================================================================
