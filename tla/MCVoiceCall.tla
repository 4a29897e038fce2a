---------------------------- MODULE MCVoiceCall ----------------------------
(* VoiceCall with the tool batches that matter: a save after a lookup, alone, with    *)
(* end_call, end_call alone, a lookup alone.                                          *)
EXTENDS VoiceCall

AllBatches == {<<"save">>, <<"end">>, <<"other">>, <<"other", "save">>, <<"save", "end">>}
SaveBatches == {<<"other", "save">>}
============================================================================
