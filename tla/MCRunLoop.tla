---- MODULE MCRunLoop ----
(***************************************************************************)
(* Checks RunLoop on small instances.                                      *)
(***************************************************************************)
EXTENDS RunLoop

(* Output budgets of the runs' prompts.                                    *)
OneEach     == <<1, 1>>
Three       == <<3>>

(* How the model's messages arrive.                                        *)
WholeThenStreamed == << {"whole"}, {"stream"} >>
Streamed          == << {"stream"} >>
====
