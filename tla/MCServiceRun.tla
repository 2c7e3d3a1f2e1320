---------------------------- MODULE MCServiceRun ----------------------------
(* Small sets of requests for the execution service. *)
EXTENDS ServiceRun

Text(n) == [kind |-> "text", len |-> n]
Url == [kind |-> "url", len |-> None]
Given == [kind |-> "handoff", len |-> None]

Legacy ==
    [mode : {"steps"},
     parts : {<<first, second>> : first \in {<<Text(1)>>, <<Url>>},
                second \in {<<Given>>, <<Given, Text(0)>>, <<Url, Given>>, <<Given, Given>>}},
     alone : {<<a, b>> : a, b \in BOOLEAN},
     handoff : [from : {"stdout", "file"}, max : {0, 2}],
     spj : BOOLEAN, file : BOOLEAN, ignoreTLE : BOOLEAN]

OutputSpec == [kind : {"participant_stdout", "participant_file", "interactor_output"}, max : 1..2]

Pipelines ==
    [mode : {"pipeline"},
     steps : {<<[kind |-> k, stdin |-> <<<<0, 0>>>>, outputs |-> <<>>]>> : k \in {"batch", "interactive"}}
       \cup {<<[kind |-> k1, stdin |-> <<<<0, 0>>>>, outputs |-> os],
               [kind |-> k2, stdin |-> refs, outputs |-> last]>> :
                k1, k2 \in {"batch", "interactive"},
                os \in BoundedSeq(OutputSpec, 2),
                refs \in {<<<<1, 1>>>>, <<<<0, 0>>, <<1, 1>>>>, <<<<1, 2>>, <<1, 1>>>>},
                last \in {<<>>, <<[kind |-> "participant_stdout", max |-> 1]>>}}]

Requests == Single \cup Legacy \cup Pipelines
=============================================================================
