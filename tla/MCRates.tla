------------------------------ MODULE MCRates ------------------------------
(* A small instance of Rates: one version, published by two operators, and two requests of one worker. *)
EXTENDS Rates
CONSTANTS w1, r1, r2, p1, p2
Rate(input, output, cache_read, cache_write) ==
  [leg \in BILLABLE_LEGS |-> CASE leg = "input" -> input [] leg = "output" -> output
                               [] leg = "cache_read" -> cache_read [] OTHER -> cache_write]
MCFloor == "default" :> Rate(2, 2, 1, 2)
MCSources == {<< >>, "vllm" :> Rate(1, 1, 1, 1)}
\* The last one is refused: it lowers the default.
MCDocuments == {"opus" :> Rate(1, 1, 1, 1), ("opus" :> Rate(2, 1, 1, 1)) @@ ("default" :> Rate(3, 2, 1, 2)), "default" :> Rate(1, 2, 1, 2)}
MCWorkerOf == [r \in {r1, r2} |-> w1]
Block(kind, format, inline, nested) ==
  [kind |-> kind, format |-> format, inline |-> inline, nested |-> nested, pixels |-> 1]
Payload(protocol, blocks, unsent) ==
  [protocol |-> protocol, bytes |-> 1, blocks |-> blocks, unsent |-> unsent, estimate |-> 1]
\* A file by its id, an image in the result of a tool, a conversation that is continued.
MCPassedOver == {Payload("chat", <<Block("file", "pdf", FALSE, FALSE)>>, 0),
                 Payload("responses", <<Block("image", "png", FALSE, TRUE)>>, 0),
                 Payload("responses", << >>, 1)}
\* The second image is not measured, the third not taken.
MCPayloads == {Payload("converse", <<Block("image", "png", TRUE, TRUE)>>, 0),
               Payload("chat", <<Block("image", "gif", FALSE, FALSE)>>, 0),
               Payload("responses", <<Block("image", "webp", TRUE, FALSE)>>, 0),
               Payload("responses", << >>, 0)} \cup MCPassedOver
MCSettings == [pool : {TRUE}, gate : BOOLEAN, measuring : {FALSE}]
MCSymmetry == Permutations(Publishers) \cup Permutations(Requests)
=============================================================================
