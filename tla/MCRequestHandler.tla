-------------------------- MODULE MCRequestHandler --------------------------
(* Instances of RequestHandler, for requests that are numbered from 1. *)
EXTENDS RequestHandler

AllCalls == {c \in Call : c.endpoint = "count" => ~c.stream}

\* Request 1 is any call, and the others are token counts, refused at once.
Alone == \A r \in Requests \ {1} : call[r].endpoint = "count"

\* All are Chat Completions, but for the last, which may be Responses, streaming or
\* not; no request is singled out by its number.
Number(c) == IF c.endpoint = "chat" THEN IF c.stream THEN 1 ELSE 2
                                    ELSE IF c.stream THEN 3 ELSE 4
Together == \A r \in Requests :
    /\ call[r].endpoint \in {"chat", "responses"}
    /\ r + 1 \in Requests => call[r].endpoint = "chat"
    /\ r > 1 => Number(call[r - 1]) <= Number(call[r])

MCInit == Init /\ (Alone \/ Together)

MCSpec == MCInit /\ [][Next]_vars /\ Fairness

\* The steps of these requests.  One response has up to MaxEvents events, of
\* several each has one, and the upstream answers several with 200 or 500 only.
OneByOne == /\ Alone
            /\ \/ \A r \in Requests \ {1} : pc[r] = "returned"
               \/ \E r \in Requests \ {1} : pc[r] = "decode" /\ pc'[r] = "returned"

Overlapping == /\ Together
               /\ \A r \in Requests : seen'[r] <= 1 /\ code'[r] \in {0, 200, 500}

MCSteps == OneByOne \/ Overlapping
=============================================================================
