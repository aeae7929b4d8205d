----------------------------- MODULE LineStream -----------------------------
(***************************************************************************)
(* What ScanLines and NextLine promise to the loops that read an upstream  *)
(* NDJSON body: the lines come in order and without gaps, and then the     *)
(* loop ends once, with one result.  "ok" is the promise that matters: it  *)
(* is claimed only of a body that was read to its end, or that sent the    *)
(* blank line every loop takes for an end.                                 *)
(***************************************************************************)
EXTENDS Naturals, Sequences

CONSTANTS Events,    \* parseable lines
          Blank,     \* the empty line
          Bad,       \* a line json.Unmarshal refuses
          MaxLines   \* bound on the lines of one body

Line    == Events \cup {Blank, Bad}
Results == {"none", "ok", "idle", "readErr", "parseErr", "writeErr"}

VARIABLES sent,       \* the lines of the body, as the upstream has sent them
          body,       \* "open", "eof" or "broken"
          delivered,  \* the lines the loop has taken
          result      \* what the loop returned, "none" while it runs

lsVars == <<sent, body, delivered, result>>

LastIs(s, l) == s # <<>> /\ s[Len(s)] = l

LSInit == /\ sent = <<>>
          /\ body = "open"
          /\ delivered = <<>>
          /\ result = "none"

Grow == /\ body = "open"
        /\ Len(sent) < MaxLines
        /\ \E l \in Line : sent' = Append(sent, l)
        /\ UNCHANGED <<body, delivered, result>>

End == /\ body = "open"
       /\ body' \in {"eof", "broken"}
       /\ UNCHANGED <<sent, delivered, result>>

Deliver == /\ result = "none"
           /\ Len(delivered) < Len(sent)
           /\ delivered' = Append(delivered, sent[Len(delivered) + 1])
           /\ UNCHANGED <<sent, body, result>>

Complete == \/ LastIs(delivered, Blank)
            \/ body = "eof" /\ delivered = sent

Finish == /\ result = "none"
          /\ result' \in Results \ {"none"}
          /\ result' = "ok" => Complete
          /\ result' = "parseErr" => LastIs(delivered, Bad)
          /\ UNCHANGED <<sent, body, delivered>>

LSNext == Grow \/ End \/ Deliver \/ Finish

LSSpec == LSInit /\ [][LSNext]_lsVars
=============================================================================
