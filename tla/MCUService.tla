----------------------------- MODULE MCUService -----------------------------
EXTENDS UServiceProperties

CONSTANTS a, s, t

(* The application waits for s, with and without a timeout, and s for t; s *)
(* also calls itself, and t tells s something from its handlers.           *)
MCCalls ==
    {<<a, s, k>> : k \in {"forever", "timed", "param"}}
    \cup {<<s, t, "forever">>, <<s, s, "forever">>, <<s, s, "bare">>, <<t, s, "bare">>}
=============================================================================
