------------------------------- MODULE Config -------------------------------
(***************************************************************************)
(* What config.Load makes of the process's environment. A value is what the   *)
(* checks tell apart: not set, of each acceptable kind, or of no use.          *)
(***************************************************************************)
EXTENDS Routes

Texts     == {"unset", "good", "bad"}   \* address, database path, cookie name
Durations == {"unset", "positive", "nonpositive", "malformed"}
Switches  == {"unset", "true", "false", "malformed"}
Files     == {"unset", "blank", "path"}
Settings  == {"id", "secret", "redirect"}
Redirects == {"absolute", "relative", "malformed"}  \* what a redirect URL is, if set

Environments ==
    [address : Texts, database : Texts, cookie : Texts, duration : Durations,
     https : Switches, secure : Switches, cert : Files, key : Files,
     set : [Providers -> SUBSET Settings], url : [Providers -> Redirects]]

\* Load: defaults, then what is set; HTTPS makes cookies secure.
SecureCookie(e) == e.https = "true" \/ e.secure = "true"

Enabled(e) == {p \in Providers : e.set[p] # {}}

Loaded(e) == [https |-> e.https = "true", secure |-> SecureCookie(e),
              providers |-> Enabled(e)]

\* validateHTTPS: both files or none, and both for HTTPS.
Pair(e) == (e.cert = "path") = (e.key = "path")

ValidHTTPS(e) == Pair(e) /\ (e.https = "true" => e.cert = "path")

\* validateOAuthProvider: nothing, or everything and an absolute URL.
ValidProvider(e, p) == e.set[p] = {} \/ (e.set[p] = Settings /\ e.url[p] = "absolute")

Valid(e) == /\ "bad" \notin {e.address, e.database, e.cookie}
            /\ e.duration \in {"unset", "positive"}
            /\ "malformed" \notin {e.https, e.secure}
            /\ ValidHTTPS(e)
            /\ \A p \in Providers : ValidProvider(e, p)
=============================================================================
