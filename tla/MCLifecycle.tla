---------------------------- MODULE MCLifecycle ----------------------------
(* TLC instances of Lifecycle. *)
EXTENDS Lifecycle

Plain == [address |-> "unset", database |-> "unset", cookie |-> "unset",
          duration |-> "unset", https |-> "unset", secure |-> "unset",
          cert |-> "unset", key |-> "unset",
          set |-> [p \in Providers |-> {}], url |-> [p \in Providers |-> "absolute"]]

TLS == [Plain EXCEPT !.https = "true", !.cert = "path", !.key = "path"]

\* Two that start, and some that do not.
MCStarted == {Plain, TLS,
              [TLS EXCEPT !.key = "blank"], [Plain EXCEPT !.https = "true"],
              [Plain EXCEPT !.set["google"] = {"id", "secret"}],
              [Plain EXCEPT !.duration = "nonpositive"]}

Request(method, path, escaped) == [method |-> method, path |-> path, escaped |-> escaped]

\* A reaction with a slash encoded that reaches its handler, the same with the other
\* slash encoded, which the mux takes for another path, and a page.
MCSent == {Request("POST", <<"comments", "c", "react">>, {2}),
           Request("POST", <<"comments", "c", "react">>, {1}),
           Request("GET", <<"">>, {})}

\* One that starts, and a comment, which costs two seconds.
MCPlain   == {Plain}
MCComment == {Request("POST", <<"posts", "p", "comments">>, {})}
=============================================================================
