--------------------------- MODULE OAuthFlowProofs ---------------------------
(***************************************************************************)
(* Proofs about OAuthFlow: its types, the inductive invariant that ties the  *)
(* store, the cookies and the requests to the attempts that were begun, and  *)
(* that it implements OAuthService.                                          *)
(***************************************************************************)
EXTENDS OAuthFlow, TLAPS

\* A state belongs to one attempt, and was drawn for it.
BegunOnce == /\ \A a, b \in begun : a.state = b.state => a = b
             /\ \A a \in begun : a.state \in drawn
             /\ \A f \in flows : f.state \in {a.state : a \in begun}

\* States that are drawn and not saved yet are in one request only.
SaveFresh == \A r \in Requests : pc[r] = "save" =>
                /\ req[r].state \in drawn
                /\ \A a \in begun : a.state # req[r].state
                /\ \A q \in Requests \ {r} : pc[q] = "save" => req[q].state # req[r].state

\* A cookie names an attempt of its browser and provider.
JarSound == \A b \in Browsers, p \in Providers : \A c \in jar[b][p] :
               [state |-> c.state, browser |-> b, provider |-> p] \in begun

\* So does a request that sets one, or whose query matched one.
RequestSound == \A r \in Requests :
                   pc[r] \in {"consume", "exchange"} \/ reply[r] = "set" => Attempt(r) \in begun

\* Only a finished authorization request sets a cookie.
SetAtReply == \A r \in Requests : reply[r] = "set" => pc[r] = "reply"

\* A state that is being exchanged is in one request and no longer in the store.
HeldOnce == \A r \in Requests : pc[r] = "exchange" =>
               /\ \A f \in flows : f.state # req[r].state
               /\ \A q \in Requests \ {r} : pc[q] = "exchange" => req[q].state # req[r].state

Inv == TypeOK /\ BegunOnce /\ SaveFresh /\ JarSound /\ RequestSound /\ SetAtReply /\ HeldOnce

\* The data of an idle request is well typed.
LEMMA NoDataTyped == NoData \in Data
  BY OAuthFlowAssumption DEF NoData, Data

\* The types hold initially and each step keeps them.
LEMMA TypeInit == Init => TypeOK
  BY NoDataTyped, OAuthFlowAssumption DEF Init, TypeOK

\* Each step keeps the types.
LEMMA TypeStep == TypeOK /\ [Next]_vars => TypeOK'
  <1> SUFFICES ASSUME TypeOK, [Next]_vars PROVE TypeOK'
    OBVIOUS
  <1> USE NoDataTyped, OAuthFlowAssumption DEF TypeOK, net, Goto
  <1>1. ASSUME NEW r \in Requests, Start(r) PROVE TypeOK'
    <2>1. PICK b \in Browsers, p \in Providers, s \in States \ drawn :
             /\ req' = [req EXCEPT ![r] = [browser |-> b, provider |-> p, state |-> s,
                                           code |-> FALSE, at |-> now]]
             /\ drawn' = drawn \cup {s}
      BY <1>1 DEF Start
    <2>2. [browser |-> b, provider |-> p, state |-> s, code |-> FALSE, at |-> now] \in Data
      BY DEF Data
    <2>3. QED
      BY <1>1, <2>1, <2>2 DEF Start
  <1>2. ASSUME NEW r \in Requests, Save(r) PROVE TypeOK'
    <2>1. Attempt(r) \in Attempts
      BY <1>2 DEF Save, Attempt, Attempts, Data
    <2>2. [state |-> req[r].state, provider |-> req[r].provider,
           expires |-> req[r].at + Lifetime] \in Flows
      BY <1>2 DEF Save, Flows, Data
    <2>3. flows' \subseteq Flows
      BY <1>2, <2>2 DEF Save, Kept
    <2>4. reply' \in [Requests -> {"none", "set", "clear"}]
      BY <1>2 DEF Save
    <2>5. QED
      BY <1>2, <2>1, <2>3, <2>4 DEF Save
  <1>3. ASSUME NEW r \in Requests, Callback(r) PROVE TypeOK'
    <2>1. PICK b \in Browsers, p \in Providers, s \in sent \cup {None},
               answer \in {"code", "nothing", "error"} :
             /\ req' = [req EXCEPT ![r] = [browser |-> b, provider |-> p, state |-> s,
                                           code |-> answer = "code", at |-> 0]]
             /\ pc' = [pc EXCEPT ![r] = IF answer # "error" /\ CookieMatches(b, p, s)
                                        THEN "consume" ELSE "reply"]
      BY <1>3 DEF Callback
    <2>2. [browser |-> b, provider |-> p, state |-> s, code |-> answer = "code", at |-> 0] \in Data
      BY DEF Data
    <2>3. CookieMatches(b, p, s) => s \in States
      BY DEF CookieMatches
    <2>4. /\ req' \in [Requests -> Data]
          /\ pc' \in [Requests -> {"idle", "save", "consume", "exchange", "reply"}]
          /\ reply' \in [Requests -> {"none", "set", "clear"}]
      BY <1>3, <2>1, <2>2 DEF Callback
    <2>5. \A q \in Requests :
             pc'[q] \in {"save", "consume", "exchange"} \/ reply'[q] = "set" =>
                req'[q].state \in States
      BY <1>3, <2>1, <2>3 DEF Callback
    <2>6. QED
      BY <1>3, <2>4, <2>5 DEF Callback
  <1>4. ASSUME NEW r \in Requests, Consume(r) PROVE TypeOK'
    <2>1. flows' \subseteq Flows
      BY <1>4 DEF Consume, Without
    <2>2. /\ pc' \in [Requests -> {"idle", "save", "consume", "exchange", "reply"}]
          /\ \A q \in Requests \ {r} : pc'[q] = pc[q]
      BY <1>4 DEF Consume
    <2>3. QED
      BY <1>4, <2>1, <2>2 DEF Consume
  <1>5. ASSUME NEW r \in Requests, Exchange(r) PROVE TypeOK'
    <2>1. Attempt(r) \in Attempts
      BY <1>5 DEF Exchange, Attempt, Attempts, Data
    <2>2. QED
      BY <1>5, <2>1 DEF Exchange
  <1>6. ASSUME NEW r \in Requests, Reply(r) PROVE TypeOK'
    <2>1. NewCookie(r) \subseteq Cookies
      BY DEF NewCookie, Cookies
    <2>2. jar' \in [Browsers -> [Providers -> SUBSET Cookies]]
      BY <1>6, <2>1 DEF Reply
    <2>3. sent' \subseteq States
      BY <1>6 DEF Reply
    <2>4. QED
      BY <1>6, <2>2, <2>3 DEF Reply
  <1>7. CASE Crash
    BY <1>7 DEF Crash
  <1>8. CASE Tick
    BY <1>8 DEF Tick
  <1>9. CASE UNCHANGED vars
    BY <1>9 DEF vars
  <1>10. QED
    BY <1>1, <1>2, <1>3, <1>4, <1>5, <1>6, <1>7, <1>8, <1>9 DEF Next

\* OAuthFlow keeps its types.
THEOREM TypeCorrect == Spec => []TypeOK
  BY TypeInit, TypeStep, PTL DEF Spec
-----------------------------------------------------------------------------
\* The inductive invariant holds initially and each step keeps it.
LEMMA InvInit == Init => Inv
  BY TypeInit DEF Init, Inv, BegunOnce, SaveFresh, JarSound, RequestSound, SetAtReply,
     HeldOnce

\* Each step keeps the inductive invariant.
LEMMA InvStep == Inv /\ TypeOK' /\ [Next]_vars => Inv'
  <1> SUFFICES ASSUME Inv, TypeOK', [Next]_vars PROVE Inv'
    OBVIOUS
  <1> USE DEF Inv, TypeOK, net, Goto
  <1>1. ASSUME NEW r \in Requests, Start(r) PROVE Inv'
    <2>1. PICK b \in Browsers, p \in Providers, s \in States \ drawn :
             /\ req' = [req EXCEPT ![r] = [browser |-> b, provider |-> p, state |-> s,
                                           code |-> FALSE, at |-> now]]
             /\ drawn' = drawn \cup {s}
      BY <1>1 DEF Start
    <2>2. /\ req'[r].state = s /\ pc'[r] = "save"
          /\ \A q \in Requests \ {r} : req'[q] = req[q] /\ pc'[q] = pc[q]
          /\ UNCHANGED <<now, flows, jar, sent, begun, logins, reply>>
      BY <1>1, <2>1 DEF Start
    <2>3. BegunOnce'
      BY <2>1, <2>2 DEF BegunOnce
    <2>4. SaveFresh'
      BY <2>1, <2>2 DEF SaveFresh, BegunOnce
    <2>5. JarSound'
      BY <2>2 DEF JarSound
    <2>6. RequestSound' /\ SetAtReply'
      BY <1>1, <2>2 DEF Start, RequestSound, SetAtReply, Attempt
    <2>7. HeldOnce'
      BY <2>2 DEF HeldOnce
    <2>8. QED
      BY <2>3, <2>4, <2>5, <2>6, <2>7
  <1>2. ASSUME NEW r \in Requests, Save(r) PROVE Inv'
    <2>1. /\ pc[r] = "save" /\ pc' = [pc EXCEPT ![r] = "reply"]
          /\ begun' = begun \cup {Attempt(r)}
          /\ Attempt(r).state = req[r].state
          /\ UNCHANGED <<now, jar, sent, drawn, logins, req>>
          /\ \A q \in Requests \ {r} : reply'[q] = reply[q] /\ pc'[q] = pc[q]
          /\ pc'[r] = "reply"
      BY <1>2 DEF Save, Attempt
    <2>2. \A f \in flows' : f \in flows \/ f.state = req[r].state
      BY <1>2 DEF Save, Kept
    <2>3. BegunOnce'
      BY <2>1, <2>2 DEF BegunOnce, SaveFresh
    <2>4. SaveFresh'
      BY <2>1 DEF SaveFresh
    <2>5. JarSound'
      BY <2>1 DEF JarSound
    <2>6. RequestSound' /\ SetAtReply'
      BY <2>1 DEF RequestSound, SetAtReply, Attempt
    <2>7. HeldOnce'
      <3>1. \A q \in Requests : pc[q] = "exchange" => req[q].state # req[r].state
        BY <2>1 DEF RequestSound, SaveFresh, Attempt
      <3>2. QED
        BY <2>1, <2>2, <3>1 DEF HeldOnce
    <2>8. QED
      BY <2>3, <2>4, <2>5, <2>6, <2>7
  <1>3. ASSUME NEW r \in Requests, Callback(r) PROVE Inv'
    <2>1. PICK b \in Browsers, p \in Providers, s \in sent \cup {None},
               answer \in {"code", "nothing", "error"} :
             /\ req' = [req EXCEPT ![r] = [browser |-> b, provider |-> p, state |-> s,
                                           code |-> answer = "code", at |-> 0]]
             /\ pc' = [pc EXCEPT ![r] = IF answer # "error" /\ CookieMatches(b, p, s)
                                        THEN "consume" ELSE "reply"]
      BY <1>3 DEF Callback
    <2>2. /\ pc'[r] \in {"consume", "reply"}
          /\ pc'[r] = "consume" => CookieMatches(b, p, s)
          /\ Attempt(r)' = [state |-> s, browser |-> b, provider |-> p]
          /\ reply'[r] = "clear"
          /\ \A q \in Requests \ {r} : req'[q] = req[q] /\ pc'[q] = pc[q] /\ reply'[q] = reply[q]
          /\ UNCHANGED <<now, flows, jar, sent, drawn, begun, logins>>
      BY <1>3, <2>1 DEF Callback, Attempt
    <2>3. CookieMatches(b, p, s) => [state |-> s, browser |-> b, provider |-> p] \in begun
      BY DEF CookieMatches, SentCookie, JarSound
    <2>4. BegunOnce' /\ JarSound'
      BY <2>2 DEF BegunOnce, JarSound
    <2>5. SaveFresh' /\ HeldOnce'
      <3>1. pc'[r] # "save" /\ pc'[r] # "exchange"
        BY <2>2
      <3>2. SaveFresh'
        BY <2>2, <3>1 DEF SaveFresh
      <3>3. HeldOnce'
        BY <2>2, <3>1 DEF HeldOnce
      <3>4. QED
        BY <3>2, <3>3
    <2>6. RequestSound' /\ SetAtReply'
      BY <2>2, <2>3 DEF RequestSound, SetAtReply, Attempt
    <2>7. QED
      BY <2>4, <2>5, <2>6
  <1>4. ASSUME NEW r \in Requests, Consume(r) PROVE Inv'
    <2>1. /\ pc[r] = "consume" /\ pc'[r] \in {"exchange", "reply"}
          /\ flows' \subseteq flows
          /\ pc'[r] = "exchange" => flows' = Without(r)
          /\ pc'[r] = "exchange" => \E f \in flows : f.state = req[r].state
          /\ \A q \in Requests \ {r} : pc'[q] = pc[q]
          /\ UNCHANGED <<now, jar, sent, drawn, begun, logins, req, reply>>
      BY <1>4 DEF Consume, Without, Valid, Found
    <2>2. BegunOnce' /\ JarSound'
      BY <2>1 DEF BegunOnce, JarSound
    <2>3. SaveFresh'
      BY <2>1 DEF SaveFresh
    <2>4. RequestSound' /\ SetAtReply'
      BY <2>1 DEF RequestSound, SetAtReply, Attempt
    <2>5. HeldOnce'
      <3>1. pc'[r] = "exchange" =>
               \A q \in Requests \ {r} : pc[q] = "exchange" => req[q].state # req[r].state
        BY <2>1 DEF HeldOnce
      <3>2. pc'[r] = "exchange" => \A f \in flows' : f.state # req[r].state
        BY <2>1 DEF Without, Found
      <3>3. QED
        BY <2>1, <3>1, <3>2 DEF HeldOnce
    <2>6. QED
      BY <2>2, <2>3, <2>4, <2>5
  <1>5. ASSUME NEW r \in Requests, Exchange(r) PROVE Inv'
    <2>1. /\ pc[r] = "exchange" /\ pc'[r] = "reply"
          /\ \A q \in Requests \ {r} : pc'[q] = pc[q]
          /\ UNCHANGED <<now, flows, jar, sent, drawn, begun, req, reply>>
      BY <1>5 DEF Exchange
    <2>2. QED
      BY <2>1 DEF BegunOnce, SaveFresh, JarSound, RequestSound, SetAtReply, HeldOnce, Attempt
  <1>6. ASSUME NEW r \in Requests, Reply(r) PROVE Inv'
    <2>1. /\ pc[r] = "reply" /\ pc'[r] = "idle" /\ reply'[r] = "none"
          /\ \A q \in Requests \ {r} : req'[q] = req[q] /\ pc'[q] = pc[q] /\ reply'[q] = reply[q]
          /\ UNCHANGED <<now, flows, drawn, begun, logins>>
      BY <1>6 DEF Reply
    <2>2. BegunOnce' /\ SaveFresh' /\ RequestSound' /\ SetAtReply' /\ HeldOnce'
      <3>1. SaveFresh'
        BY <2>1 DEF SaveFresh
      <3>2. HeldOnce'
        BY <2>1 DEF HeldOnce
      <3>3. BegunOnce' /\ RequestSound' /\ SetAtReply'
        BY <2>1 DEF BegunOnce, RequestSound, SetAtReply, Attempt
      <3>4. QED
        BY <3>1, <3>2, <3>3
    <2>3. JarSound'
      <3>1. \A b \in Browsers, p \in Providers : \A c \in jar'[b][p] :
               \/ c \in jar[b][p]
               \/ /\ b = req[r].browser /\ p = req[r].provider
                  /\ c.state = req[r].state /\ reply[r] = "set"
        BY <1>6 DEF Reply, CookieOf, NewCookie
      <3>2. reply[r] = "set" => [state |-> req[r].state, browser |-> req[r].browser,
                                 provider |-> req[r].provider] \in begun
        BY DEF RequestSound, Attempt
      <3>3. QED
        BY <2>1, <3>1, <3>2 DEF JarSound
    <2>4. QED
      BY <2>2, <2>3
  <1>7. CASE Crash
    BY <1>7 DEF Crash, BegunOnce, SaveFresh, JarSound, RequestSound, SetAtReply, HeldOnce
  <1>8. CASE Tick
    BY <1>8 DEF Tick, BegunOnce, SaveFresh, JarSound, RequestSound, SetAtReply, HeldOnce, Attempt
  <1>9. CASE UNCHANGED vars
    BY <1>9 DEF vars, BegunOnce, SaveFresh, JarSound, RequestSound, SetAtReply, HeldOnce, Attempt
  <1>10. QED
    BY <1>1, <1>2, <1>3, <1>4, <1>5, <1>6, <1>7, <1>8, <1>9 DEF Next

\* The invariant holds in every behaviour.
THEOREM Inductive == Spec => []Inv
  <1>1. Inv /\ [Next]_vars => Inv'
    BY InvStep, TypeStep DEF Inv
  <1>2. QED
    BY InvInit, <1>1, PTL DEF Spec
-----------------------------------------------------------------------------
\* The attempts that wait for a callback, and those a callback is completing.
Open == {a \in begun : \E f \in flows : f.state = a.state}
Held == {a \in begun : \E r \in Requests : pc[r] = "exchange" /\ req[r].state = a.state}
Used == {a.state : a \in begun}

\* The initial states are the service's.
LEMMA PromiseInit == Init => Promise!Init
  BY DEF Init, Promise!Init

\* A step that leaves the mapped state alone is a stuttering step of the service.
LEMMA Stutter == UNCHANGED <<Used, Open, Held, logins>> => UNCHANGED Promise!vars
  BY DEF Used, Open, Held, Promise!vars

\* Each step is a step of the service or changes nothing the service has.
LEMMA PromiseStep == Inv /\ [Next]_vars => [Promise!Next]_Promise!vars
  <1> SUFFICES ASSUME Inv, [Next]_vars PROVE [Promise!Next]_Promise!vars
    OBVIOUS
  <1> USE DEF Inv, TypeOK, net, Goto
  <1>1. ASSUME NEW r \in Requests, Start(r) PROVE UNCHANGED <<Used, Open, Held, logins>>
    <2>1. /\ pc[r] # "exchange" /\ pc'[r] # "exchange"
          /\ \A q \in Requests \ {r} : req'[q] = req[q] /\ pc'[q] = pc[q]
          /\ UNCHANGED <<flows, begun, logins>>
      BY <1>1 DEF Start
    <2>2. QED
      BY <2>1 DEF Used, Open, Held
  <1>2. ASSUME NEW r \in Requests, Save(r) PROVE Promise!Next
    <2> DEFINE kept == {b \in Open : \E f \in Kept(req[r].at) : f.state = b.state}
    <2>2. Attempt(r) \in Attempts
      BY <1>2 DEF Save, Attempt, Attempts, Data
    <2>0. PICK a \in Attempts : a = Attempt(r)
      BY <2>2
    <2>1. /\ pc[r] = "save" /\ pc'[r] = "reply"
          /\ begun' = begun \cup {a}
          /\ a.state = req[r].state
          /\ \A q \in Requests \ {r} : pc'[q] = pc[q]
          /\ UNCHANGED <<logins, req>>
      BY <1>2, <2>0 DEF Save, Attempt
    <2>3. a.state \notin Used /\ Used' = Used \cup {a.state}
      BY <2>1 DEF Used, SaveFresh
    <2>4. Open' = kept \cup {a}
      <3>1. \A f : f \in flows' <=> \/ f \in Kept(req[r].at)
                                     \/ f = [state |-> req[r].state, provider |-> req[r].provider,
                                             expires |-> req[r].at + Lifetime]
        BY <1>2 DEF Save
      <3>2. \A b \in begun : b.state # req[r].state
        BY <2>1 DEF SaveFresh
      <3>3. Kept(req[r].at) \subseteq flows
        BY DEF Kept
      <3>4. \E f \in flows' : f.state = a.state
        <4>1. PICK f : f = [state |-> req[r].state, provider |-> req[r].provider,
                            expires |-> req[r].at + Lifetime]
          OBVIOUS
        <4>2. f \in flows' /\ f.state = a.state
          BY <2>1, <3>1, <4>1
        <4>3. QED
          BY <4>2
      <3>5. \A b \in begun : (\E f \in flows' : f.state = b.state)
                             <=> (\E f \in Kept(req[r].at) : f.state = b.state)
        BY <3>1, <3>2
      <3>6. \A b : b \in kept <=> b \in begun /\ \E f \in Kept(req[r].at) : f.state = b.state
        BY <3>3 DEF Open
      <3>7. \A b : b \in Open' <=> b \in begun' /\ \E f \in flows' : f.state = b.state
        BY DEF Open
      <3>8. QED
        BY <2>1, <3>4, <3>5, <3>6, <3>7
    <2>5. Held' = Held
      <3>1. \A q \in Requests : pc[q] = "exchange" => req[q].state # req[r].state
        BY <2>1 DEF RequestSound, SaveFresh, Attempt
      <3>2. QED
        BY <2>1, <3>1 DEF Held
    <2>6. kept \in SUBSET Open
      OBVIOUS
    <2>7. Promise!Begin(a)
      BY <2>1, <2>3, <2>4, <2>5, <2>6 DEF Promise!Begin, Used, Open, Held
    <2>8. QED
      BY <2>7 DEF Promise!Next
  <1>3. ASSUME NEW r \in Requests, Callback(r) PROVE UNCHANGED <<Used, Open, Held, logins>>
    <2>1. /\ pc[r] # "exchange" /\ pc'[r] # "exchange"
          /\ \A q \in Requests \ {r} : req'[q] = req[q] /\ pc'[q] = pc[q]
          /\ UNCHANGED <<flows, begun, logins>>
      BY <1>3 DEF Callback
    <2>2. QED
      BY <2>1 DEF Used, Open, Held
  <1>4. ASSUME NEW r \in Requests, Consume(r) PROVE Promise!Next
    <2>1. /\ pc[r] = "consume"
          /\ \A q \in Requests \ {r} : pc'[q] = pc[q]
          /\ UNCHANGED <<begun, logins, req>>
      BY <1>4 DEF Consume
    <2>2. CASE pc'[r] = "exchange"
      <3>1. flows' = Without(r) /\ \E f \in flows : f.state = req[r].state
        BY <1>4, <2>2 DEF Consume, Valid, Found
      <3>0. PICK a \in Attempts : a = Attempt(r) /\ a \in begun
        BY <2>1 DEF RequestSound
      <3>2. a \in begun /\ a.state = req[r].state
        BY <3>0 DEF Attempt
      <3>3. a \in Open
        BY <3>1, <3>2 DEF Open
      <3>4. Open' = Open \ {a}
        BY <2>1, <3>1, <3>2 DEF Open, Without, Found, BegunOnce
      <3>5. Held' = Held \cup {a}
        BY <2>1, <2>2, <3>2 DEF Held, BegunOnce
      <3>6. Promise!Take(a)
        BY <2>1, <3>3, <3>4, <3>5 DEF Promise!Take, Used, Open, Held
      <3>7. QED
        BY <3>6 DEF Promise!Next
    <2>3. CASE pc'[r] # "exchange"
      <3>1. flows' \subseteq flows
        BY <1>4 DEF Consume, Without
      <3>2. Open' \subseteq Open /\ Held' \subseteq Held
        BY <2>1, <2>3, <3>1 DEF Open, Held
      <3>3. Promise!GiveUp
        BY <2>1, <3>2 DEF Promise!GiveUp, Open, Held
      <3>4. QED
        BY <3>3 DEF Promise!Next
    <2>4. QED
      BY <2>2, <2>3
  <1>5. ASSUME NEW r \in Requests, Exchange(r) PROVE Promise!Next
    <2>1. /\ pc[r] = "exchange" /\ pc'[r] = "reply"
          /\ \A q \in Requests \ {r} : pc'[q] = pc[q]
          /\ UNCHANGED <<flows, begun, req>>
      BY <1>5 DEF Exchange
    <2>0. PICK a \in Attempts : a = Attempt(r) /\ a \in begun
      BY <2>1 DEF RequestSound
    <2>2. a \in begun /\ a.state = req[r].state
      BY <2>0 DEF Attempt
    <2>3. a \in Held /\ Held' = Held \ {a}
      BY <2>1, <2>2 DEF Held, HeldOnce, BegunOnce
    <2>4. CASE logins' = logins \cup {a}
      <3>1. Promise!LogIn(a)
        BY <2>1, <2>3, <2>4 DEF Promise!LogIn, Open, Held
      <3>2. QED
        BY <3>1 DEF Promise!Next
    <2>5. CASE UNCHANGED logins
      <3>1. Promise!GiveUp
        BY <2>1, <2>3, <2>5 DEF Promise!GiveUp, Open, Held
      <3>2. QED
        BY <3>1 DEF Promise!Next
    <2>6. QED
      BY <1>5, <2>0, <2>4, <2>5 DEF Exchange
  <1>6. ASSUME NEW r \in Requests, Reply(r) PROVE UNCHANGED <<Used, Open, Held, logins>>
    <2>1. /\ pc[r] # "exchange" /\ pc'[r] # "exchange"
          /\ \A q \in Requests \ {r} : req'[q] = req[q] /\ pc'[q] = pc[q]
          /\ UNCHANGED <<flows, begun, logins>>
      BY <1>6 DEF Reply
    <2>2. QED
      BY <2>1 DEF Used, Open, Held
  <1>7. CASE Crash
    <2>1. Promise!GiveUp
      BY <1>7 DEF Crash, Promise!GiveUp
    <2>2. QED
      BY <2>1 DEF Promise!Next
  <1>8. CASE Tick
    BY <1>8, Stutter DEF Tick, Used, Open, Held
  <1>9. CASE UNCHANGED vars
    BY <1>9, Stutter DEF vars, Used, Open, Held
  <1>10. QED
    BY <1>1, <1>2, <1>3, <1>4, <1>5, <1>6, <1>7, <1>8, <1>9, Stutter DEF Next

\* The store, the cookies, duplicated callbacks, failures and restarts implement
\* single-use attempts that stay with their browser and provider.
THEOREM ServiceImplemented == Spec => ImplementsService
  BY Inductive, PromiseInit, PromiseStep, PTL DEF Spec, ImplementsService, Promise!Spec
-----------------------------------------------------------------------------
\* The moment at which a new attempt was made has passed when it is saved.
MadeBefore == \A r \in Requests : pc[r] = "save" => req[r].at <= now

\* It holds initially,
LEMMA MadeInit == Init => MadeBefore
  BY DEF Init, MadeBefore

\* and each step keeps it: the clock does not go back.
LEMMA MadeStep == TypeOK /\ MadeBefore /\ [Next]_vars => MadeBefore'
  <1> SUFFICES ASSUME TypeOK, MadeBefore, [Next]_vars PROVE MadeBefore'
    OBVIOUS
  <1> USE DEF TypeOK, MadeBefore, Goto
  <1>1. ASSUME NEW r \in Requests, Start(r) PROVE MadeBefore'
    <2>1. /\ req'[r].at = now /\ now' = now
          /\ \A q \in Requests \ {r} : req'[q] = req[q] /\ pc'[q] = pc[q]
      BY <1>1 DEF Start
    <2>2. QED
      BY <2>1
  <1>2. ASSUME NEW r \in Requests,
               Save(r) \/ Callback(r) \/ Consume(r) \/ Exchange(r) \/ Reply(r)
        PROVE  MadeBefore'
    <2>1. /\ pc'[r] # "save" /\ now' = now
          /\ \A q \in Requests \ {r} : req'[q] = req[q] /\ pc'[q] = pc[q]
      BY <1>2 DEF Save, Callback, Consume, Exchange, Reply
    <2>2. QED
      BY <2>1
  <1>3. CASE Crash
    BY <1>3 DEF Crash
  <1>4. CASE Tick
    <2>1. now <= now' /\ \A r \in Requests : req[r].at \in Nat
      BY <1>4 DEF Tick, Data
    <2>2. QED
      BY <1>4, <2>1 DEF Tick
  <1>5. CASE UNCHANGED vars
    BY <1>5 DEF vars
  <1>6. QED
    BY <1>1, <1>2, <1>3, <1>4, <1>5 DEF Next

\* What may end an attempt: its time, its own browser's answer, a restart.
Ends(b, p, s) == \/ \E f \in flows : f.state = s /\ f.expires <= now'
                 \/ \E c \in jar[b][p] : c.state = s /\ c.until <= now'
                 \/ \E r \in Requests : /\ req[r].browser = b /\ req[r].provider = p
                                        /\ pc[r] \in {"consume", "reply"} /\ pc'[r] # pc[r]
                 \/ Crash

\* Every step that ends an attempt is one of these.
LEMMA EndStep ==
    ASSUME Inv, TypeOK', MadeBefore, [Next]_vars,
           NEW b \in Browsers, NEW p \in Providers, NEW s \in States,
           Pending(b, p, s), ~Pending(b, p, s)'
    PROVE  Ends(b, p, s)
  <1> USE DEF Inv, TypeOK, net, Goto
  <1>1. PICK f \in flows : f.state = s /\ f.provider = p
    BY DEF Pending
  <1>2. PICK c \in jar[b][p] : c.state = s /\ now < c.until
    BY DEF Pending, SentCookie
  <1>3. [state |-> s, browser |-> b, provider |-> p] \in begun
    BY <1>2 DEF JarSound
  <1>4. \/ f \notin flows'
        \/ c \notin jar'[b][p]
        \/ ~(now' < c.until)
    BY <1>1, <1>2 DEF Pending, SentCookie
  <1>5. ASSUME NEW r \in Requests, Save(r) PROVE Ends(b, p, s)
    <2>1. UNCHANGED <<now, jar>>
      BY <1>5 DEF Save
    <2>2. f \notin flows'
      BY <1>2, <1>4, <2>1
    <2>3. ~(f.expires > req[r].at) /\ req[r].at <= now
      BY <1>5, <2>2 DEF Save, Kept, MadeBefore
    <2>4. f.expires \in Nat /\ req[r].at \in Nat
      BY DEF Flows, Data
    <2>5. f.expires <= now'
      BY <2>1, <2>3, <2>4
    <2>6. QED
      BY <1>1, <2>5 DEF Ends
  <1>6. ASSUME NEW r \in Requests, Consume(r) PROVE Ends(b, p, s)
    <2>1. /\ pc[r] = "consume" /\ pc'[r] # pc[r]
          /\ UNCHANGED <<now, jar>>
          /\ Attempt(r) \in begun
      BY <1>6 DEF Consume, RequestSound
    <2>2. f \notin flows'
      BY <1>2, <1>4, <2>1
    <2>3. \/ f.expires < now
          \/ flows' = Without(r)
      BY <1>6, <2>2 DEF Consume, Flows
    <2>4. CASE f.expires < now
      BY <1>1, <2>1, <2>4 DEF Ends, Flows
    <2>5. CASE flows' = Without(r)
      <3>1. req[r].state = s
        BY <1>1, <2>2, <2>5 DEF Without, Found
      <3>2. Attempt(r) = [state |-> s, browser |-> b, provider |-> p]
        BY <1>3, <2>1, <3>1 DEF BegunOnce, Attempt
      <3>3. req[r].browser = b /\ req[r].provider = p
        BY <3>2 DEF Attempt
      <3>4. QED
        BY <2>1, <3>3 DEF Ends
    <2>6. QED
      BY <2>3, <2>4, <2>5
  <1>7. ASSUME NEW r \in Requests, Reply(r) PROVE Ends(b, p, s)
    <2>1. /\ pc[r] = "reply" /\ pc'[r] # pc[r]
          /\ UNCHANGED <<now, flows>>
      BY <1>7 DEF Reply
    <2>2. c \notin jar'[b][p]
      BY <1>2, <1>4, <2>1
    <2>3. req[r].browser = b /\ req[r].provider = p
      BY <1>7, <2>2 DEF Reply, CookieOf
    <2>4. QED
      BY <2>1, <2>3 DEF Ends
  <1>8. ASSUME NEW r \in Requests, Start(r) \/ Callback(r) \/ Exchange(r) PROVE FALSE
    BY <1>1, <1>2, <1>4, <1>8 DEF Start, Callback, Exchange
  <1>9. CASE Tick
    <2>1. UNCHANGED <<flows, jar>> /\ c.until \in Nat
      BY <1>9 DEF Tick, Cookies
    <2>2. c.until <= now'
      BY <1>4, <2>1, <1>9
    <2>3. QED
      BY <1>2, <2>2 DEF Ends
  <1>10. CASE UNCHANGED vars
    BY <1>1, <1>2, <1>4, <1>10 DEF vars
  <1>11. QED
    BY <1>5, <1>6, <1>7, <1>8, <1>9, <1>10 DEF Next, Ends

\* Neither other browsers nor other providers end an attempt.
THEOREM OnlyOwnAnswersEnd == Spec => AttemptsLast
  <1>1. MadeBefore /\ TypeOK /\ [Next]_vars => MadeBefore'
    BY MadeStep
  <1>2. Spec => []MadeBefore
    BY MadeInit, <1>1, TypeCorrect, PTL DEF Spec
  <1>3. Inv /\ MadeBefore /\ [Next]_vars =>
           [\A b \in Browsers, p \in Providers, s \in States :
               Pending(b, p, s) /\ ~Pending(b, p, s)' => Ends(b, p, s)]_vars
    BY TypeStep, EndStep DEF Inv
  <1>4. QED
    BY Inductive, <1>2, <1>3, PTL DEF Spec, AttemptsLast, Ends
-----------------------------------------------------------------------------
\* A login was begun by its browser, and the state it used is used up: it is not stored,
\* not being exchanged by another request, and will not be drawn again.
Spent == \A a \in logins :
            /\ a \in begun /\ a.state \in drawn
            /\ \A f \in flows : f.state # a.state
            /\ \A r \in Requests : pc[r] \in {"save", "exchange"} => req[r].state # a.state

\* Each step keeps a used state used up, also repeated and concurrent callbacks.
LEMMA SpentStep == Inv /\ Spent /\ [Next]_vars => Spent'
  <1> SUFFICES ASSUME Inv, Spent, [Next]_vars PROVE Spent'
    OBVIOUS
  <1> USE DEF Inv, TypeOK, Spent, Goto
  <1>1. ASSUME NEW r \in Requests, Start(r) PROVE Spent'
    <2>1. PICK b \in Browsers, p \in Providers, s \in States \ drawn :
             /\ req' = [req EXCEPT ![r] = [browser |-> b, provider |-> p, state |-> s,
                                           code |-> FALSE, at |-> now]]
             /\ drawn' = drawn \cup {s}
      BY <1>1 DEF Start
    <2>2. /\ req'[r].state = s /\ UNCHANGED <<flows, begun, logins>>
          /\ \A q \in Requests \ {r} : req'[q] = req[q] /\ pc'[q] = pc[q]
      BY <1>1, <2>1 DEF Start
    <2>3. QED
      BY <2>1, <2>2
  <1>2. ASSUME NEW r \in Requests, Save(r) PROVE Spent'
    <2>1. /\ pc[r] = "save" /\ pc'[r] = "reply" /\ begun \subseteq begun'
          /\ UNCHANGED <<drawn, logins, req>>
          /\ \A q \in Requests \ {r} : pc'[q] = pc[q]
          /\ \A f \in flows' : f \in flows \/ f.state = req[r].state
      BY <1>2 DEF Save, Kept
    <2>2. QED
      BY <2>1
  <1>3. ASSUME NEW r \in Requests, Callback(r) PROVE Spent'
    <2>1. /\ pc'[r] \in {"consume", "reply"} /\ UNCHANGED <<flows, drawn, begun, logins>>
          /\ \A q \in Requests \ {r} : req'[q] = req[q] /\ pc'[q] = pc[q]
      BY <1>3 DEF Callback
    <2>2. QED
      BY <2>1
  <1>4. ASSUME NEW r \in Requests, Consume(r) PROVE Spent'
    <2>1. /\ UNCHANGED <<drawn, begun, logins, req>> /\ flows' \subseteq flows
          /\ \A q \in Requests \ {r} : pc'[q] = pc[q]
          /\ pc'[r] \in {"exchange", "reply"}
          /\ pc'[r] = "exchange" => \E f \in flows : f.state = req[r].state
      BY <1>4 DEF Consume, Without, Valid, Found
    <2>2. QED
      BY <2>1
  <1>5. ASSUME NEW r \in Requests, Exchange(r) PROVE Spent'
    <2>1. /\ pc[r] = "exchange" /\ pc'[r] = "reply"
          /\ UNCHANGED <<flows, drawn, begun, req>>
          /\ \A q \in Requests \ {r} : pc'[q] = pc[q]
          /\ \A a \in logins' : a \in logins \/ a = Attempt(r)
      BY <1>5 DEF Exchange
    <2>2. Attempt(r) \in begun /\ Attempt(r).state = req[r].state /\ req[r].state \in drawn
      BY <2>1 DEF RequestSound, BegunOnce, Attempt
    <2>3. /\ \A f \in flows : f.state # req[r].state
          /\ \A q \in Requests \ {r} : pc[q] = "exchange" => req[q].state # req[r].state
          /\ \A q \in Requests : pc[q] = "save" => req[q].state # req[r].state
      BY <2>1, <2>2 DEF HeldOnce, SaveFresh
    <2>4. QED
      BY <2>1, <2>2, <2>3
  <1>6. ASSUME NEW r \in Requests, Reply(r) PROVE Spent'
    <2>1. /\ pc'[r] = "idle" /\ UNCHANGED <<flows, drawn, begun, logins>>
          /\ \A q \in Requests \ {r} : req'[q] = req[q] /\ pc'[q] = pc[q]
      BY <1>6 DEF Reply
    <2>2. QED
      BY <2>1
  <1>7. CASE Crash
    BY <1>7 DEF Crash
  <1>8. CASE Tick \/ UNCHANGED vars
    BY <1>8 DEF Tick, vars
  <1>9. QED
    BY <1>1, <1>2, <1>3, <1>4, <1>5, <1>6, <1>7, <1>8 DEF Next

\* A state and its verifier lead to one login at most, in the browser that began it: no
\* repeated, delayed or concurrent callback uses it again, and no restart brings it back.
THEOREM UsedOnce == Spec => []Spent
  <1>1. Init => Spent
    BY DEF Init, Spent
  <1>2. QED
    BY <1>1, Inductive, SpentStep, PTL DEF Spec
=============================================================================
