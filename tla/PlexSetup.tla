----------------------------- MODULE PlexSetup ------------------------------
(***************************************************************************)
(* POST /auth/plex/setup, put together with the sign-in of module Login.   *)
(*                                                                         *)
(* The request names a server and an address for it.  The handler asks     *)
(* plex.tv for the token of that server, tries the address and then those  *)
(* that plex.tv knows until one answers as the server, and stores address  *)
(* and token in two rows of the configuration.  The rows are looked up and *)
(* written one after the other in one transaction: looking up the second   *)
(* flushes the first, whose row stays locked up to the commit.  An address *)
(* equal to the one looked up is not in the UPDATE; the token always is,   *)
(* every ciphertext being new.  PUT /settings writes either row, by hand.  *)
(* How the token is encrypted, and what a rotation does to it, is          *)
(* SecretKey's.                                                            *)
(***************************************************************************)
EXTENDS Login, Sequences

CONSTANTS
    Servers,      \* Plex servers, by machineIdentifier
    MaxAddresses  \* bound: addresses that are tried

ASSUME SetupAssumption == None \notin Servers /\ MaxAddresses \in Nat

VARIABLES
    target, \* the rows plex_host and plex_token: the server that answers at
            \* the address, and the server the token is for
    choice, \* browser -> the server named, the one at the address found,
            \* whether the rows were there, and plex_host held that address
    mixed   \* history: the address was last written by hand, or the token by a
            \* setup that left the address, which was written since it looked

setupVars == <<target, choice, mixed>>
allVars   == <<vars, setupVars>>

\* late is history: the address, to be left, was written since it was looked up.
NoChoice == [server |-> None, found |-> None, host |-> FALSE, tok |-> FALSE,
             same |-> FALSE, late |-> FALSE]

SInit ==
    /\ Init
    /\ target = [host |-> None, tok |-> None]
    /\ choice = [b \in Browsers |-> NoChoice]
    /\ mixed = FALSE

Refused(b) == Answer(b) /\ choice' = [choice EXCEPT ![b] = NoChoice]

\* What the addresses answer as; the one submitted comes first.
Answers == UNION {[1..n -> Servers \cup {None}] : n \in 1..MaxAddresses}

-----------------------------------------------------------------------------
\* The session is verified as for every request.
SetupStarts(b) ==
    /\ \/ Ask(b, "find_setup")
       \/ Verify(b, "find_setup", IF idCached THEN "setup_ask" ELSE "setup_id")
    /\ UNCHANGED setupVars

\* The row is there: a login has stored it.
SetupId(b) ==
    /\ pc[b] = "setup_id" /\ idRow
    /\ idCached' = TRUE
    /\ Goto(b, "setup_ask")
    /\ UNCHANGED <<owner, refs, idRow, key, sess, jars, req, minted, last, setupVars>> /\ Calm

\* plex.tv lists the servers: it fails, does not know the one named, or has a
\* token for it.
SetupAsks(b) ==
    /\ pc[b] = "setup_ask"
    /\ \/ Refused(b)
       \/ \E v \in Servers :
             /\ choice' = [choice EXCEPT ![b] = [NoChoice EXCEPT !.server = v]]
             /\ Goto(b, "setup_try") /\ UNCHANGED req
    /\ UNCHANGED <<config, sess, jars, minted, last, target, mixed>> /\ Calm

\* Mutant of SetupTries: the address submitted is taken when it answers.
SetupTriesOne(b, answers) ==
    /\ pc[b] = "setup_try"
    /\ IF answers[1] # None
       THEN /\ choice' = [choice EXCEPT ![b].found = answers[1]]
            /\ Goto(b, "setup_host") /\ UNCHANGED req
       ELSE Refused(b)
    /\ UNCHANGED <<config, sess, jars, minted, last, target, mixed>> /\ Calm

\* The first address that answers as the server is taken; 400 when there is none.
SetupTries(b, answers) ==
    /\ pc[b] = "setup_try"
    /\ \/ \E i \in DOMAIN answers :
             /\ answers[i] = choice[b].server
             /\ choice' = [choice EXCEPT ![b].found = answers[i]]
             /\ Goto(b, "setup_host") /\ UNCHANGED req
       \/ (\A i \in DOMAIN answers : answers[i] # choice[b].server) /\ Refused(b)
    /\ UNCHANGED <<config, sess, jars, minted, last, target, mixed>> /\ Calm

\* Is there a row plex_host, and is its address the one found?  A server may
\* answer at several.
SetupHost(b) ==
    /\ pc[b] = "setup_host"
    /\ \E same \in {FALSE, target.host = choice[b].found} :
          choice' = [choice EXCEPT ![b].host = target.host # None, ![b].same = same]
    /\ Goto(b, "setup_flush")
    /\ UNCHANGED <<config, sess, jars, req, minted, last, target, mixed>> /\ Calm

\* Its INSERT or UPDATE waits for the transaction that holds the row; an
\* INSERT then meets the primary key.  Then, is there a row plex_token?
SetupFlush(b) ==
    /\ pc[b] = "setup_flush"
    /\ \A a \in Browsers : pc[a] # "setup_commit"
    /\ IF ~choice[b].host /\ target.host # None
       THEN Refused(b)
       ELSE /\ choice' = [choice EXCEPT ![b].tok = target.tok # None]
            /\ Goto(b, "setup_commit") /\ UNCHANGED req
    /\ UNCHANGED <<config, sess, jars, minted, last, target, mixed>> /\ Calm

\* The address is written by b: those who are to leave it as it was are late.
Outdated(b) ==
    [a \in Browsers |-> IF a = b THEN NoChoice
                        ELSE [choice[a] EXCEPT !.late = choice[a].same]]

\* The token's row is written likewise, and both are committed, the address
\* unless it is the one looked up; or it fails, as when somebody has been faster
\* to insert the token.
SetupCommits(b) ==
    LET taken == ~choice[b].tok /\ target.tok # None IN
    /\ pc[b] = "setup_commit"
    /\ Answer(b)
    /\ \/ /\ ~taken
          /\ target' = [host |-> IF choice[b].same THEN target.host ELSE choice[b].found,
                          tok |-> choice[b].server]
          /\ choice' = IF choice[b].same THEN [choice EXCEPT ![b] = NoChoice] ELSE Outdated(b)
          /\ mixed' = (choice[b].same /\ choice[b].late)
          /\ Calm
       \/ /\ choice' = [choice EXCEPT ![b] = NoChoice]
          /\ UNCHANGED <<target, mixed>>
          /\ IF taken THEN Calm ELSE Trouble
    /\ UNCHANGED <<config, sess, jars, minted, last>>

\* PUT /settings, as a request that is verified: address or token, or both, as
\* the user gives them.
PutsPlex(b) ==
    /\ pc[b] = "use"
    /\ Answer(b)
    /\ \E v \in Servers :
          \/ /\ \A a \in Browsers : pc[a] # "setup_commit"
             /\ \E t \in Servers \cup {target.tok} : target' = [host |-> v, tok |-> t]
             /\ choice' = Outdated(b)
          \/ target' = [target EXCEPT !.tok = v] /\ UNCHANGED choice
    /\ mixed' = TRUE
    /\ UNCHANGED <<config, sess, jars, minted, last>> /\ Calm

-----------------------------------------------------------------------------
SetupStep(b) ==
    \/ SetupStarts(b) \/ SetupId(b) \/ SetupAsks(b) \/ SetupHost(b) \/ SetupFlush(b)
    \/ SetupCommits(b) \/ PutsPlex(b)
    \/ \E answers \in Answers : SetupTries(b, answers)

SNext ==
    \/ LoginNext /\ UNCHANGED setupVars
    \/ \E b \in Browsers : SetupStep(b)

SSpec == SInit /\ [][SNext]_allVars

-----------------------------------------------------------------------------
(* Properties                                                              *)

\* The stored token is for the server that answers at the stored address
\* ("a discovered credential is never combined with a server that does not
\* answer as the selected one", router.py 553-556), although requests for
\* different servers write two rows each at the same time - until PUT /settings
\* writes one of them by hand, or a setup leaves the address, which was the one
\* it found, and another one has written it between lookup and flush (600-609):
\* then its token stands beside the other's address, up to the next setup.
PairMatches == ~mixed => target.host = target.tok
=============================================================================
