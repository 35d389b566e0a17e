-------------------------- MODULE ServerLifecycle --------------------------
(***************************************************************************)
(* The life of the server process from the open listener to the return of  *)
(* Runner.Run (internal/platform/server/server.go), around the streams of  *)
(* EventStreams.                                                           *)
(*                                                                         *)
(* http.Server is external and modelled from its use: Serve accepts until  *)
(* the listener fails or Shutdown closes it, and Shutdown then waits for   *)
(* the handlers, whose requests it does not cancel, until they are done or *)
(* its context expires.  The select of Run takes either ready case.        *)
(*                                                                         *)
(* Left out: the startup, which is sequential and fails before anything    *)
(* serves, and what follows Run's return, the end of the process.          *)
(***************************************************************************)
EXTENDS EventStreams

VARIABLES
  run,          \* where Run is; "clean" and "failed" are its return
  signalled,    \* the context of signal.NotifyContext is done
  serve,        \* "accepting", "closed" by Shutdown, or how Serve returned:
                \* "stopped" with ErrServerClosed, "failed" with another error
  serveErrors   \* the channel of the same name: empty, or the error of Serve

lifeVars == <<run, signalled, serve, serveErrors>>
allVars == <<vars, lifeVars>>

Returned == run \in {"clean", "failed"}

LifeInit ==
  /\ Init
  /\ run = "serving"
  /\ signalled = FALSE
  /\ serve = "accepting"
  /\ serveErrors = "empty"

-----------------------------------------------------------------------------
\* SIGINT or SIGTERM; once the select is over another one changes nothing.
Signal ==
  /\ ~signalled /\ run = "serving"
  /\ signalled' = TRUE
  /\ UNCHANGED <<vars, run, serve, serveErrors>>

\* The listener fails.  The goroutine's send never blocks: the channel has
\* room for it.
ServeFails ==
  /\ serve = "accepting" /\ ~Returned
  /\ serve' = "failed"
  /\ serveErrors' = "failed"
  /\ UNCHANGED <<vars, run, signalled>>

\* Serve returns ErrServerClosed.
ServeCloses ==
  /\ serve = "closed"
  /\ serve' = "stopped"
  /\ serveErrors' = "closed"
  /\ UNCHANGED <<vars, run, signalled>>

\* case err := <-serveErrors; nobody has called Shutdown, so it is a failure.
SelectServeError ==
  /\ run = "serving" /\ serveErrors # "empty"
  /\ serveErrors' = "empty"
  /\ run' = IF serveErrors = "closed" THEN "clean" ELSE "failed"
  /\ UNCHANGED <<vars, signalled, serve>>

\* Mutant: the broker is not closed before the handlers are waited for.
SkipPreShutdown ==
  /\ run = "serving" /\ signalled
  /\ run' = "shutting"
  /\ UNCHANGED <<vars, signalled, serve, serveErrors>>

\* case <-ctx.Done(): broker.Close.
PreShutdown ==
  /\ run = "serving" /\ signalled
  /\ run' = "shutting"
  /\ Shutdown
  /\ UNCHANGED <<signalled, serve, serveErrors>>

\* HTTPServer.Shutdown closes the listener; Serve then returns ErrServerClosed,
\* unless it has failed by itself.
CloseListener ==
  /\ run = "shutting"
  /\ run' = "draining"
  /\ serve' = IF serve = "accepting" THEN "closed" ELSE serve
  /\ UNCHANGED <<vars, signalled, serveErrors>>

Idle == \A s \in Subscriptions : pc[s] = "new" \/ Over(s)

\* Shutdown looks at the connections before it looks at its context.
FirstPoll ==
  /\ run = "draining" /\ ~Idle
  /\ run' = "polling"
  /\ UNCHANGED <<vars, signalled, serve, serveErrors>>

\* Shutdown returns nil: it found no connection active.
Drain ==
  /\ run \in {"draining", "polling"} /\ Idle
  /\ run' = "awaiting"
  /\ UNCHANGED <<vars, signalled, serve, serveErrors>>

\* ShutdownTimeout passes first, between two polls: perhaps just after the last
\* handler has ended.
Timeout ==
  /\ run = "polling"
  /\ run' = "failed"
  /\ UNCHANGED <<vars, signalled, serve, serveErrors>>

\* Mutant: what Serve returned is not looked at.
AwaitAnything ==
  /\ run = "awaiting" /\ serveErrors # "empty"
  /\ serveErrors' = "empty"
  /\ run' = "clean"
  /\ UNCHANGED <<vars, signalled, serve>>

\* The last receive from serveErrors.
AwaitServe ==
  /\ run = "awaiting" /\ serveErrors # "empty"
  /\ serveErrors' = "empty"
  /\ run' = IF serveErrors = "closed" THEN "clean" ELSE "failed"
  /\ UNCHANGED <<vars, signalled, serve>>

Run ==
  \/ SelectServeError
  \/ PreShutdown
  \/ CloseListener
  \/ FirstPoll
  \/ Drain
  \/ Timeout
  \/ AwaitServe

\* A step of a sender, a client or a handler, while Run has not returned.
Serving(step) == ~Returned /\ step /\ UNCHANGED lifeVars

\* Connections accepted earlier carry new requests, also after the listener
\* is closed, until Shutdown finds none active.
Stream(s) ==
  \/ Serving(run # "awaiting" /\ Connect(s))
  \/ Serving(SendHeaders(s))
  \/ Serving(Select(s))
  \/ Serving(Write(s))
  \/ Serving(Return(s))
  \/ Serving(ClientMoves(s))

LifeNext ==
  \/ Signal
  \/ ServeFails
  \/ ServeCloses
  \/ Run
  \/ Serving(Sender)
  \/ \E s \in Subscriptions : Stream(s)

LifeSafety == LifeInit /\ [][LifeNext]_allVars

\* The Go scheduler runs every goroutine that can run: Run's, Serve's and the
\* handlers'.  Select picks a ready case at random, and the ticker is ready
\* once per interval only, so a case that stays ready between ticks is not
\* passed over forever: strong fairness.  A write is fair only while the
\* client is not stalled.  Neither a signal, nor a failure, nor the timeout
\* has to come.
LifeFairness ==
  /\ WF_allVars(ServeCloses)
  /\ WF_allVars(SelectServeError \/ PreShutdown \/ CloseListener \/ AwaitServe)
  /\ WF_allVars(Drain)
  /\ \A s \in Subscriptions :
       /\ WF_allVars(Serving(SendHeaders(s)))
       /\ WF_allVars(Serving(Return(s)))
       /\ SF_allVars(Serving(SelectEvent(s)))
       /\ SF_allVars(Serving(SelectClosed(s)))
       /\ SF_allVars(Serving(SelectDone(s)))
       /\ WF_allVars(Serving(client[s] # "stalled" /\ Write(s)))

LifeSpec == LifeSafety /\ LifeFairness

-----------------------------------------------------------------------------
\* Run returns nil only after everything it started has ended well: the broker
\* is closed, no handler runs and none is still to be unsubscribed, and Serve
\* has returned ErrServerClosed, which Run has received: never after a failure
\* of the listener, also when signal and failure came together.
CleanMeansClean ==
  run = "clean" =>
    /\ closed /\ Idle
    /\ \A s \in Subscriptions : channel[s] # "open"
    /\ serve = "stopped" /\ serveErrors = "empty"

\* A listener that failed makes Run return an error, whichever case the select
\* took and however the shutdown went.
FailureIsReported ==
  [][serveErrors = "failed" /\ serveErrors' = "empty" => run' = "failed"]_allVars

\* After a signal Run returns without waiting for its timeout, unless a client
\* stalls: the open streams, which never end by themselves, do not hold up the
\* shutdown.
StreamsLetShutdownEnd ==
  (<>signalled /\ \A s \in Subscriptions : <>[](client[s] # "stalled")) => <>Returned

\* A stream ends, after its buffered events, once an overflow closed its
\* channel or its client has left, unless the client stalls; the client of an
\* overflow then reconnects.
StreamsEnd ==
  \A s \in Subscriptions :
    /\ (<>(channel[s] = "closed") /\ <>[](client[s] # "stalled")) => <>(Over(s) \/ Returned)
    /\ (<>(client[s] = "gone" /\ pc[s] # "new")) => <>(Over(s) \/ Returned)

\* While the client reads, every event of a stream reaches the response, or
\* the stream is over.
BufferedAreWritten ==
  \A s \in Subscriptions, m \in Messages :
    []((\E i \in DOMAIN buffer[s] : buffer[s][i] = m) =>
         <>(client[s] = "stalled" \/ Over(s) \/ Returned
              \/ \E i \in DOMAIN written[s] : written[s][i] = m))
=============================================================================
