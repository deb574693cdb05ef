-------------------------- MODULE TimeEventRegistry --------------------------
(***************************************************************************)
(* One of the two subscriber sets of TimeEventNotificationService          *)
(* (hourChangeChannels or dayChangeChannels) and the subscribers' Go       *)
(* channels, all made with capacity 1: Register, Unregister and the        *)
(* non-blocking send of notify.                                            *)
(*                                                                         *)
(* Simulated time is kept relative: an event is represented by its age,    *)
(* the whole hours that have passed since the instant it carries.  No      *)
(* event waits longer than MaxLag hours (a bound on the passing of time).  *)
(***************************************************************************)
EXTENDS Naturals, Sequences

CONSTANTS
    Chans,         \* identities of subscriber channels (reused once garbage)
    MaxLag         \* bound: hours an event may wait before it is consumed

VARIABLES
    channels,      \* the registered channels
    buffer         \* the content of each channel, at most one event

RegistryInit ==
    /\ channels = {}
    /\ buffer = [c \in Chans |-> <<>>]

RegistryRestart ==
    /\ channels' = {}
    /\ buffer' = [c \in Chans |-> <<>>]

Register(ch) == channels' = channels \cup {ch}

Unregister(ch) == channels' = channels \ {ch}

\* select { case ch <- currentTime: default: }: a full channel is skipped.
Offer(ch, age) ==
    buffer' = [buffer EXCEPT ![ch] = IF @ = <<>> THEN <<age>> ELSE @]

\* An hour may pass only while no subscriber has left an event for MaxLag.
EventsMayAge == \A c \in channels : buffer[c] # <<>> => buffer[c][1] < MaxLag

\* Undelivered events are one hour older (in a channel nobody reads any more
\* the age stays at the bound).
Aged(content) ==
    IF content # <<>> /\ content[1] < MaxLag THEN <<content[1] + 1>> ELSE content

AgeEvents == buffer' = [c \in Chans |-> Aged(buffer[c])]

RegistryTypeOK ==
    /\ channels \subseteq Chans
    /\ buffer \in [Chans -> {<<>>} \cup {<<a>> : a \in 0..MaxLag}]
=============================================================================
