------------------------------- MODULE Poller -------------------------------
(***************************************************************************)
(* The vector of pollfd entries kept by class Poller, as a sequence.  The  *)
(* order of the entries matters: the event loop walks it by index while    *)
(* addFd and removeFd change it.                                           *)
(***************************************************************************)
EXTENDS Integers, SequencesExt

PollEvents == {"IN", "OUT"}              \* POLLIN, POLLOUT

PollFds(FdSet) ==
  [fd : FdSet, events : SUBSET PollEvents, revents : SUBSET PollEvents]

PollFd(fd, events) == [fd |-> fd, events |-> events, revents |-> {}]

\* Slip: POLLOUT is not watched.
AddFdForInput(fds, fd, events) == Append(fds, PollFd(fd, {"IN"}))

\* Poller::addFd: push_back of an entry whose revents are 0.
addFd(fds, fd, events) == Append(fds, PollFd(fd, events))

\* Poller::removeFd: erase the first entry for fd, the later ones move up.
removeFd(fds, fd) == RemoveFirstMatch(fds, LAMBDA p : p.fd = fd)

\* What ::poll stores: the watched events among those that are ready.
\* ready is a function from file descriptors to sets of events.
Polled(fds, ready) ==
  [k \in DOMAIN fds |->
     [fds[k] EXCEPT !.revents = ready[fds[k].fd] \cap fds[k].events]]

FdsOf(fds) == {fds[k].fd : k \in DOMAIN fds}
=============================================================================
