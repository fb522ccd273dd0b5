----------------------------- MODULE SingleReader -----------------------------
(***************************************************************************)
(* A cabinet with one reader: on a serial port (real_rfid_pn532_usb.py),   *)
(* which remembers what it read from each tag and looks for its port again *)
(* when the reader is lost, or on SPI (real_rfid_rc522.py), which does     *)
(* neither.  A poll reads the tag's number and then its pages, and the     *)
(* crew may exchange the can between the two.                              *)
(***************************************************************************)
EXTENDS Naturals

CONSTANTS
  Tags,          \* the tags of the cans
  NoTag,         \* no can on the reader
  Products,      \* what is written on tags
  Blank,         \* no product: nothing written, or not readable
  Unread,        \* the reader has not cached the tag
  Plugs,         \* the ports the reader may be plugged into
  NoPort,        \* none
  MaxChanges     \* a bound on the cans moved, tags written and plugs moved

VARIABLES
  kind,          \* "usb" or "spi"
  tag,           \* the tag that lies on the reader
  content,       \* what is written on each tag
  cache,         \* _tag_cache
  ready,         \* _initialized
  open,          \* the port that _ser and _pn532 have open; NoPort without
  port,          \* _port, once a connection was made
  plugged,       \* where the reader is
  backoff,       \* has less than _reconnect_backoff_s passed since the last try?
  poll,          \* the tag a poll reads the pages of; NoTag when none does
  writing,       \* does write_product_data hold the lock?
  closing,       \* has shutdown closed the port, and not yet cleared ready?
  reading,       \* what the last poll returned
  spoilt,        \* tags changed since their pages were read, or read badly
  changes

readerVars == <<kind, tag, content, cache, ready, open, port, plugged, backoff, poll, writing,
                closing, reading, spoilt, changes>>

ReaderAssumption ==
  /\ NoTag \notin Tags /\ NoPort \notin Plugs /\ MaxChanges \in Nat
  /\ Blank \notin Products /\ Unread \notin Products \cup {Blank}

Nothing == [tag |-> NoTag, data |-> Blank]
Contents == Products \cup {Blank}

TypeOK ==
  /\ kind \in {"usb", "spi"} /\ tag \in Tags \cup {NoTag} /\ poll \in Tags \cup {NoTag}
  /\ content \in [Tags -> Contents] /\ cache \in [Tags -> Contents \cup {Unread}]
  /\ open \in Plugs \cup {NoPort} /\ port \in Plugs \cup {NoPort}
  /\ plugged \in Plugs \cup {NoPort}
  /\ ready \in BOOLEAN /\ backoff \in BOOLEAN /\ writing \in BOOLEAN /\ closing \in BOOLEAN
  /\ reading \in [tag : Tags \cup {NoTag}, data : Contents]
  /\ spoilt \subseteq Tags /\ changes \in 0 .. MaxChanges

Init ==
  /\ kind \in {"usb", "spi"} /\ tag \in Tags \cup {NoTag}
  /\ content \in [Tags -> Contents] /\ cache = [t \in Tags |-> Unread]
  /\ ready = FALSE /\ open = NoPort /\ port = NoPort /\ plugged \in Plugs
  /\ backoff = FALSE /\ poll = NoTag /\ writing = FALSE /\ closing = FALSE
  /\ reading = Nothing /\ spoilt = {} /\ changes = 0

Locked == poll # NoTag \/ writing

(* _connect and _find_port: at the remembered port, or, when none is       *)
(* remembered, where a port like the reader's is found.                    *)
Findable == plugged # NoPort /\ port \in {NoPort, plugged}

Connected == /\ Findable
             /\ open' = plugged /\ port' = plugged /\ ready' = TRUE
(* mutant: a reader that is lost still passes for ready.                   *)
NotConnected_StaysReady == open' = NoPort /\ UNCHANGED <<ready, port>>
NotConnected == open' = NoPort /\ ready' = FALSE /\ UNCHANGED port

-----------------------------------------------------------------------------
(* initialize, with its three tries.                                       *)
Initialize ==
  /\ ~ready /\ ~Locked /\ ~closing
  /\ Connected \/ NotConnected
  /\ UNCHANGED <<kind, tag, content, cache, plugged, backoff, poll, writing, closing, reading,
                 spoilt, changes>>

(* _try_reconnect: not before the pause is over; the port is closed first. *)
Reconnect ==
  IF backoff THEN UNCHANGED <<open, port, ready, backoff>>
             ELSE backoff' = TRUE /\ (Connected \/ NotConnected)

Down == ~ready \/ open = NoPort

(* poll_tags without a reader: the one on USB is looked for, without the   *)
(* lock.                                                                   *)
PollDown ==
  /\ Down /\ poll = NoTag
  /\ IF kind = "usb" THEN Reconnect ELSE UNCHANGED <<open, port, ready, backoff>>
  /\ reading' = Nothing
  /\ UNCHANGED <<kind, tag, content, cache, plugged, poll, writing, closing, spoilt, changes>>

(* poll_tags reads the number.  A cached tag's pages are not read again.   *)
PollNumber ==
  /\ ~Down /\ ~Locked /\ plugged = open
  /\ IF tag = NoTag \/ cache[tag] = Unread
       THEN reading' = Nothing /\ poll' = tag
       ELSE reading' = [tag |-> tag, data |-> cache[tag]] /\ UNCHANGED poll
  /\ UNCHANGED <<kind, tag, content, cache, ready, open, port, plugged, backoff, writing,
                 closing, spoilt, changes>>

(* The pages are those of the tag that lies there now, and are taken for   *)
(* those of the number that was read; a failure is taken for a blank tag.  *)
PagesRead == {Blank} \cup {content[t] : t \in {tag} \cap Tags}
PollPages ==
  /\ poll # NoTag
  /\ \E data \in PagesRead :
       /\ reading' = [tag |-> poll, data |-> data]
       /\ cache' = IF kind = "usb" THEN [cache EXCEPT ![poll] = data] ELSE cache
       /\ spoilt' = IF data = content[poll] THEN spoilt \ {poll} ELSE spoilt \cup {poll}
  /\ poll' = NoTag
  /\ UNCHANGED <<kind, tag, content, ready, open, port, plugged, backoff, writing, closing,
                 changes>>

(* An error.  On an I/O error the reader is looked for again; any other    *)
(* error leaves it as it is.                                               *)
PollError ==
  /\ ~Down /\ ~Locked
  /\ reading' = Nothing
  /\ \/ UNCHANGED <<open, port, ready, backoff>>
     \/ kind = "usb" /\ Reconnect
  /\ UNCHANGED <<kind, tag, content, cache, plugged, poll, writing, closing, spoilt, changes>>

Poll == PollDown \/ PollNumber \/ PollPages \/ PollError

PauseOver ==
  /\ backoff /\ backoff' = FALSE
  /\ UNCHANGED <<kind, tag, content, cache, ready, open, port, plugged, poll, writing, closing,
                 reading, spoilt, changes>>

-----------------------------------------------------------------------------
(* write_product_data, page by page; the cache keeps what it had.          *)
BeginWrite ==
  /\ kind = "usb" /\ open # NoPort /\ ~Locked /\ ~closing /\ changes < MaxChanges
  /\ writing' = TRUE /\ changes' = changes + 1
  /\ UNCHANGED <<kind, tag, content, cache, ready, open, port, plugged, backoff, poll, closing,
                 reading, spoilt>>

EndWrite ==
  /\ writing /\ writing' = FALSE
  /\ IF tag = NoTag \/ plugged # open
       THEN UNCHANGED <<content, spoilt>>
       ELSE /\ \E p \in Contents : content' = [content EXCEPT ![tag] = p]
            /\ spoilt' = spoilt \cup {tag}
  /\ UNCHANGED <<kind, tag, cache, ready, open, port, plugged, backoff, poll, closing, reading,
                 changes>>

(* shutdown: the port is closed under the lock, and then the reader is no  *)
(* longer ready.  A poll between the two opens the port again.             *)
Shutdown ==
  /\ ready /\ ~Locked /\ ~closing
  /\ closing' = TRUE /\ open' = NoPort
  /\ UNCHANGED <<kind, tag, content, cache, ready, port, plugged, backoff, poll, writing,
                 reading, spoilt, changes>>

EndShutdown ==
  /\ closing /\ closing' = FALSE /\ ready' = FALSE
  /\ UNCHANGED <<kind, tag, content, cache, open, port, plugged, backoff, poll, writing,
                 reading, spoilt, changes>>

-----------------------------------------------------------------------------
(* The crew moves a can, or the plug.                                      *)
MoveCan ==
  /\ changes < MaxChanges /\ changes' = changes + 1
  /\ tag' \in (Tags \cup {NoTag}) \ {tag}
  /\ UNCHANGED <<kind, content, cache, ready, open, port, plugged, backoff, poll, writing,
                 closing, reading, spoilt>>

MovePlug ==
  /\ changes < MaxChanges /\ changes' = changes + 1
  /\ plugged' \in (Plugs \cup {NoPort}) \ {plugged}
  /\ UNCHANGED <<kind, tag, content, cache, ready, open, port, backoff, poll, writing, closing,
                 reading, spoilt>>

Next == Initialize \/ Poll \/ PauseOver \/ BeginWrite \/ EndWrite \/ Shutdown \/ EndShutdown
          \/ MoveCan \/ MovePlug

Spec == Init /\ [][Next]_readerVars

-----------------------------------------------------------------------------
(* What a poll tells of a tag, and what is cached of it, is what the tag   *)
(* says, unless it was written since it was first seen, or the can was     *)
(* exchanged or lifted while its pages were read: the cache keeps that for *)
(* good.  And a reader that was found is looked for where it was.          *)
SingleTellsTag ==
  /\ \A t \in Tags \ spoilt : cache[t] \in {Unread, content[t]}
  /\ reading.tag \in Tags \ spoilt => reading.data = content[reading.tag]
  /\ open # NoPort => open = port
  /\ ready /\ ~closing => open # NoPort
=============================================================================
