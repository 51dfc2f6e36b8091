--------------------------- MODULE AudioApplications ---------------------------
(***************************************************************************)
(* AudioApplicationModel: the playback streams of the audio controller as  *)
(* one row for each application, where a volume or mute that was asked for *)
(* an application is inherited by the streams it opens later.  The         *)
(* controller, which is not of this repository, carries commands out later.*)
(***************************************************************************)
EXTENDS Naturals, Sequences, FiniteSets, SequencesExt, Subsequences

CONSTANTS Streams,     \* stream ids
          AudioApps,        \* keys: application id, binary, name or the stream's own
          AudioVolumes,     \* percentages
          NoRequest,   \* an optional that is empty
          MaxCommands  \* bound: commands on their way

LargestInt == 2147483647

\* Volumes are ints; no volume and no bool is an empty optional.
ASSUME AudioAssumption == AudioVolumes \subseteq 0..LargestInt /\ NoRequest \notin AudioVolumes /\ NoRequest \notin BOOLEAN

VARIABLES
  audioStreams,   \* the controller's playback streams, in its order
  audioCommands,  \* commands on their way
  audioGroups,    \* groups_
  audioHeard      \* ghost: the last volume and mute commanded to each stream

audioVars == <<audioStreams, audioCommands, audioGroups, audioHeard>>

Ids(streams) == {streams[i].id : i \in DOMAIN streams}

AudioTypeOK ==
  /\ \A i \in DOMAIN audioStreams : audioStreams[i] \in [id : Streams, key : AudioApps, volume : AudioVolumes, muted : BOOLEAN]
  /\ \A i \in DOMAIN audioCommands :
       audioCommands[i] \in [id : Streams, volume : AudioVolumes \cup {NoRequest}, muted : BOOLEAN \cup {NoRequest}]
  /\ \A i \in DOMAIN audioGroups :
       /\ audioGroups[i].key \in AudioApps /\ audioGroups[i].members \in Seq(Streams)
       /\ audioGroups[i].volume \in AudioVolumes \cup {0} /\ audioGroups[i].muted \in BOOLEAN
       /\ audioGroups[i].wantVolume \in AudioVolumes \cup {NoRequest}
       /\ audioGroups[i].wantMuted \in BOOLEAN \cup {NoRequest}
  /\ audioHeard \in [Streams -> [volume : AudioVolumes \cup {NoRequest}, muted : BOOLEAN \cup {NoRequest}]]

Unheard == [volume |-> NoRequest, muted |-> NoRequest]

AudioInit ==
  /\ audioStreams = <<>> /\ audioCommands = <<>> /\ audioGroups = <<>>
  /\ audioHeard = [s \in Streams |-> Unheard]

----------------------------------------------------------------------------
(* synchronize                                                             *)

MembersOf(streams, key) ==
  LET rows == SubSeqAt(streams, {i \in DOMAIN streams : streams[i].key = key}) IN [i \in DOMAIN rows |-> rows[i].id]

Loudest(streams, key) ==
  LET volumes == {0} \cup {streams[i].volume : i \in {j \in DOMAIN streams : streams[j].key = key}} IN
  CHOOSE v \in volumes : \A w \in volumes : w <= v

GroupRow(streams, key, wantVolume, wantMuted) ==
  [key |-> key, members |-> MembersOf(streams, key), volume |-> Loudest(streams, key),
   muted |-> \A i \in DOMAIN streams : streams[i].key = key => streams[i].muted,
   wantVolume |-> wantVolume, wantMuted |-> wantMuted]

KeysInOrder(streams) ==
  LET firsts == SubSeqAt(streams, {i \in DOMAIN streams : \A j \in 1..(i - 1) : streams[j].key # streams[i].key}) IN
  [i \in DOMAIN firsts |-> firsts[i].key]

\* Vanished groups are removed, the others keep their place and requests, new ones follow.
Grouped(groups, streams) ==
  LET kept == SubSeqAt(groups, {i \in DOMAIN groups : \E j \in DOMAIN streams : streams[j].key = groups[i].key})
      new == ElementsIn(KeysInOrder(streams), AudioApps \ {groups[i].key : i \in DOMAIN groups}) IN
  [i \in DOMAIN kept |-> GroupRow(streams, kept[i].key, kept[i].wantVolume, kept[i].wantMuted)]
    \o [i \in DOMAIN new |-> GroupRow(streams, new[i], NoRequest, NoRequest)]

\* The stream was not of its group before, and the group was asked something.
Inherits(groups, s) ==
  \E i \in DOMAIN groups :
    /\ groups[i].key = s.key /\ ~Contains(groups[i].members, s.id)
    /\ groups[i].wantVolume # NoRequest \/ groups[i].wantMuted # NoRequest

\* The command to each stream that inherits, which go to different streams.
Inherited(groups, streams) ==
  LET joined == SubSeqAt(streams, {i \in DOMAIN streams : Inherits(groups, streams[i])})
      Old(s) == groups[CHOOSE i \in DOMAIN groups : groups[i].key = s.key] IN
  [i \in DOMAIN joined |-> [id |-> joined[i].id, volume |-> Old(joined[i]).wantVolume, muted |-> Old(joined[i]).wantMuted]]

\* The volume and the mute of the last command to the stream that says one.
VolumeTold(was, commands, id) ==
  LET says == {i \in DOMAIN commands : commands[i].id = id /\ commands[i].volume # NoRequest} IN
  IF says = {} THEN was ELSE commands[CHOOSE i \in says : \A j \in says : j <= i].volume

MutedTold(was, commands, id) ==
  LET says == {i \in DOMAIN commands : commands[i].id = id /\ commands[i].muted # NoRequest} IN
  IF says = {} THEN was ELSE commands[CHOOSE i \in says : \A j \in says : j <= i].muted

Command(heard, commands) ==
  /\ Len(audioCommands) + Len(commands) <= MaxCommands
  /\ audioCommands' = audioCommands \o commands
  /\ audioHeard' = [id \in Streams |-> [volume |-> VolumeTold(heard[id].volume, commands, id),
                                       muted |-> MutedTold(heard[id].muted, commands, id)]]

\* Every change of the source synchronizes; the commands follow once membership is committed.
Synchronize(heard, streams) ==
  /\ audioStreams' = streams /\ audioGroups' = Grouped(audioGroups, streams)
  /\ Command(heard, Inherited(audioGroups, streams))

----------------------------------------------------------------------------
(* The controller and the user.                                            *)

StreamOpens(id) ==
  /\ id \notin Ids(audioStreams)
  /\ \E key \in AudioApps, v \in AudioVolumes :
       Synchronize([audioHeard EXCEPT ![id] = Unheard],
                   Append(audioStreams, [id |-> id, key |-> key, volume |-> v, muted |-> FALSE]))

StreamCloses(id) ==
  /\ id \in Ids(audioStreams)
  /\ Synchronize([audioHeard EXCEPT ![id] = Unheard],
                 SubSeqAt(audioStreams, {i \in DOMAIN audioStreams : audioStreams[i].id # id}))

\* A stream's application becomes known, or another mixer sets it.
StreamChanges(i) ==
  /\ i \in DOMAIN audioStreams
  /\ \/ \E key \in AudioApps \ {audioStreams[i].key} : Synchronize(audioHeard, [audioStreams EXCEPT ![i].key = key])
     \/ \E v \in AudioVolumes \ {audioStreams[i].volume} : Synchronize(audioHeard, [audioStreams EXCEPT ![i].volume = v])

\* The stream once the command reached it, if it is the command's.
Commanded(s, c) ==
  IF s.id # c.id THEN s
  ELSE [s EXCEPT !.volume = IF c.volume = NoRequest THEN @ ELSE c.volume, !.muted = IF c.muted = NoRequest THEN @ ELSE c.muted]

CommandDone ==
  /\ audioCommands # <<>>
  /\ LET streams == [i \in DOMAIN audioStreams |-> Commanded(audioStreams[i], Head(audioCommands))] IN
     audioStreams' = streams /\ audioGroups' = Grouped(audioGroups, streams)
  /\ audioCommands' = Tail(audioCommands) /\ UNCHANGED audioHeard

\* setVolume and setMuted of the row with the key
SetGroup(i, volume, muted) ==
  /\ i \in DOMAIN audioGroups
  /\ LET g == audioGroups[i] IN
     /\ audioGroups' = [audioGroups EXCEPT ![i].wantVolume = IF volume = NoRequest THEN @ ELSE volume,
                                           ![i].wantMuted = IF muted = NoRequest THEN @ ELSE muted]
     /\ Command(audioHeard, [j \in DOMAIN g.members |-> [id |-> g.members[j], volume |-> volume, muted |-> muted]])
  /\ UNCHANGED audioStreams

AudioNext ==
  \/ \E id \in Streams : StreamOpens(id) \/ StreamCloses(id)
  \/ \E i \in 1..Cardinality(Streams) :
       \/ StreamChanges(i)
       \/ \E v \in AudioVolumes : SetGroup(i, v, NoRequest)
       \/ \E m \in BOOLEAN : SetGroup(i, NoRequest, m)
  \/ CommandDone

\* Every stream is in the row of its application and in no other, each row says how loud its
\* streams are, and each stream was last told what its row was last asked, whenever it joined.
GroupsAreObeyed ==
  /\ \A i, j \in DOMAIN audioGroups : audioGroups[i].key = audioGroups[j].key => i = j
  /\ {audioGroups[i].key : i \in DOMAIN audioGroups} = {audioStreams[i].key : i \in DOMAIN audioStreams}
  /\ \A i \in DOMAIN audioGroups :
       LET g == audioGroups[i]
           row == GroupRow(audioStreams, g.key, g.wantVolume, g.wantMuted) IN
       /\ g = row
       /\ \A id \in Streams : Contains(g.members, id) =>
            /\ g.wantVolume # NoRequest => audioHeard[id].volume = g.wantVolume
            /\ g.wantMuted # NoRequest => audioHeard[id].muted = g.wantMuted
=============================================================================
