------------------------------ MODULE Channels ------------------------------
(***************************************************************************)
(* The channel registry of the build service and the builds that are       *)
(* placed through it.                                                      *)
(*                                                                         *)
(* A channel is a named destination, a channel type one of the build       *)
(* classes it accepts ("dev", "ci", ...).  Both are soft-deleted: the row   *)
(* stays, marked, and its name is free again.  A channel may point at a     *)
(* default type, a user at a default channel.  Every request is a sequence  *)
(* of SQL statements with nothing held between two of them, so a request    *)
(* is a slot that remembers what it has read; the statements of all slots   *)
(* interleave.                                                             *)
(*                                                                         *)
(* Descriptions and projects are left out; a prefix template is            *)
(* reduced to the one thing the code asks of it, whether it holds the       *)
(* ${username} variable.                                                   *)
(***************************************************************************)
EXTENDS Integers, FiniteSets

CONSTANTS
    MaxChannels,    \* ids the channels table hands out: 1 .. MaxChannels
    MaxTypes,       \* ids the channel_types table hands out: 1 .. MaxTypes
    Names,          \* channel names
    TypeNames,      \* type names ("dev", "release", "test", "ci")
    Users,          \* submitting accounts
    Robots,         \* the accounts that are robots
    Covered,        \* <<channel name, type name>> pairs the users' scopes cover
    Sources,        \* ways to submit: "api", "manual", "scheduled"
    Slots,          \* requests in progress
    None            \* an absent name

ASSUME ChannelsAssumption ==
    /\ MaxChannels \in Nat
    /\ MaxTypes \in Nat
    /\ Robots \subseteq Users
    /\ Covered \subseteq Names \X TypeNames
    /\ Sources \subseteq {"api", "manual", "scheduled"}
    /\ None \notin Names
    /\ None \notin TypeNames

VARIABLES
    chan,   \* table channels
    type,   \* table channel_types
    home,   \* users.default_channel_id, 0 for NULL
    req     \* the requests in progress

registry == <<chan, type, home, req>>

ChannelIds == 1 .. MaxChannels

TypeIds == 1 .. MaxTypes

\* A row of channels; st is "none" until the id is handed out, and def is the
\* default_type_id, 0 for NULL.
ChannelRow == [st : {"none", "active", "deleted"}, name : Names \cup {None},
               def : 0 .. MaxTypes]

\* A row of channel_types.
TypeRow == [st : {"none", "active", "deleted"}, ch : 0 .. MaxChannels,
            tname : TypeNames \cup {None}, username : BOOLEAN]

\* Every statement but the marking itself selects on deleted_at IS NULL, so what
\* a deleted row held is forgotten.
DeletedChannel == [st |-> "deleted", name |-> None, def |-> 0]

DeletedType == [st |-> "deleted", ch |-> 0, tname |-> None, username |-> FALSE]

Idle == [pc |-> "free", ch |-> 0, ty |-> 0, name |-> None, tname |-> None,
         username |-> FALSE, user |-> None, src |-> "api", landed |-> <<None, None>>]

RegistryInit ==
    /\ chan = [c \in ChannelIds |-> [st |-> "none", name |-> None, def |-> 0]]
    /\ type = [t \in TypeIds |->
                 [st |-> "none", ch |-> 0, tname |-> None, username |-> FALSE]]
    /\ home = [u \in Users |-> 0]
    /\ req = [s \in Slots |-> Idle]

-----------------------------------------------------------------------------
(* The statements of db/channels.rs.                                        *)

\* get_channel_by_id finds the channel.
ActiveChannel(c) == c \in ChannelIds /\ chan[c].st = "active"

\* get_channel_by_name.
ByName(n) == {c \in ChannelIds : ActiveChannel(c) /\ chan[c].name = n}

\* get_type_by_id finds the type.
ActiveType(t) == t \in TypeIds /\ type[t].st = "active"

\* list_types_for_channel.
TypesOf(c) == {t \in TypeIds : ActiveType(t) /\ type[t].ch = c}

\* The unique index on the names of active channels.
NameTaken(n, c) == ByName(n) \ {c} # {}

\* The unique index on the type names of one channel's active types.
TypeNameTaken(c, n) == \E t \in TypesOf(c) : type[t].tname = n

\* AUTOINCREMENT: the id the next INSERT gets.
NextId(table, ids, i) ==
    /\ i \in ids
    /\ table[i].st = "none"
    /\ \A j \in 1 .. (i - 1) : table[j].st # "none"

\* create_channel: a name in use fails the index.
InsertChannel(n, c) ==
    /\ ~NameTaken(n, 0)
    /\ NextId(chan, ChannelIds, c)
    /\ chan' = [chan EXCEPT ![c] = [st |-> "active", name |-> n, def |-> 0]]

\* update_channel: no row changes when the channel is gone, and a name in use fails.
RenameChannel(c, n) ==
    chan' = IF ActiveChannel(c) /\ ~NameTaken(n, c)
              THEN [chan EXCEPT ![c].name = n]
              ELSE chan

\* soft_delete_channel: one transaction marks the channel and its active types; the
\* users' default channels keep their values.
SoftDeleteChannel(c) ==
    /\ ActiveChannel(c)
    /\ chan' = [chan EXCEPT ![c] = DeletedChannel]
    /\ type' = [t \in TypeIds |-> IF t \in TypesOf(c) THEN DeletedType ELSE type[t]]

\* create_type: the INSERT does not ask whether the channel is still active.
InsertType(c, n, u, t) ==
    /\ ~TypeNameTaken(c, n)
    /\ NextId(type, TypeIds, t)
    /\ type' = [type EXCEPT ![t] = [st |-> "active", ch |-> c, tname |-> n, username |-> u]]

\* update_type: no row changes when the type is gone.
SetTemplate(t, u) ==
    type' = IF ActiveType(t) THEN [type EXCEPT ![t].username = u] ELSE type

\* soft_delete_type: one transaction marks the type and, if that changed a row,
\* clears every default_type_id that pointed at it.
SoftDeleteType(t) ==
    IF ActiveType(t)
      THEN /\ type' = [type EXCEPT ![t] = DeletedType]
           /\ chan' = [c \in ChannelIds |-> IF chan[c].def = t
                                               THEN [chan[c] EXCEPT !.def = 0]
                                               ELSE chan[c]]
      ELSE UNCHANGED <<type, chan>>

\* Mutant: the default is set with the channel's guard alone, trusting the
\* earlier read of the type.
DefaultTypeUnguarded(c, t) ==
    IF ActiveChannel(c)
      THEN [chan EXCEPT ![c].def = t]
      ELSE chan

\* set_default_type: UPDATE channels ... WHERE the channel is active AND EXISTS an
\* active type of it; no row changes otherwise.
DefaultTypeSet(c, t) ==
    IF ActiveChannel(c) /\ t \in TypesOf(c)
      THEN [chan EXCEPT ![c].def = t]
      ELSE chan

-----------------------------------------------------------------------------
(* Channel requests (routes/channels.rs).                                   *)

Free(s) == req' = [req EXCEPT ![s] = Idle]

Goto(s, pc) == req' = [req EXCEPT ![s].pc = pc]

Open(s, r) == req[s].pc = "free" /\ req' = [req EXCEPT ![s] = r]

\* POST /channels: one INSERT.  The re-reads that follow it only build the
\* response, here and in the other handlers.
CreateChannel(n) ==
    /\ \E c \in ChannelIds : InsertChannel(n, c)
    /\ UNCHANGED <<type, home, req>>

\* DELETE /channels/{id}: an unknown channel is a 404.
DeleteChannel(c) ==
    /\ SoftDeleteChannel(c)
    /\ UNCHANGED <<home, req>>

\* PUT /channels/{id}: read the row, merge the body over it (a body without a
\* name writes the name it read), then UPDATE.
ReadChannel(s, c) ==
    /\ ActiveChannel(c)
    /\ \E n \in Names \cup {chan[c].name} :
         Open(s, [Idle EXCEPT !.pc = "update_channel", !.ch = c, !.name = n])
    /\ UNCHANGED <<chan, type, home>>

UpdateChannel(s) ==
    /\ req[s].pc = "update_channel"
    /\ RenameChannel(req[s].ch, req[s].name)
    /\ Free(s)
    /\ UNCHANGED <<type, home>>

\* POST /channels/{id}/types: the channel row read first decides, after the
\* INSERT, whether the new type becomes the default.
ReadForType(s, c) ==
    /\ ActiveChannel(c)
    /\ \E n \in TypeNames, u \in BOOLEAN :
         Open(s, [Idle EXCEPT !.pc = "create_type", !.ch = c, !.ty = chan[c].def,
                              !.tname = n, !.username = u])
    /\ UNCHANGED <<chan, type, home>>

CreateType(s) ==
    /\ req[s].pc = "create_type"
    /\ \/ /\ type' = type           \* the unique index, or another database error
          /\ Free(s)
       \/ \E t \in TypeIds :
            /\ InsertType(req[s].ch, req[s].tname, req[s].username, t)
            /\ IF req[s].ty = 0
                 THEN req' = [req EXCEPT ![s] =
                                [Idle EXCEPT !.pc = "set_default_type",
                                             !.ch = req[s].ch, !.ty = t]]
                 ELSE Free(s)
    /\ UNCHANGED <<chan, home>>

\* The three handlers on one type of one channel first check that the
\* channel exists, then that the type exists and belongs to it.
CheckChannel(s, c, t, op, u) ==
    /\ ActiveChannel(c)
    /\ Open(s, [Idle EXCEPT !.pc = "check_type", !.ch = c, !.ty = t,
                            !.username = u, !.landed = <<op, None>>])
    /\ UNCHANGED <<chan, type, home>>

CheckForUpdate(s, c, t, u) == CheckChannel(s, c, t, "update_type", u)

CheckForDelete(s, c, t) == CheckChannel(s, c, t, "delete_type", FALSE)

CheckForDefault(s, c, t) == CheckChannel(s, c, t, "set_default_type", FALSE)

CheckType(s) ==
    /\ req[s].pc = "check_type"
    /\ IF req[s].ty \in TypesOf(req[s].ch)
         THEN req' = [req EXCEPT ![s].pc = req[s].landed[1],
                                 ![s].landed = <<None, None>>]
         ELSE Free(s)
    /\ UNCHANGED <<chan, type, home>>

\* PUT /channels/{id}/types/{tid}: the template, given or merged.
UpdateType(s) ==
    /\ req[s].pc = "update_type"
    /\ SetTemplate(req[s].ty, req[s].username)
    /\ Free(s)
    /\ UNCHANGED <<chan, home>>

\* DELETE /channels/{id}/types/{tid}.
DeleteType(s) ==
    /\ req[s].pc = "delete_type"
    /\ SoftDeleteType(req[s].ty)
    /\ Free(s)
    /\ UNCHANGED home

\* PUT /channels/{id}/default-type, and the tail of add_type.
SetDefaultType(s) ==
    /\ req[s].pc = "set_default_type"
    /\ chan' = DefaultTypeSet(req[s].ch, req[s].ty)
    /\ Free(s)
    /\ UNCHANGED <<type, home>>

-----------------------------------------------------------------------------
(* PUT /admin/entity/{email}/default-channel (routes/admin.rs).             *)

\* set_default_channel of the database.
SetDefaultChannel(u, c) == home' = [home EXCEPT ![u] = c]

\* A body without a channel clears the default at once.
ClearHome(u) ==
    /\ home[u] # 0
    /\ SetDefaultChannel(u, 0)
    /\ UNCHANGED <<chan, type, req>>

\* The channel has to exist; for a robot no type of the channel may use ${username}.
CheckHome(s, u, c) ==
    /\ ActiveChannel(c)
    /\ Open(s, [Idle EXCEPT !.pc = IF u \in Robots THEN "list_types" ELSE "set_home",
                            !.user = u, !.ch = c])
    /\ UNCHANGED <<chan, type, home>>

ListTypes(s) ==
    /\ req[s].pc = "list_types"
    /\ IF \E t \in TypesOf(req[s].ch) : type[t].username
         THEN Free(s)
         ELSE Goto(s, "set_home")
    /\ UNCHANGED <<chan, type, home>>

SetHome(s) ==
    /\ req[s].pc = "set_home"
    /\ SetDefaultChannel(req[s].user, req[s].ch)
    /\ Free(s)
    /\ UNCHANGED <<chan, type>>

-----------------------------------------------------------------------------
(* Placing a build: submit_build, trigger_task and trigger_periodic_build   *)
(* all go through resolve_and_rewrite (channels/mod.rs).                    *)

\* resolve_and_rewrite starts from the account's row; the descriptor may name a
\* channel, a type, both or neither.
Resolve(s, u, src, n, tn) ==
    /\ Open(s, [Idle EXCEPT !.pc = "lookup_channel", !.user = u, !.src = src,
                            !.name = n, !.tname = tn,
                            !.ch = IF n = None THEN home[u] ELSE 0])
    /\ UNCHANGED <<chan, type, home>>

\* POST /builds, by the submitter.
SubmitBuild(s, u, n, tn) == Resolve(s, u, "api", n, tn)

\* POST /periodic/{id}/trigger, for the caller.
TriggerTask(s, u, n, tn) == Resolve(s, u, "manual", n, tn)

\* trigger_periodic_build, for the task's owner.
TriggerPeriodicBuild(s, u, n, tn) == Resolve(s, u, "scheduled", n, tn)

\* The channel, by name or by the account's default id; its row gives the name
\* and, when no type was asked for, the default type.
LookupChannel(s) ==
    /\ req[s].pc = "lookup_channel"
    /\ LET r == req[s]
           Found == IF r.name = None THEN {c \in ChannelIds : ActiveChannel(c) /\ c = r.ch}
                                     ELSE ByName(r.name)
       IN  \/ Found = {} /\ Free(s)
           \/ \E c \in Found :
                IF r.tname # None
                  THEN req' = [req EXCEPT ![s].pc = "resolve", ![s].ch = c,
                                          ![s].name = chan[c].name]
                  ELSE IF chan[c].def = 0
                         THEN Free(s)
                         ELSE req' = [req EXCEPT ![s].pc = "lookup_type", ![s].ch = c,
                                                 ![s].name = chan[c].name,
                                                 ![s].ty = chan[c].def]
    /\ UNCHANGED <<chan, type, home>>

LookupType(s) ==
    /\ req[s].pc = "lookup_type"
    /\ IF ActiveType(req[s].ty)
         THEN req' = [req EXCEPT ![s].pc = "resolve",
                                 ![s].tname = type[req[s].ty].tname]
         ELSE Free(s)
    /\ UNCHANGED <<chan, type, home>>

\* Mutant: the join keeps the channel id of the first look-up instead of the name.
PairById(r) ==
    {t \in TypeIds : ActiveType(t) /\ type[t].tname = r.tname /\ type[t].ch = r.ch}

\* resolve_channel_type: the join of both tables on the two names, both rows
\* active.
Pair(r) ==
    {t \in TypeIds :
       /\ ActiveType(t)
       /\ type[t].tname = r.tname
       /\ ActiveChannel(type[t].ch)
       /\ chan[type[t].ch].name = r.name}

\* landed observes what the names of the destination are at this moment.
ResolveChannelType(s) ==
    /\ req[s].pc = "resolve"
    /\ \/ Pair(req[s]) = {} /\ Free(s)
       \/ \E t \in Pair(req[s]) :
            req' = [req EXCEPT ![s] =
                      [@ EXCEPT !.pc = "place", !.ch = type[t].ch, !.ty = t,
                                !.username = type[t].username,
                                !.landed = IF ActiveChannel(type[t].ch)
                                             THEN <<chan[type[t].ch].name, type[t].tname>>
                                             ELSE <<None, None>>]]
    /\ UNCHANGED <<chan, type, home>>

\* Mutant: only the assignment of default channels looks at robots.
RobotUnchecked(r) == FALSE

\* The template that was read with the pair is refused to robots by the two
\* handlers that have a caller; the scheduler has no such check.
RobotRefused(r) == r.src \in {"api", "manual"} /\ r.user \in Robots /\ r.username

\* check_channel_scope, with the names that were looked up.
CheckChannelScope(r) == <<r.name, r.tname>> \in Covered

\* The scope check, the prefix, the robot check, then the INSERT of the build.
Place(s) ==
    /\ req[s].pc = "place"
    /\ IF CheckChannelScope(req[s]) /\ ~RobotRefused(req[s])
         THEN Goto(s, "placed")
         ELSE Free(s)
    /\ UNCHANGED <<chan, type, home>>

\* The response is sent.
Respond(s) ==
    /\ req[s].pc = "placed"
    /\ Free(s)
    /\ UNCHANGED <<chan, type, home>>

-----------------------------------------------------------------------------
Begin(s) ==
    \/ \E c \in ChannelIds : ReadChannel(s, c) \/ ReadForType(s, c)
    \/ \E c \in ChannelIds, t \in TypeIds :
         \/ \E u \in BOOLEAN : CheckForUpdate(s, c, t, u)
         \/ CheckForDelete(s, c, t)
         \/ CheckForDefault(s, c, t)
    \/ \E u \in Users, c \in ChannelIds : CheckHome(s, u, c)
    \/ \E u \in Users, n \in Names \cup {None}, tn \in TypeNames \cup {None} :
         \/ "api" \in Sources /\ SubmitBuild(s, u, n, tn)
         \/ "manual" \in Sources /\ TriggerTask(s, u, n, tn)
         \/ "scheduled" \in Sources /\ TriggerPeriodicBuild(s, u, n, tn)

Continue(s) ==
    \/ UpdateChannel(s)
    \/ CreateType(s)
    \/ CheckType(s)
    \/ UpdateType(s)
    \/ DeleteType(s)
    \/ SetDefaultType(s)
    \/ ListTypes(s)
    \/ SetHome(s)
    \/ LookupChannel(s)
    \/ LookupType(s)
    \/ ResolveChannelType(s)
    \/ Place(s)
    \/ Respond(s)

RegistryNext ==
    \/ \E n \in Names : CreateChannel(n)
    \/ \E c \in ChannelIds : DeleteChannel(c)
    \/ \E u \in Users : ClearHome(u)
    \/ \E s \in Slots : Begin(s) \/ Continue(s)

RegistrySpec == RegistryInit /\ [][RegistryNext]_registry

-----------------------------------------------------------------------------
(* Properties.                                                              *)

\* The statements a request can be waiting to make.
Steps == {"free", "update_channel", "create_type", "check_type", "update_type",
          "delete_type", "set_default_type", "list_types", "set_home", "lookup_channel",
          "lookup_type", "resolve", "place", "placed"}

\* What a request remembers between two statements.
Requests == [pc : Steps, ch : 0 .. MaxChannels, ty : 0 .. MaxTypes,
             name : Names \cup {None}, tname : TypeNames \cup {None}, username : BOOLEAN,
             user : Users \cup {None}, src : {"api", "manual", "scheduled"},
             landed : (Names \cup Steps \cup {None}) \X (TypeNames \cup {None})]

\* The tables and the requests hold values of their columns.
RegistryTypeOK ==
    /\ chan \in [ChannelIds -> ChannelRow]
    /\ type \in [TypeIds -> TypeRow]
    /\ home \in [Users -> 0 .. MaxChannels]
    /\ req \in [Slots -> Requests]

\* The default type of an active channel is an active type of that channel, so
\* "default type no longer exists" (channels/mod.rs) is only ever the answer to
\* a request that read the channel before the type went away.  It takes the
\* EXISTS of set_default_type, whose caller checked the type two statements
\* earlier, and the clearing in soft_delete_type's transaction.
DefaultTypeLive ==
    \A c \in ChannelIds : ActiveChannel(c) /\ chan[c].def # 0 =>
        ActiveType(chan[c].def) /\ type[chan[c].def].ch = c

\* A build is placed where its submitter was authorised: at the moment the
\* pair was resolved, the destination was an active type of an active channel
\* and bore exactly the two names the scope check is made with, whatever
\* renames and deletions ran since the channel was first looked up.
PlacedAsAuthorised ==
    \A s \in Slots : req[s].pc = "placed" =>
        /\ req[s].landed = <<req[s].name, req[s].tname>>
        /\ req[s].landed \in Covered

\* A build submitted by a robot through the API never carries a ${username}
\* prefix, whatever happens to the channel's types after it became the robot's
\* default.
RobotPrefixRefused ==
    \A s \in Slots :
        req[s].pc = "placed" /\ req[s].user \in Robots /\ req[s].src # "scheduled"
            => ~req[s].username

\* The same of every build of a robot, the ones its periodic tasks fire included.
RobotPrefixNever ==
    \A s \in Slots :
        req[s].pc = "placed" /\ req[s].user \in Robots => ~req[s].username
=============================================================================
