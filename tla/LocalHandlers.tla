----------------------------- MODULE LocalHandlers -----------------------------
(***************************************************************************)
(* The write tools of the local server, each as the record of what decides *)
(* whether a call of it may go on: the resources it reads, in the order in *)
(* which it awaits them, what each must be, and what of it the user is     *)
(* shown.  LocalWrites gives these records their behaviour.                *)
(*                                                                         *)
(* A fact is one thing a handler learns from Hudson; its values are the    *)
(* cases the handlers tell apart.  The value "missing" stands for a failed *)
(* or incomplete answer.  Reads that are started together are listed one   *)
(* after the other: what they find may change between any two of them.     *)
(***************************************************************************)
EXTENDS Naturals, Sequences

Values ==
  [\* An order detail: awaiting check-in, today or later; in house, until later
   \* or until today; over.
   stay     |-> {"due", "early", "staying", "leaving", "gone"},
   money    |-> {"none", "some"},        \* taken, or the order is a channel's
   detail   |-> {"d1", "d2"},            \* what is shown of an order detail
   assigned |-> {"asked", "other"},      \* the room it has is the one asked for
   guest    |-> {"named", "unnamed"},    \* order and guest are both shown
   room     |-> {"listed", "otherCategory"},
   dirt     |-> {"clean", "dirty"},
   vacancy  |-> {"free", "taken"},
   booking  |-> {"none", "booked"},
   closure  |-> {"none", "manual", "maintenance", "foreign"},
   block    |-> {"none", "blocked"},
   price    |-> {"p1", "p2", "locked"},
   quote    |-> {"p1", "p2"},
   options  |-> {"enabled", "disabled"}, \* order channel and payment way
   account  |-> {"verified", "other"},
   poi      |-> {"absent", "present"},
   count    |-> {"n1", "n2"},            \* how many properties are connected
   mapping  |-> {"unmapped", "mapped"},
   target   |-> {"own", "foreign"},
   rivals   |-> {"none", "some"},
   pulled   |-> {"some", "none"}]

Fact == DOMAIN Values

\* A handler that ends in previewOrExecute.
Previewed(region, reads, needs, shown) ==
  [region |-> region, direct |-> FALSE, reads |-> reads, needs |-> needs,
   lenient |-> {}, shown |-> shown, pinned |-> shown]

\* A handler that previews as text and writes when confirm is true.
Direct(reads, needs, lenient) ==
  [region |-> "overseas", direct |-> TRUE, reads |-> reads, needs |-> needs,
   lenient |-> lenient, shown |-> {}, pinned |-> {}]

-----------------------------------------------------------------------------
(***************************************************************************)
(* Domestic properties.                                                    *)
(***************************************************************************)

CnCheckIn ==
  Previewed("cn", <<{"stay", "detail"}>>,
            [stay |-> {"due"}, detail |-> Values.detail], {"detail"})

CnCheckOut ==
  Previewed("cn", <<{"stay", "detail"}>>,
            [stay |-> {"leaving"}, detail |-> Values.detail], {"detail"})

\* Every detail awaits check-in, and no money, channel or deposit is involved.
CnCancel ==
  Previewed("cn", <<{"stay", "detail", "money"}>>,
            [stay |-> {"due", "early"}, detail |-> Values.detail, money |-> {"none"}],
            {"detail"})

\* The vacancy guards the call, but is not part of what is approved.
CnArrange ==
  Previewed("cn", <<{"detail", "assigned"}, {"room"}, {"vacancy"}>>,
            [detail |-> Values.detail, assigned |-> {"other"}, room |-> {"listed"},
             vacancy |-> {"free"}],
            {"detail", "room"})

CnExtend ==
  Previewed("cn", <<{"detail", "assigned"}, {"room"}, {"vacancy"}>>,
            [detail |-> Values.detail, assigned |-> {"asked"},
             room |-> Values.room, vacancy |-> {"free"}],
            {"detail"})

CnCleanState ==
  Previewed("cn", <<{"dirt"}>>, [dirt |-> Values.dirt], {"dirt"})

\* Names and dates are approved; what stands in the calendar is a guard.
CnAvailability(closures) ==
  Previewed("cn", <<{"room"}, {"closure"}, {"block"}, {"booking"}>>,
            [room |-> Values.room, closure |-> closures, block |-> {"none"},
             booking |-> {"none"}],
            {"room"})
CnClose == CnAvailability({"none"})
CnOpen  == CnAvailability({"manual", "maintenance"})

\* update_channel_prices, batch_update_channel_prices, update_central_prices.
CnPrices ==
  Previewed("cn", <<{"price"}>>, [price |-> {"p1", "p2"}], {"price"})

\* The vacancy check quotes the price.
CnCreateOrder ==
  Previewed("cn", <<{"room"}, {"vacancy", "quote"}, {"options"}>>,
            [room |-> {"listed"}, vacancy |-> {"free"}, quote |-> Values.quote,
             options |-> {"enabled"}],
            {"room", "quote"})

CnConnectPoi ==
  Previewed("cn", <<{"account"}, {"poi", "count"}>>,
            [account |-> {"verified"}, poi |-> {"absent"}, count |-> Values.count],
            {"account", "count"})

\* Both kinds read the channel's side and the property's own; a channel
\* property that already names its external one must name this one.
CnMapListing ==
  Previewed("cn", <<{"mapping"}, {"target"}>>,
            [mapping |-> Values.mapping, target |-> {"own"}], {"mapping", "target"})

-----------------------------------------------------------------------------
(***************************************************************************)
(* Overseas properties.                                                    *)
(***************************************************************************)

OvPrices ==
  Previewed("overseas", <<{"price"}>>, [price |-> {"p1", "p2"}], {"price"})

\* roomState, whose blocks the summary shows.
OvAvailability(closures) ==
  Previewed("overseas", <<{"room"}, {"closure"}, {"booking"}>>,
            [room |-> Values.room, closure |-> closures, booking |-> {"none"}],
            {"room", "closure"})
OvClose == OvAvailability({"none"})
OvOpen  == OvAvailability({"manual", "maintenance"})

\* Without a fare among the arguments a failed quote ends the call.
OvCreateOrder ==
  Previewed("overseas", <<{"room"}, {"closure"}, {"booking"}, {"quote"}>>,
            [room |-> {"listed"}, closure |-> {"none"}, booking |-> {"none"},
             quote |-> Values.quote],
            {"room", "quote"})

\* With one, the quote may fail; the amounts are then the arguments' own.
OvCreateOrderAtFare ==
  [OvCreateOrder EXCEPT !.needs.quote = Values.quote \union {"missing"},
                        !.lenient = {"quote"}, !.shown = {"room"},
                        !.pinned = {"room"}]

\* The state the room has is shown and deliberately left out of the digest.
OvCleanState ==
  [Previewed("overseas", <<{"room", "dirt"}>>,
             [room |-> Values.room, dirt |-> Values.dirt], {"room", "dirt"})
   EXCEPT !.pinned = {}]

\* An external property that is connected already is answered as such.
OvConnectPoi ==
  Previewed("overseas", <<{"poi"}>>, [poi |-> {"absent"}], {"poi"})

\* The present mapping is shown; another room mapped to the target refuses.
OvMapListing ==
  Previewed("overseas", <<{"poi", "mapping", "rivals"}, {"target"}>>,
            [poi |-> {"present"}, mapping |-> Values.mapping,
             rivals |-> {"none"}, target |-> {"own"}],
            {"mapping", "target"})

\* The four tools on stays show the booking as they find it and write when
\* both order and guest are shown; the read that shows them may fail.
OvCheckIn == Direct(<<{"guest"}>>, [guest |-> {"named"}], {"guest"})
OvCheckOut == Direct(<<{"guest"}>>, [guest |-> {"named"}], {"guest"})
OvArrange == Direct(<<{"guest"}>>, [guest |-> {"named"}], {"guest"})
OvExtend ==
  Direct(<<{"quote"}, {"guest"}>>,
         [quote |-> Values.quote \union {"missing"}, guest |-> {"named"}],
         {"quote", "guest"})

\* Confirmed, it imports what its arguments name and reads nothing.
OvImport == Direct(<<>>, [pulled |-> {"some"}], {})
=============================================================================
