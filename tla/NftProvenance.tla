--------------------------- MODULE NftProvenance ---------------------------
(* Provenance of NFTs (src/src/nft_provenance_impl.rs, nft_provenance.rs):   *)
(* creators, ownership history, royalties, licenses, fractions and royalties *)
(* due on other chains. Every identifier digests the ledger time, so that a  *)
(* second record of a kind in one ledger replaces the first.                 *)
EXTENDS PlatformHost

CONSTANTS
    LicenseTerm,   \* durations of licenses, in units of the clock
    MaxFractions   \* fractions under one identifier

VARIABLE nft
(* [creators, nfts, created : CreatorNFTList, owned : OwnerNFTList,          *)
(*  counted : OwnerNFTCount, total : TotalNFTCount, registered :             *)
(*  CreatorCount, records : OwnershipRecord, history : NFTOwnershipHistory,  *)
(*  royalty : RoyaltyConfig, payments, paid : RoyaltyPaymentCount, licenses, *)
(*  granted : NFTLicenseList, issued : LicenseCount, fractional, fractions : *)
(*  FractionOwnership, divided : FractionalizationCount, crossings :         *)
(*  CrossChainRoyalty]                                                       *)

CreatorProfile == [total_nfts : Nat, total_royalties : Nat, verified : BOOLEAN]
NFTMetadata == [current_owner : Account, creator : Account]
OwnershipRecord == [previous_owner : Account, new_owner : Account, transferred_at : Nat]
RoyaltyConfig == [creator : Account, royalty_rate_bp : Nat, royalty_recipient : Account]
RoyaltyPayment == [to : Account, amount : Nat, sale_price : Nat]
NFTLicense == [licensee : Account, rights : SUBSET {"VIEW", "SUBLICENSE"},
               can_sublicense : BOOLEAN, expires_at : Nat, granted_at : Nat]
FractionalNFT == [total_fractions : Nat, redeemable : BOOLEAN]
FractionOwnership == [owner : Account, balance : Nat]
CrossChainRoyalty ==
    [amount : Nat, status : {"locked", "transferred"}, created_at : Nat, completed_at : Nat]

NftInit ==
    nft = [creators |-> EmptyMap, nfts |-> EmptyMap, created |-> EmptyMap,
           owned |-> EmptyMap, counted |-> EmptyMap, total |-> 0, registered |-> 0,
           records |-> EmptyMap, history |-> EmptyMap, royalty |-> EmptyMap,
           payments |-> EmptyMap, paid |-> 0, licenses |-> EmptyMap, granted |-> EmptyMap,
           issued |-> 0, fractional |-> EmptyMap, fractions |-> EmptyMap, divided |-> 0,
           crossings |-> EmptyMap]

(* The text of an address is longer than the 32 bytes set aside for it and   *)
(* is left out: the time alone identifies an NFT.                            *)
compute_nft_id == clock

(* compute_ownership_record_id, compute_royalty_payment_id and their like;   *)
(* a fraction's owner and a licensee are not part of the digest.             *)
IdFor(id) == <<id, clock>>

-----------------------------------------------------------------------------
(* Creators and ownership.                                                   *)

register_creator(creator) ==
    /\ creator \notin DOMAIN nft.creators
    /\ nft' = [nft EXCEPT
                 !.creators = Put(@, creator, [total_nfts |-> 0, total_royalties |-> 0,
                                               verified |-> FALSE]),
                 !.registered = @ + 1]

verify_creator(creator) ==
    /\ creator \in DOMAIN nft.creators
    /\ nft' = [nft EXCEPT !.creators[creator].verified = TRUE]

(* OwnerNFTCount and CreatorNFTCount are not told.                           *)
mint_nft(creator) ==
    LET id == compute_nft_id
    IN  /\ creator \in DOMAIN nft.creators
        /\ nft.total < MaxRecords
        /\ nft' = [nft EXCEPT
                     !.nfts = Put(@, id, [current_owner |-> creator, creator |-> creator]),
                     !.created = PushTo(@, creator, id),
                     !.owned = PushTo(@, creator, id),
                     !.creators[creator].total_nfts = @ + 1,
                     !.total = @ + 1]

SaturatingDec(n) == IF n = 0 THEN 0 ELSE n - 1

(* Anyone may transfer; the former owner keeps the NFT in its list.          *)
transfer_ownership(id, new_owner) ==
    LET previous == nft.nfts[id].current_owner
        less     == Put(nft.counted, previous, SaturatingDec(GetOr(nft.counted, previous, 0)))
    IN  /\ Len(ListUnder(nft.history, id)) <= MaxRecords
        /\ nft' = [nft EXCEPT
                     !.records = Put(@, IdFor(id), [previous_owner |-> previous,
                                    new_owner |-> new_owner, transferred_at |-> clock]),
                     !.history = PushTo(@, id, IdFor(id)),
                     !.nfts[id].current_owner = new_owner,
                     !.owned = PushTo(@, new_owner, id),
                     !.counted = Put(less, new_owner, GetOr(less, new_owner, 0) + 1)]

-----------------------------------------------------------------------------
(* Royalties.                                                                *)

validate_royalty_rate(rate_bp) == rate_bp <= 10000

calculate_royalty_amount(sale_price, rate_bp) == (sale_price * rate_bp) \div 10000

set_royalty_config(id, rate_bp, recipient) ==
    /\ validate_royalty_rate(rate_bp)
    /\ nft' = [nft EXCEPT !.royalty = Put(@, id,
                  [creator |-> nft.nfts[id].creator, royalty_rate_bp |-> rate_bp,
                   royalty_recipient |-> recipient])]

(* The creator is credited, whoever the recipient is.                        *)
pay_royalty(id, sale_price) ==
    LET config == nft.royalty[id]
        amount == calculate_royalty_amount(sale_price, config.royalty_rate_bp)
    IN  /\ config.creator \in DOMAIN nft.creators
        /\ nft.paid < MaxRecords
        /\ nft' = [nft EXCEPT
                     !.payments = Put(@, IdFor(id), [to |-> config.royalty_recipient,
                                      amount |-> amount, sale_price |-> sale_price]),
                     !.creators[config.creator].total_royalties = @ + amount,
                     !.paid = @ + 1]

initiate_cross_chain_royalty(id, amount) ==
    nft' = [nft EXCEPT !.crossings = Put(@, IdFor(id),
               [amount |-> amount, status |-> "locked", created_at |-> clock,
                completed_at |-> 0])]

(* The status is not asked: a transfer may be completed again.               *)
complete_cross_chain_royalty(record) ==
    nft' = [nft EXCEPT !.crossings[record].status = "transferred",
                       !.crossings[record].completed_at = clock]

-----------------------------------------------------------------------------
(* Licenses.                                                                 *)

grant_license(id, licensee, rights, duration) ==
    /\ nft.issued < MaxRecords
    /\ nft' = [nft EXCEPT
                 !.issued = @ + 1,
                 !.licenses = Put(@, IdFor(id),
                    [licensee |-> licensee, rights |-> rights,
                     can_sublicense |-> "SUBLICENSE" \in rights,
                     expires_at |-> clock + duration, granted_at |-> clock]),
                 !.granted = PushTo(@, id, IdFor(id))]

(* Sets the expiry to now, of a license that has expired, too.               *)
revoke_license(license) ==
    nft' = [nft EXCEPT !.licenses[license].expires_at = clock]

(* A license still holds in the ledger it expires or is revoked in.          *)
verify_license(license, required) ==
    /\ nft.licenses[license].expires_at >= clock
    /\ required \subseteq nft.licenses[license].rights

-----------------------------------------------------------------------------
(* Fractions.                                                                *)

fractionalize_nft(id, total, redeemable) ==
    LET fnft == IdFor(id)
    IN  /\ nft.divided < MaxRecords
        /\ nft' = [nft EXCEPT
                     !.divided = @ + 1,
                     !.fractional = Put(@, fnft, [total_fractions |-> total,
                                                  redeemable |-> redeemable]),
                     !.fractions = Put(@, IdFor(fnft),
                        [owner |-> nft.nfts[id].current_owner, balance |-> total])]

get_fraction_balance(fnft, owner) ==
    IF IdFor(fnft) \in DOMAIN nft.fractions THEN nft.fractions[IdFor(fnft)].balance ELSE 0

(* Both parties' records have one identifier: the receiver's, read before    *)
(* the sender's is written, is written last.                                 *)
transfer_fraction(fnft, from, to, amount) ==
    LET held == get_fraction_balance(fnft, from)
    IN  /\ IdFor(fnft) \in DOMAIN nft.fractions
        /\ held >= amount
        /\ held + amount <= MaxFractions
        /\ nft' = [nft EXCEPT !.fractions[IdFor(fnft)].balance =
                      get_fraction_balance(fnft, to) + amount]

redeem_fractions(fnft, owner, amount) ==
    /\ nft.fractional[fnft].redeemable
    /\ IdFor(fnft) \in DOMAIN nft.fractions
    /\ get_fraction_balance(fnft, owner) >= amount
    /\ nft' = [nft EXCEPT !.fractions[IdFor(fnft)].balance = @ - amount]

-----------------------------------------------------------------------------
NftNext ==
    \/ \E a \in Account : register_creator(a) \/ verify_creator(a) \/ mint_nft(a)
    \/ \E id \in DOMAIN nft.nfts :
        \/ \E a \in Account : transfer_ownership(id, a)
        \/ \E a \in Account, bp \in {5000, 10000, 10001} : set_royalty_config(id, bp, a)
        \/ \E n \in Amount : initiate_cross_chain_royalty(id, n)
        \/ \E a \in Account, r \in {{"VIEW"}, {"SUBLICENSE"}}, d \in LicenseTerm :
              grant_license(id, a, r, d)
        \/ \E n \in Amount, b \in BOOLEAN : fractionalize_nft(id, n, b)
    \/ \E id \in DOMAIN nft.royalty, n \in Amount : pay_royalty(id, n)
    \/ \E r \in DOMAIN nft.crossings : complete_cross_chain_royalty(r)
    \/ \E l \in DOMAIN nft.licenses : revoke_license(l)
    \/ \E f \in DOMAIN nft.fractional, n \in Amount :
        \/ \E a, b \in Account : transfer_fraction(f, a, b, n)
        \/ \E a \in Account : redeem_fractions(f, a, n)

NftTypeOK ==
    /\ \A a \in DOMAIN nft.creators : nft.creators[a] \in CreatorProfile
    /\ \A n \in DOMAIN nft.nfts : nft.nfts[n] \in NFTMetadata
    /\ \A r \in DOMAIN nft.records : nft.records[r] \in OwnershipRecord
    /\ \A n \in DOMAIN nft.royalty : nft.royalty[n] \in RoyaltyConfig
    /\ \A p \in DOMAIN nft.payments : nft.payments[p] \in RoyaltyPayment
    /\ \A l \in DOMAIN nft.licenses : nft.licenses[l] \in NFTLicense
    /\ \A f \in DOMAIN nft.fractional : nft.fractional[f] \in FractionalNFT
    /\ \A o \in DOMAIN nft.fractions : nft.fractions[o] \in FractionOwnership
    /\ \A c \in DOMAIN nft.crossings : nft.crossings[c] \in CrossChainRoyalty

(* Ownership leaves no gap: an NFT's owner is the receiver of its last       *)
(* transfer, a ledger's only transfer starts from the receiver of the one    *)
(* before, and the owner finds the NFT in its list. A mint in the NFT's own  *)
(* ledger starts it anew, so nothing is said of transfers in that ledger.    *)
OwnershipTraced ==
    \A id \in DOMAIN nft.nfts :
        LET h     == ListUnder(nft.history, id)
            n     == Len(h)
            of(k) == nft.records[h[k]]
        IN  /\ n > 0 /\ h[n][2] > id => of(n).new_owner = nft.nfts[id].current_owner
            /\ \A k \in 1..(n - 1) :
                  h[k][2] > id /\ h[k] # h[k + 1] /\ (k + 1 = n \/ h[k + 1] # h[k + 2])
                    => of(k + 1).previous_owner = of(k).new_owner
            /\ \E k \in DOMAIN ListUnder(nft.owned, nft.nfts[id].current_owner) :
                  nft.owned[nft.nfts[id].current_owner][k] = id

(* Creators are credited every royalty paid: no less than the payments on    *)
(* record, and exactly those unless one replaced another of its ledger; and  *)
(* the counters of NFTs and creators agree with the lists.                   *)
RoyaltiesCredited ==
    LET credited == Total([a \in DOMAIN nft.creators |-> nft.creators[a].total_royalties],
                          DOMAIN nft.creators)
        recorded == Total([p \in DOMAIN nft.payments |-> nft.payments[p].amount],
                          DOMAIN nft.payments)
    IN  /\ credited >= recorded
        /\ nft.paid = Cardinality(DOMAIN nft.payments) => credited = recorded
        /\ nft.registered = Cardinality(DOMAIN nft.creators)
        /\ nft.total = Total([a \in DOMAIN nft.creators |-> nft.creators[a].total_nfts],
                             DOMAIN nft.creators)
        /\ \A a \in DOMAIN nft.creators :
              nft.creators[a].total_nfts = Len(ListUnder(nft.created, a))

(* Rights end: a license in force runs within a term it was granted for, or  *)
(* was revoked in this very ledger; a fraction can be moved or redeemed in   *)
(* the ledger it was created in and never after.                             *)
RightsEnd ==
    /\ \A l \in DOMAIN nft.licenses : verify_license(l, {}) =>
          \/ nft.licenses[l].expires_at = clock
          \/ \E d \in LicenseTerm : nft.licenses[l].expires_at = nft.licenses[l].granted_at + d
    /\ \A f \in DOMAIN nft.fractional, a \in Account :
          get_fraction_balance(f, a) > 0 => f[2] = clock

ProvenanceSound == OwnershipTraced /\ RoyaltiesCredited /\ RightsEnd
=============================================================================
