---------------------------- MODULE PaymentFees -----------------------------
(***************************************************************************)
(* What a card payment charges and what its row says: calculatePaymentFees  *)
(* works back from the net amount to the gross amount, and the columns of    *)
(* payments round the results.  A requested amount is n / k cents, since the *)
(* validator takes any number, and fee rates are thousandths; the quotients  *)
(* are exact where the code has doubles, and columns round to the nearest    *)
(* cent, halves up.  The BOB/MXN rate quoted to the app is here too.         *)
(* The module has no state: what it computes is proved in ClipPaymentsProofs.*)
(***************************************************************************)
EXTENDS Integers

\* The nearest integer to a / b, halves up.
Round(a, b) == (2 * a + b) \div (2 * b)

\* calculatePaymentFees: netAmount = n / k, and numerators of grossAmount and
\* businessFeeAmount over k * (1000 - rate).
GrossNum(n, rate) == n * 1000
FeeNum(n, rate) == GrossNum(n, rate) - n * (1000 - rate)

\* The row createPayment writes: amounts are Decimal(10, 2) and the rate Decimal(5, 2),
\* so that the rate is kept in hundredths.
createPaymentRow(n, k, rate) ==
    [amount |-> Round(GrossNum(n, rate), k * (1000 - rate)),
     business_fee_rate |-> Round(rate, 10),
     business_fee_amount |-> Round(FeeNum(n, rate), k * (1000 - rate)),
     net_amount |-> Round(n, k)]

applyFee(rate, feeRate) == rate * (1000 - feeRate)

\* 1 BOB = (1 / bobUsdtWithFee) USDT * usdtMxnWithFee MXN, as a fraction.
buildBobMxnRate(bob, mxn, bobFee, mxnFee) ==
    [num |-> applyFee(mxn, mxnFee), den |-> applyFee(bob, bobFee)]
=============================================================================
